---------------------------- MODULE NativeReceipt ----------------------------
(***************************************************************************)
(* The receipt of a D1 N1 preflight (m2_d1_native.py): _run_consumed takes *)
(* frames until the run is long enough or something fails, cleans up, and  *)
(* _receipt states what was measured.  In process the service terminalizes *)
(* the receipt itself; in a capture worker the parent rebuilds it from the *)
(* worker's payload and from what it saw of the worker.  In both cases     *)
(* verify_receipt_semantics later judges the receipt alone.                *)
(*                                                                         *)
(* Times are ticks.  Digests and the pinned bindings, which _receipt takes *)
(* from the constants the verifier compares them with, are left out.       *)
(***************************************************************************)
EXTENDS Integers, Sequences, SequencesExt, FiniteSets, Ranks

CONSTANTS RunLength, RunWarmup,       \* PREFLIGHT_SECONDS, WARMUP_SECONDS
          StallGap,                   \* 1 s
          GapLimit, LatencyLimit95, LatencyLimit99, BacklogLimit,
          TicksPerMs, TicksPerRunFrame,
          MaxRunFrames, MaxRunTime    \* bounds: the frames of a run, their last tick

ASSUME RunAssumption ==
  /\ RunWarmup \in Nat /\ RunLength \in Nat /\ RunWarmup < RunLength
  /\ TicksPerMs \in Nat \ {0} /\ TicksPerRunFrame \in Nat \ {0} /\ StallGap \in Nat \ {0}
  /\ GapLimit \in Nat /\ LatencyLimit95 \in Nat /\ LatencyLimit99 \in Nat /\ BacklogLimit \in Nat
  /\ MaxRunTime \in Nat \ {0}

VARIABLES nPc,       \* where the run is
          nState,    \* _RunState
          nTaken,    \* the frames that were measured, for the properties
          nLaunched, \* whether the video child was launched
          nReceipt,  \* the receipt, or None
          nHeld      \* the resources that were not given back

runVars == <<nPc, nState, nTaken, nLaunched, nReceipt, nHeld>>

Resources == {"buffers", "pipe", "child", "reader", "media", "lease", "mutex"}
NoTick == -1

InitialState ==
  [first |-> NoTick, previous |-> NoTick, stamp |-> -1, delivered |-> 0, post |-> 0, checked |-> 0,
   stops |-> 0, seen |-> 0, backlog |-> 0, gaps |-> <<>>, latencies |-> <<>>, failure |-> "NONE"]

\* the service in process has no event sink, the worker's sink is _emit_worker_phase
RunInit ==
  /\ nPc \in [at : {"liveness"}, inWorker : BOOLEAN]
  /\ nState = InitialState /\ nTaken = <<>> /\ nLaunched = FALSE
  /\ nReceipt = [outcome |-> "NONE"] /\ nHeld = {}

Reaches(at) == nPc' = [nPc EXCEPT !.at = at]

------------------------------------------------------------------------------
(* _receipt: the counts follow from the warm-up and the successful frames *)

Metrics == [total |-> 0, post |-> 0, rate |-> NoTick, gap95 |-> NoTick, latency95 |-> NoTick,
            latency99 |-> NoTick, backlog |-> NoTick, stall |-> 0]

receipt_of(failure, held, raw, metrics, warmup, successes, checked, stops, seen) ==
  [outcome |-> IF failure = "NONE" THEN "PASS" ELSE "NO_GO", failure |-> failure, raw |-> raw,
   held |-> held, cleaned |-> ~raw /\ held \cap Resources = {}, verified |-> FALSE,
   supervised |-> FALSE, sealed |-> FALSE, metrics |-> metrics,
   warmup |-> warmup, post |-> successes, delivered |-> warmup + successes,
   checked |-> IF failure = "NONE" THEN warmup + successes ELSE checked,
   stops |-> stops, seen |-> seen]

\* ffmpeg_lease_closed is true by default, the other flags are false
Unclaimed == (Resources \ {"lease", "buffers"}) \cup {"job", "worker lease"}
bare_receipt(failure, released) ==
  receipt_of(failure, Unclaimed \ released, FALSE, Metrics, 0, 0, 0, 0, 0)

------------------------------------------------------------------------------
(* Before the capture *)

\* Nothing is terminalized in the worker; in process the receipt goes to the store.
candidate(r) ==
  /\ nReceipt' = r
  /\ Reaches(IF nPc.inWorker THEN "reported" ELSE "terminalize")

\* The engine is missing, the sink raises, the device or the executable has changed, or
\* the mutex is taken: some of these close the media runtime and say so.
refused ==
  /\ nPc.at = "liveness"
  /\ \E failure \in {"POSE_ENGINE_UNAVAILABLE", "CAPTURE_RUNTIME_EXCEPTION", "SCHEMA_INCOMPATIBLE"},
        released \in SUBSET {"media"} :
       candidate(bare_receipt(failure, released))
  /\ UNCHANGED <<nState, nTaken, nLaunched, nHeld>>

capture_starts ==
  /\ nPc.at = "liveness"
  /\ Reaches("capture") /\ nLaunched' = TRUE
  /\ UNCHANGED <<nState, nTaken, nReceipt, nHeld>>

fails_with(code) ==
  /\ nState' = [nState EXCEPT !.failure = code]
  /\ Reaches("cleanup")
  /\ UNCHANGED <<nTaken, nReceipt, nHeld>>

launch_raises ==
  /\ nPc.at = "liveness" /\ fails_with("CAPTURE_RUNTIME_EXCEPTION") /\ UNCHANGED nLaunched

------------------------------------------------------------------------------
(* The frames.  A frame is [at, wait, took, content]: when it was read, how  *)
(* long it lay in the queue, how long the inspection took, what it showed.   *)

RunFrames ==
  [at : 0 .. MaxRunTime, wait : {0}, took : {-1, 0, LatencyLimit95 + 1}, content : {"empty"}]
  \cup [at : {0, MaxRunTime - 1}, wait : {-1, BacklogLimit, BacklogLimit + 1}, took : {0}, content : {"empty"}]
  \cup [at : {0, MaxRunTime - 1}, wait : {0}, took : {0},
        content : {"face", "face raises", "pose", "pose raises"}]

video_timestamp(s, f) == (f.at - s.first) \div TicksPerMs

\* the first thing that is wrong with frame f, in the order of the loop
frame_failure(s, f) ==
  IF f.wait < 0 THEN "CLOCK_REGRESSION"
  ELSE IF s.previous = NoTick /\ nPc.inWorker THEN "CAPTURE_RUNTIME_EXCEPTION"
  ELSE IF s.previous # NoTick /\ f.at <= s.previous THEN "CLOCK_REGRESSION"
  ELSE IF s.previous # NoTick /\ f.at - s.previous >= StallGap THEN "FRAME_STALLED"
  ELSE IF video_timestamp(s, f) <= s.stamp THEN "CLOCK_REGRESSION"
  ELSE IF f.content \in {"face", "face raises", "pose"} THEN "PRIVACY_STOP"
  ELSE IF f.content = "pose raises" THEN "POSE_ENGINE_EXCEPTION"
  ELSE IF f.took < 0 THEN "CLOCK_REGRESSION"
  ELSE "NONE"

\* _RunState.record, and the previous ingress
record(s, f) ==
  LET post == f.at - s.first >= RunWarmup
      gap == IF s.previous = NoTick THEN <<>> ELSE <<f.at - s.previous>>
  IN [s EXCEPT !.gaps = IF post THEN @ \o gap ELSE @,
               !.latencies = IF post THEN Append(@, f.took) ELSE @,
               !.post = IF post THEN @ + 1 ELSE @,
               !.delivered = @ + 1, !.previous = f.at, !.checked = @ + 1,
               !.stamp = video_timestamp(s, f)]

frame_arrives(f) ==
  LET s == [nState EXCEPT !.backlog = IF f.wait > @ THEN f.wait ELSE @,
                          !.first = IF @ = NoTick /\ f.wait >= 0 THEN f.at ELSE @]
      failure == frame_failure(s, f)
      detected == failure = "PRIVACY_STOP" /\ f.content # "face raises"
  IN /\ nPc.at = "capture" /\ Len(nTaken) < MaxRunFrames
     /\ IF failure = "NONE"
        THEN /\ nState' = record(s, f) /\ nTaken' = Append(nTaken, f)
             /\ Reaches(IF f.at - s.first >= RunLength THEN "cleanup" ELSE "capture")
        ELSE /\ nState' = [s EXCEPT !.failure = failure,
                                    !.stops = IF failure = "PRIVACY_STOP" THEN 1 ELSE 0,
                                    !.seen = IF detected THEN 1 ELSE 0,
                                    !.checked = IF failure = "CLOCK_REGRESSION" /\ f.took < 0 /\ f.wait >= 0
                                                   /\ video_timestamp(s, f) > s.stamp THEN @ + 1 ELSE @]
             /\ nTaken' = nTaken
             /\ Reaches("cleanup")
     /\ UNCHANGED <<nLaunched, nReceipt, nHeld>>

\* no frame in time, a reader that is gone or raised, the end of the stream, a short frame
frame_reader_fails ==
  /\ nPc.at = "capture"
  /\ \E code \in {"FRAME_STALLED", "FRAME_READER_EXCEPTION", "INPUT_MALFORMED"}
                 \cup {IF nState.delivered = 0 THEN "INPUT_UNAVAILABLE" ELSE "INPUT_MALFORMED"} :
       fails_with(code)
  /\ UNCHANGED nLaunched

------------------------------------------------------------------------------
(* The finally block: what cannot be given back is held *)

Consistent(held) ==
  /\ "reader" \in held => nLaunched /\ {"pipe", "buffers"} \subseteq held
  /\ nLaunched /\ "buffers" \in held => "reader" \in held
  /\ ~nLaunched => {"pipe", "child"} \subseteq held

\* mutant: a run that succeeded is not asked whether its cleanup did
after_cleanup_lenient(failure, held) ==
  IF failure # "NONE" /\ held # {} THEN "CLEANUP_INCOMPLETE" ELSE failure

\* What the cleanup makes of the failure so far; a privacy stop stays what it is
after_cleanup(failure, held) ==
  LET closed == nPc.inWorker /\ nLaunched /\ held \cap {"pipe", "child", "reader"} = {}
  IN IF failure = "PRIVACY_STOP" THEN failure
     ELSE IF closed THEN "CAPTURE_RUNTIME_EXCEPTION"  \* the sink does not know CAPTURE_CLOSED
     ELSE IF held # {} THEN "CLEANUP_INCOMPLETE"
     ELSE failure

cleanup ==
  /\ nPc.at = "cleanup"
  /\ \E held \in SUBSET Resources :
       /\ Consistent(held)
       /\ nHeld' = held
       /\ nState' = [nState EXCEPT !.failure = after_cleanup(@, held)]
  /\ Reaches("result")
  /\ UNCHANGED <<nTaken, nLaunched, nReceipt>>

receipt_threshold_failure(s, total, post) ==
  IF total < RunLength \/ post < RunLength - RunWarmup THEN "INPUT_MALFORMED"
  ELSE IF \/ s.gaps = <<>> \/ s.latencies = <<>>
          \/ s.backlog > BacklogLimit
          \/ s.post * TicksPerRunFrame < post
          \/ nearest_rank(s.gaps, 95) > GapLimit
          \/ nearest_rank(s.latencies, 95) > LatencyLimit95
          \/ nearest_rank(s.latencies, 99) > LatencyLimit99
       THEN "QUALITY_INSUFFICIENT"
  ELSE "NONE"

measured(s) ==
  LET total == s.previous - s.first
  IN [total |-> total, post |-> IF total > RunWarmup THEN total - RunWarmup ELSE 0, rate |-> s.post,
      gap95 |-> nearest_rank(s.gaps, 95), latency95 |-> nearest_rank(s.latencies, 95),
      latency99 |-> nearest_rank(s.latencies, 99), backlog |-> s.backlog,
      stall |-> IF s.gaps = <<>> THEN 0 ELSE Max(ToSet(s.gaps))]

\* Without a measured frame the receipt does not take over whether the lease was closed.
result_receipt(s, held) ==
  LET raw == "buffers" \in held
      m == measured(s)
      failure == IF s.failure # "NONE" THEN s.failure ELSE receipt_threshold_failure(s, m.total, m.post)
  IN IF s.previous = NoTick
     THEN receipt_of(IF s.failure = "NONE" THEN "INPUT_UNAVAILABLE" ELSE s.failure,
                     (held \ {"lease"}) \cup {"job", "worker lease"}, raw, Metrics, 0, 0, 0, 0, 0)
     ELSE [receipt_of(failure, held, raw, m, s.delivered - s.post, s.post, 0, 0, 0)
             EXCEPT !.verified = TRUE, !.supervised = TRUE]

\* a privacy stop reports no frames
privacy_receipt(s, held) ==
  [receipt_of("PRIVACY_STOP", held \cup {"job", "worker lease"}, "buffers" \in held, Metrics,
              0, 0, s.checked, 1, s.seen) EXCEPT !.verified = TRUE]

result ==
  /\ nPc.at = "result"
  /\ candidate(IF nState.failure = "PRIVACY_STOP" THEN privacy_receipt(nState, nHeld)
               ELSE result_receipt(nState, nHeld))
  /\ UNCHANGED <<nState, nTaken, nLaunched, nHeld>>

------------------------------------------------------------------------------
(* verify_receipt_semantics *)

verify_common(r) ==
  /\ r.sealed   \* run nonce and terminal digests of a consumed authority
  /\ r.raw => r.failure \in {"PRIVACY_STOP", "CLEANUP_INCOMPLETE"}

verify_pass(r) ==
  LET m == r.metrics
  IN /\ r.failure = "NONE" /\ r.stops = 0 /\ r.seen = 0
     /\ m.total >= RunLength /\ m.post >= RunLength - RunWarmup /\ m.post > 0
     /\ m.rate * TicksPerRunFrame >= m.post
     /\ m.gap95 \in 0 .. GapLimit /\ m.latency95 \in 0 .. LatencyLimit95
     /\ m.latency99 \in 0 .. LatencyLimit99 /\ m.backlog \in 0 .. BacklogLimit
     /\ m.stall < StallGap
     /\ r.held = {} /\ r.cleaned /\ r.supervised /\ r.verified
     /\ r.delivered = r.warmup + r.post /\ r.checked = r.delivered

verify_no_go(r) ==
  /\ r.failure # "NONE"
  /\ r.failure = "CLEANUP_INCOMPLETE" => ~(r.cleaned /\ r.held \ {"buffers"} = {})
  /\ r.failure # "PRIVACY_STOP" => r.stops = 0 /\ r.seen = 0
  /\ r.failure = "PRIVACY_STOP" => r.delivered = 0 /\ r.stops = 1

run_receipt_verifies(r) ==
  verify_common(r) /\ IF r.outcome = "PASS" THEN verify_pass(r) ELSE verify_no_go(r)

candidate_semantics_are_valid(r) == run_receipt_verifies([r EXCEPT !.sealed = TRUE])

------------------------------------------------------------------------------
(* The parent of a worker *)

\* What the parent saw replaces what the worker claims about resources.
deserialize_worker_receipt(r) ==
  [receipt_of(r.failure, {}, FALSE, Metrics, 0, 0, 0, IF r.failure = "PRIVACY_STOP" THEN 1 ELSE 0, 0)
     EXCEPT !.cleaned = r.cleaned, !.supervised = TRUE]

supervisor_failure_receipt(failure, drained, leased) ==
  [receipt_of(failure, (IF drained THEN {} ELSE (Resources \ {"buffers"}) \cup {"job"})
                       \cup (IF leased THEN {"worker lease"} ELSE {}),
              ~drained, Metrics, 0, 0, 0, 0, 0)
     EXCEPT !.cleaned = FALSE, !.supervised = TRUE]

\* A candidate that would not verify is replaced, and so is any when the grant stays.
parent_takes(r, revoked) ==
  /\ nReceipt' = IF ~revoked THEN bare_receipt("UNKNOWN_TECHNICAL_FAILURE", {})
                 ELSE IF candidate_semantics_are_valid(r) THEN r
                 ELSE bare_receipt("WORKER_PROTOCOL_FAILURE", {})
  /\ Reaches("terminalize")
  /\ UNCHANGED <<nState, nTaken, nLaunched, nHeld>>

monitor_allows ==
  /\ nPc.at = "reported"
  /\ LET r == deserialize_worker_receipt(nReceipt)
         taken == IF candidate_semantics_are_valid(r) THEN r
                  ELSE supervisor_failure_receipt("WORKER_PROTOCOL_FAILURE", TRUE, FALSE)
     IN \E revoked \in BOOLEAN : parent_takes(taken, revoked)

\* _monitor_failure_code: a timeout, an undrained job, a lease that stays, or a receipt
\* out of its phase (module CaptureWorker)
monitor_refuses ==
  /\ nPc.at = "reported"
  /\ \E drained, leased, late, revoked \in BOOLEAN :
       LET code == IF late THEN "PRIVACY_GUARD_TIMEOUT"
                   ELSE IF leased \/ ~drained THEN "CLEANUP_INCOMPLETE"
                   ELSE "WORKER_PROTOCOL_FAILURE"
       IN parent_takes(supervisor_failure_receipt(code, drained, leased), revoked)

terminalize ==
  /\ nPc.at = "terminalize"
  /\ \E stored \in BOOLEAN :
       nReceipt' = IF stored THEN [nReceipt EXCEPT !.sealed = TRUE]
                   ELSE [nReceipt EXCEPT !.outcome = "NO_GO", !.failure = "AUTHORITY_FINALIZATION_FAILED"]
  /\ Reaches("done")
  /\ UNCHANGED <<nState, nTaken, nLaunched, nHeld>>

RunNext ==
  \/ refused \/ capture_starts \/ launch_raises \/ frame_reader_fails
  \/ \E f \in RunFrames : frame_arrives(f)
  \/ cleanup \/ result \/ monitor_allows \/ monitor_refuses \/ terminalize

RunSpec == RunInit /\ [][RunNext]_runVars

------------------------------------------------------------------------------
(* What a receipt is worth *)

\* The frames of an acceptable run, by their definition and not by the running sums.
AcceptableRun(fs) ==
  LET first == fs[1].at
      last == fs[Len(fs)].at
      late == {i \in 1 .. Len(fs) : fs[i].at - first >= RunWarmup}
      Share(bad, percent) == Cardinality(bad) * 100 <= (100 - percent) * Cardinality(late)
  IN /\ fs # <<>> /\ last - first >= RunLength
     /\ Cardinality(late) * TicksPerRunFrame >= last - first - RunWarmup
     /\ \A i \in 1 .. Len(fs) : fs[i].wait <= BacklogLimit
     /\ LET spans == late \ {1}
            wide == {i \in spans : fs[i].at - fs[i - 1].at > GapLimit}
        IN spans # {} /\ Cardinality(wide) * 100 <= 5 * Cardinality(spans)
     /\ Share({i \in late : fs[i].took > LatencyLimit95}, 95)
     /\ Share({i \in late : fs[i].took > LatencyLimit99}, 99)

\* Every receipt the service returns passes its own verifier, unless the terminal record
\* could not be stored, when it never does; a run passes exactly when its frames are
\* acceptable, all of them were inspected and every resource is given back
\* (_run_consumed, _receipt, verify_receipt_semantics, _supervised_preflight).
RunReceiptExact ==
  nPc.at = "done" =>
    /\ run_receipt_verifies(nReceipt) <=> nReceipt.failure # "AUTHORITY_FINALIZATION_FAILED"
    /\ nReceipt.outcome = "PASS" =>
         ~nPc.inWorker /\ nHeld = {} /\ nReceipt.checked = Len(nTaken) /\ AcceptableRun(nTaken)
    /\ nReceipt.sealed /\ ~nPc.inWorker /\ nLaunched /\ nHeld = {} /\ nState.failure = "NONE"
         /\ nTaken # <<>> /\ AcceptableRun(nTaken) => nReceipt.outcome = "PASS"
==============================================================================
