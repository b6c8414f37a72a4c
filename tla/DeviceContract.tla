--------------------------- MODULE DeviceContract ---------------------------
(***************************************************************************)
(* The D1 evaluator (m2_d1_contract.py): one run of frames, its disk       *)
(* evidence and its injected failures go in, a receipt comes out, under an *)
(* exclusive lease and after a privacy guard has seen every frame.         *)
(* verify_receipt_semantics later decides about such a receipt on its own. *)
(*                                                                         *)
(* Time is in ticks and the thresholds are parameters.  Digests, which     *)
(* evaluate always computes over what the receipt holds, are left out.     *)
(***************************************************************************)
EXTENDS Integers, Sequences, FiniteSets, Ranks

CONSTANTS Warmup, Duration,      \* warmup_seconds, requested_duration_seconds
          Stall,                 \* the gap that counts as a stall
          MaxGap, MaxLatency95, MaxLatency99, MaxBacklog,
          MaxLostPercent,        \* 1 in the code
          TicksPerFrame,         \* the inverse of the least frame rate
          MinFree,               \* 2 GiB
          MaxFrames, MaxTime     \* bounds: the length of a run

ASSUME ContractAssumption ==
  /\ Warmup \in Nat /\ Duration \in Nat \ {0} /\ Stall \in Nat /\ TicksPerFrame \in Nat \ {0}
  /\ MaxLostPercent \in 0 .. 100 /\ MinFree \in Nat
  /\ MaxGap \in Nat /\ MaxLatency95 \in Nat /\ MaxLatency99 \in Nat /\ MaxBacklog \in Nat
  /\ MaxTime \in Nat \ {0}
  /\ TicksPerFrame < Duration  \* a run that is long enough has two frames: 13.5 a second for 60

VARIABLES cReq,      \* the request
          cPc,       \* where evaluate is
          cReceipt   \* what it returned

contractVars == <<cReq, cPc, cReceipt>>

NoValue == -1
Frame(t, kind, done, poor) == [at |-> t, kind |-> kind, done |-> done, poor |-> poor]
Frames ==
  {Frame(t, "PROCESSED", t, FALSE) : t \in 0 .. MaxTime}
  \cup {Frame(t, "PROCESSED", t + 2, FALSE) : t \in 0 .. MaxTime - 2}
  \cup {Frame(t, "DROPPED_EXPLICIT", NoValue, FALSE) : t \in {1, MaxTime - 1}}
  \cup {Frame(MaxTime - 1, "PROCESSED", MaxTime - 1, TRUE), Frame(MaxTime - 1, "FAILED", NoValue, FALSE),
        Frame(MaxTime, "MALFORMED", NoValue, FALSE)}

\* EncoderDurabilityEvidence
Stages == {"open", "write", "finalize", "durability"}
Succeeded == [s \in Stages |-> "SUCCEEDED"]
GoodDisk == [free |-> 2 * Duration, count |-> Warmup + Duration, rate |-> 1, samples |-> <<2, 3>>,
             stages |-> Succeeded]
Disks == {GoodDisk, [GoodDisk EXCEPT !.free = @ - 1], [GoodDisk EXCEPT !.rate = 0],
          [GoodDisk EXCEPT !.count = @ + 1], [GoodDisk EXCEPT !.samples = <<3, 1>>]}
         \cup {[GoodDisk EXCEPT !.stages[s] = "FAILED"] : s \in {"open", "durability"}}
         \cup {[GoodDisk EXCEPT !.stages["finalize"] = "NOT_ATTEMPTED"]}
Injected == {<<>>, <<"PRIVACY_STOP">>, <<"UNKNOWN_TECHNICAL_FAILURE">>}

NoReceipt == [outcome |-> "NONE"]

ContractInit ==
  /\ cReq \in [frames : {<<>>}, end : {MaxTime}, disk : Disks, injected : {<<>>}]
              \cup [frames : {<<>>}, end : {MaxTime}, disk : {GoodDisk}, injected : Injected]
              \cup [frames : {<<>>}, end : {MaxTime - 1}, disk : {GoodDisk}, injected : {<<>>}]
  /\ cPc = "capture" /\ cReceipt = NoReceipt

------------------------------------------------------------------------------
(* The receipt *)

\* A part of a run is given by the places of its frames
Of(r, part, kind) == {i \in part : r.frames[i].kind = kind}
accounting(r, part) ==
  [delivered |-> Cardinality(part), processed |-> Cardinality(Of(r, part, "PROCESSED")),
   dropped |-> Cardinality(Of(r, part, "DROPPED_EXPLICIT")),
   failed |-> Cardinality(Of(r, part, "FAILED")),
   poor |-> Cardinality({i \in part : r.frames[i].poor})]
NoFrames == [delivered |-> 0, processed |-> 0, dropped |-> 0, failed |-> 0, poor |-> 0]
NoMetrics == [total |-> NoValue, post |-> NoValue, rate |-> NoValue, gap95 |-> NoValue, latency95 |-> NoValue,
              latency99 |-> NoValue, p10 |-> NoValue, backlog |-> NoValue]

\* The frames fail with UNKNOWN_TECHNICAL_FAILURE here, the poor ones count as
\* QUALITY_INSUFFICIENT, and injected codes count as themselves
Counted(r, code) ==
  \/ code = "UNKNOWN_TECHNICAL_FAILURE" /\ \E i \in DOMAIN r.frames : r.frames[i].kind = "FAILED"
  \/ code = "QUALITY_INSUFFICIENT" /\ \E i \in DOMAIN r.frames : r.frames[i].poor
  \/ \E i \in DOMAIN r.injected : r.injected[i] = code
failure_counts(r) == {c \in {"PRIVACY_STOP", "QUALITY_INSUFFICIENT", "UNKNOWN_TECHNICAL_FAILURE"} : Counted(r, c)}
\* the codes in the order of their names
first_count_code(counts) ==
  IF "PRIVACY_STOP" \in counts THEN "PRIVACY_STOP"
  ELSE IF "QUALITY_INSUFFICIENT" \in counts THEN "QUALITY_INSUFFICIENT" ELSE "UNKNOWN_TECHNICAL_FAILURE"

Larger(a, b) == IF a >= b THEN a ELSE b
required_bytes(r) == Larger(MinFree, 2 * r.disk.rate * Duration)

receipt(r, outcome, code, counts, checked, stops, warm, acc, metrics) ==
  [outcome |-> outcome, code |-> code, counts |-> counts, checked |-> checked, stops |-> stops,
   warm |-> warm, acc |-> acc, metrics |-> metrics,
   scrubbed |-> FALSE, required |-> required_bytes(r), free |-> r.disk.free,
   count |-> r.disk.count, rate |-> r.disk.rate, stages |-> r.disk.stages]

\* A privacy stop keeps nothing of the run
scrubbed_receipt(counts, checked, stops) ==
  [outcome |-> "NO_GO", code |-> "PRIVACY_STOP", counts |-> counts, checked |-> checked,
   stops |-> stops, warm |-> NoFrames, acc |-> NoFrames, metrics |-> NoMetrics,
   scrubbed |-> TRUE, required |-> 0, free |-> 0, count |-> 0, rate |-> 0,
   stages |-> [s \in Stages |-> "NOT_ATTEMPTED"]]

failure_receipt(r, code, warm, acc, metrics, checked) ==
  LET counts == failure_counts(r) \cup {code}
  IN IF code = "PRIVACY_STOP" THEN scrubbed_receipt(counts, checked, 0)
     ELSE receipt(r, "NO_GO", code, counts, checked, 0, accounting(r, warm), acc, metrics)

------------------------------------------------------------------------------
(* The judgement *)

\* mutant: completions may come in any order
validate_frame_unordered(r, i) ==
  LET f == r.frames[i] IN
  IF f.kind = "MALFORMED" \/ f.at > r.end THEN "SCHEMA_INCOMPATIBLE"
  ELSE IF i > 1 /\ f.at = r.frames[i - 1].at THEN "FRAME_STALLED"
  ELSE IF i > 1 /\ f.at < r.frames[i - 1].at THEN "CLOCK_REGRESSION"
  ELSE IF i > 1 /\ f.at - r.frames[i - 1].at >= Stall THEN "FRAME_STALLED"
  ELSE IF f.kind = "PROCESSED" /\ f.done > r.end THEN "SCHEMA_INCOMPATIBLE"
  ELSE "OK"

\* _validate_observations, frame i: the checks in their order.  The last completion
\* before it is that of the nearest processed frame.
validate_frame(r, i) ==
  LET f == r.frames[i]
      before == {j \in 1 .. i - 1 : r.frames[j].kind = "PROCESSED"}
      last == IF before = {} THEN NoValue ELSE r.frames[CHOOSE j \in before : \A k \in before : k <= j].done
  IN IF f.kind = "MALFORMED" \/ f.at > r.end THEN "SCHEMA_INCOMPATIBLE"
     ELSE IF i > 1 /\ f.at = r.frames[i - 1].at THEN "FRAME_STALLED"
     ELSE IF i > 1 /\ f.at < r.frames[i - 1].at THEN "CLOCK_REGRESSION"
     ELSE IF i > 1 /\ f.at - r.frames[i - 1].at >= Stall THEN "FRAME_STALLED"
     ELSE IF f.kind = "PROCESSED" /\ f.done > r.end THEN "SCHEMA_INCOMPATIBLE"
     ELSE IF f.kind = "PROCESSED" /\ f.done <= last THEN "CLOCK_REGRESSION"
     ELSE "OK"

validate_observations(r) ==
  LET bad == {i \in 1 .. Len(r.frames) : validate_frame(r, i) # "OK"}
  IN IF bad = {} THEN "OK" ELSE validate_frame(r, CHOOSE i \in bad : \A j \in bad : i <= j)

Boundary(r) == r.frames[1].at + Warmup
warmup_of(r) == {i \in DOMAIN r.frames : r.frames[i].at < Boundary(r)}
post_of(r) == {i \in DOMAIN r.frames : r.frames[i].at >= Boundary(r)}

\* Of validated frames, which are in order: those after the warm-up follow one another
metrics_of(r) ==
  LET post == post_of(r)
      processed == Of(r, post, "PROCESSED")
      gaps == [i \in {j \in post : j - 1 \in post} |-> r.frames[i].at - r.frames[i - 1].at]
      latencies == [i \in processed |-> r.frames[i].done - r.frames[i].at]
      latest == CHOOSE i \in processed : \A j \in processed : r.frames[j].done <= r.frames[i].done
  IN [total |-> r.end - r.frames[1].at, post |-> r.end - Boundary(r),
      rate |-> Cardinality(post), gap95 |-> nearest_rank(gaps, 95),
      latency95 |-> nearest_rank(latencies, 95), latency99 |-> nearest_rank(latencies, 99),
      p10 |-> nearest_rank(r.disk.samples, 10),
      backlog |-> IF processed = {} THEN NoValue
                  ELSE r.frames[Max(post)].at - r.frames[latest].at]

\* _metrics gives NoValue for a run without post-warm-up time, or a negative backlog
Measurable(r) ==
  /\ post_of(r) # {}
  /\ LET m == metrics_of(r) IN m.total > 0 /\ m.post > 0

Lost(acc) == acc.dropped + acc.failed
threshold_failure(r, acc, m) ==
  IF \/ m.total < Duration \/ m.post < Duration
     \/ m.rate * TicksPerFrame < m.post \/ m.gap95 > MaxGap
     \/ m.latency95 = NoValue \/ m.latency95 > MaxLatency95 \/ m.latency99 > MaxLatency99
     \/ m.backlog > MaxBacklog
     \/ 100 * acc.processed < (100 - MaxLostPercent) * acc.delivered
     \/ 100 * Lost(acc) > MaxLostPercent * acc.delivered
  THEN "QUALITY_INSUFFICIENT"
  ELSE IF r.disk.free < required_bytes(r) THEN "DISK_SPACE_INSUFFICIENT"
  ELSE IF m.p10 < 2 * r.disk.rate THEN "DISK_THROUGHPUT_INSUFFICIENT"
  ELSE "OK"

stage_failure(stages) ==
  IF stages["open"] = "FAILED" THEN "ENCODER_UNAVAILABLE"
  ELSE IF stages["write"] = "FAILED" THEN "ENCODER_WRITE_FAILED"
  ELSE IF stages["finalize"] = "FAILED" THEN "ENCODER_FINALIZE_FAILED"
  ELSE IF stages["durability"] = "FAILED" THEN "DISK_FSYNC_FAILED"
  ELSE "OK"

\* _evaluate_under_lease, once the guard has cleared every frame
judge(r) ==
  LET n == Len(r.frames)
      warm == warmup_of(r)
      acc == accounting(r, post_of(r))
      m == metrics_of(r)
      no(code, metrics) == failure_receipt(r, code, warm, acc, metrics, n)
  IN IF validate_observations(r) # "OK"
     THEN failure_receipt(r, validate_observations(r), {}, NoFrames, NoMetrics, n)
     ELSE IF failure_counts(r) # {} THEN no(first_count_code(failure_counts(r)), NoMetrics)
     ELSE IF acc.delivered = 0 THEN no("INPUT_UNAVAILABLE", NoMetrics)
     ELSE IF stage_failure(r.disk.stages) # "OK" THEN no(stage_failure(r.disk.stages), NoMetrics)
     ELSE IF ~ Measurable(r) THEN no("SCHEMA_INCOMPATIBLE", NoMetrics)
     ELSE IF r.disk.count <= 0 \/ r.disk.rate <= 0 THEN no("ENCODER_WRITE_FAILED", m)
     ELSE IF r.disk.count # r.disk.rate * m.total THEN no("SCHEMA_INCOMPATIBLE", m)
     ELSE IF threshold_failure(r, acc, m) # "OK" THEN no(threshold_failure(r, acc, m), m)
     ELSE receipt(r, "PASS", "NONE", {}, n, 0, accounting(r, warm), acc, m)

------------------------------------------------------------------------------
(* verify_receipt_semantics *)

accounting_is_semantic(a) == a.processed + a.dropped + a.failed = a.delivered /\ a.poor <= a.processed

metrics_are_semantic(m, rc) ==
  /\ \A x \in DOMAIN m : m[x] >= 0
  /\ m.total - m.post = Warmup
  /\ m.total >= Duration /\ m.post >= Duration
  /\ m.rate = rc.acc.delivered /\ m.rate * TicksPerFrame >= m.post
  /\ m.gap95 <= MaxGap /\ m.latency95 <= MaxLatency95 /\ m.latency99 <= MaxLatency99
  /\ m.backlog <= MaxBacklog
  /\ m.p10 >= 2 * rc.rate
  /\ rc.acc.delivered # 0
  /\ 100 * rc.acc.processed >= (100 - MaxLostPercent) * rc.acc.delivered
  /\ 100 * Lost(rc.acc) <= MaxLostPercent * rc.acc.delivered

verify_privacy_stop(rc) ==
  /\ rc.outcome = "NO_GO" /\ rc.counts = {"PRIVACY_STOP"}
  /\ rc.checked >= 1 /\ rc.stops = 1
  /\ rc.warm = NoFrames /\ rc.acc = NoFrames
  /\ rc.required = 0 /\ rc.free = 0 /\ rc.count = 0 /\ rc.rate = 0
  /\ \A s \in Stages : rc.stages[s] = "NOT_ATTEMPTED"

verify_receipt_semantics(rc) ==
  /\ accounting_is_semantic(rc.warm) /\ accounting_is_semantic(rc.acc)
  /\ IF rc.code = "PRIVACY_STOP" THEN verify_privacy_stop(rc)
     ELSE /\ rc.required = Larger(MinFree, 2 * rc.rate * Duration) /\ rc.free >= rc.required
          /\ IF rc.outcome = "PASS"
             THEN /\ rc.code = "NONE" /\ rc.counts = {} /\ rc.stops = 0
                  /\ rc.checked = rc.warm.delivered + rc.acc.delivered
                  /\ rc.acc.poor = 0 /\ rc.count > 0 /\ rc.rate > 0
                  /\ \A s \in Stages : rc.stages[s] = "SUCCEEDED"
                  /\ metrics_are_semantic(rc.metrics, rc)
                  /\ rc.count = rc.rate * rc.metrics.total
             ELSE rc.code \in rc.counts
          /\ rc.checked >= rc.stops

------------------------------------------------------------------------------
(* evaluate *)

\* The run delivers frames, in any order the clock shows, until it is evaluated
capture_frame ==
  /\ cPc = "capture" /\ Len(cReq.frames) < MaxFrames
  /\ \E f \in Frames : cReq' = [cReq EXCEPT !.frames = Append(@, f)]
  /\ UNCHANGED <<cPc, cReceipt>>

\* The lease is not had, or acquiring it raises: a receipt without a look at the frames
acquire_owner ==
  /\ cPc = "capture"
  /\ \/ cPc' = "inspect" /\ UNCHANGED cReceipt
     \/ cPc' = "done" /\ cReceipt' = failure_receipt(cReq, "SCHEMA_INCOMPATIBLE", {}, NoFrames, NoMetrics, 0)
  /\ UNCHANGED cReq

\* The guard stops at a frame, or raises at it: nothing after it is looked at
guard_stops ==
  /\ cPc = "inspect"
  /\ \E i \in 1 .. Len(cReq.frames) : cReceipt' = scrubbed_receipt({"PRIVACY_STOP"}, i, 1)
  /\ cPc' = "release"
  /\ UNCHANGED cReq

\* All frames are clear; the judgement itself may raise as well
evaluate_under_lease ==
  /\ cPc = "inspect"
  /\ cReceipt' \in {judge(cReq), failure_receipt(cReq, "UNKNOWN_TECHNICAL_FAILURE", {}, NoFrames, NoMetrics, 0)}
  /\ cPc' = "release"
  /\ UNCHANGED cReq

\* A lease that cannot be released takes the result with it
release_owner ==
  /\ cPc = "release"
  /\ cPc' = "done"
  /\ \/ UNCHANGED cReceipt
     \/ cReceipt' = failure_receipt(cReq, "SCHEMA_INCOMPATIBLE", {}, NoFrames, NoMetrics, 0)
  /\ UNCHANGED cReq

ContractNext == capture_frame \/ acquire_owner \/ guard_stops \/ evaluate_under_lease \/ release_owner

ContractSpec == ContractInit /\ [][ContractNext]_contractVars

------------------------------------------------------------------------------
(* What a pass means, said of the run and not of its summary. *)

\* At most 100 - p percent of the values are above the limit
MostWithin(values, limit, p) ==
  100 * Cardinality({i \in DOMAIN values : values[i] <= limit}) >= p * Cardinality(DOMAIN values)

Acceptable(r) ==
  LET n == Len(r.frames)
      Late == {i \in 1 .. n : r.frames[i].at >= Boundary(r)}
      Done == {i \in Late : r.frames[i].kind = "PROCESSED"}
      newest == CHOOSE i \in Done : \A j \in Done : j <= i
  IN /\ n > 0 /\ Done # {}
     \* every frame is well formed, none failed or poor, captured and completed in order
     /\ \A i \in 1 .. n : /\ r.frames[i].kind \in {"PROCESSED", "DROPPED_EXPLICIT"} /\ ~ r.frames[i].poor
                          /\ r.frames[i].at <= r.end /\ r.frames[i].done <= r.end
     /\ \A i \in 1 .. n - 1 : r.frames[i + 1].at - r.frames[i].at \in 1 .. Stall - 1
     /\ \A i, j \in 1 .. n : i < j /\ {r.frames[i].kind, r.frames[j].kind} = {"PROCESSED"} => r.frames[i].done < r.frames[j].done
     /\ r.injected = <<>>
     \* long enough, fast enough, and not falling behind
     /\ r.end - Boundary(r) >= Duration
     /\ Cardinality(Late) * TicksPerFrame >= r.end - Boundary(r)
     /\ MostWithin([i \in {j \in Late : j - 1 \in Late} |-> r.frames[i].at - r.frames[i - 1].at], MaxGap, 95)
     /\ LET lat == [i \in Done |-> r.frames[i].done - r.frames[i].at]
        IN MostWithin(lat, MaxLatency95, 95) /\ MostWithin(lat, MaxLatency99, 99)
     /\ r.frames[n].at - r.frames[newest].at <= MaxBacklog
     /\ 100 * (Cardinality(Late) - Cardinality(Done)) <= MaxLostPercent * Cardinality(Late)
     \* and the disk kept up
     /\ \A s \in Stages : r.disk.stages[s] # "FAILED"
     /\ r.disk.rate > 0 /\ r.disk.count = r.disk.rate * (r.end - r.frames[1].at)
     /\ r.disk.free >= required_bytes(r)
     /\ \A i \in DOMAIN r.disk.samples : r.disk.samples[i] >= 2 * r.disk.rate

\* The judgement passes exactly the acceptable runs, every frame of which the guard has
\* cleared, and the independent verifier agrees with the receipt, pass or not, save
\* where it asks for more: stages that were all attempted, enough free disk even of a
\* refusal, and of a privacy stop that a guard made it (evaluate, nearest_rank,
\* _threshold_failure, verify_receipt_semantics).
EvaluationExact ==
  cPc \in {"release", "done"} =>
    /\ cReceipt.outcome = "PASS" => Acceptable(cReq) /\ cReceipt.checked = Len(cReq.frames)
    /\ Acceptable(cReq) => judge(cReq).outcome = "PASS"
    /\ verify_receipt_semantics(cReceipt) <=>
         IF cReceipt.code = "PRIVACY_STOP" THEN cReceipt.stops = 1
         ELSE /\ cReq.disk.free >= required_bytes(cReq)
              /\ cReceipt.outcome = "PASS" => cReq.disk.stages = Succeeded
=============================================================================
