-------------------------- MODULE NativeAuthority ---------------------------
(***************************************************************************)
(* The D1-N1 store of a single-use authority and the service that spends   *)
(* it (m2_d1_native.py): prepare, the supervised preflight, the worker's   *)
(* grant, the terminal record and the verification of a receipt.           *)
(*                                                                         *)
(* Callers are processes.  A store operation loads, compares and replaces  *)
(* one file under the authority mutex, which it never waits for: it has    *)
(* its effect, or it has none, or it has it and then raises because the    *)
(* mutex could not be released.  The camera's own mutex spans a capture.   *)
(* No file is ever deleted, so there is one authority at most and its      *)
(* state stands for its record.                                            *)
(***************************************************************************)
EXTENDS Naturals, FiniteSets

CONSTANTS Callers,    \* processes that call the service
          MaxCalls    \* bound: how often each of them calls

\* A caller is a process id, which no mutex mistakes for being free
ASSUME CallersAssumption == "free" \notin Callers

VARIABLES
  nPrepared,  \* d1-n1-prepared.v2.json, or a legacy file in its place
  nGrant,     \* d1-n1-worker-grant.v1.json
  nTerminal,  \* d1-n1-terminal.v2.json
  nVideo,     \* the video-owner mutex: "free" or its owner
  nCaller,    \* what each caller is doing, and the receipt it was last given
  nCaptures   \* history: the callers whose worker opened the camera

nativeVars == <<nPrepared, nGrant, nTerminal, nVideo, nCaller, nCaptures>>
nativeStore == <<nPrepared, nGrant, nTerminal>>

NoGrant == [state |-> "NONE"]
NoTerminal == [outcome |-> "NONE"]
NotCalled == [pc |-> "idle", calls |-> 0, candidate |-> "NO_GO", issued |-> FALSE, receipt |-> "NONE"]

NativeInit ==
  /\ nPrepared \in {"ABSENT", "LEGACY"}
  /\ nGrant = NoGrant /\ nTerminal = NoTerminal
  /\ nVideo = "free"
  /\ nCaller = [c \in Callers |-> NotCalled]
  /\ nCaptures = {}

\* Caller c goes on at pc; c returns a receipt
go(c, pc) == nCaller' = [nCaller EXCEPT ![c].pc = pc]
native_receipt(c, outcome) ==
  nCaller' = [nCaller EXCEPT ![c].pc = "idle", ![c].receipt = outcome, ![c].issued = FALSE]

\* How a store operation under _authority_write_guard may end: it applies and returns,
\* it is refused before it applies, or it applies and raises on the way out
GuardEnds == {"applied", "refused", "raised"}

------------------------------------------------------------------------------
(* prepare *)

\* The video mutex, the existing authority, the camera and FFmpeg.  An authority that
\* is PREPARED already is handed out again.
native_prepare(c) ==
  /\ nCaller[c].pc = "idle" /\ nCaller[c].calls < MaxCalls
  /\ nCaller' = [nCaller EXCEPT
       ![c].calls = @ + 1,
       ![c].receipt = IF nVideo = "free" /\ nPrepared = "PREPARED" THEN "PREPARED" ELSE "NO_GO",
       ![c].pc = IF nVideo = "free" /\ nPrepared = "ABSENT" THEN "save" ELSE "idle"]
  /\ nVideo' = IF nVideo = "free" /\ nPrepared = "ABSENT" THEN c ELSE nVideo
  /\ UNCHANGED <<nativeStore, nCaptures>>

\* FixedLocalAuthorityStore.save
native_save(c) ==
  /\ nCaller[c].pc = "save"
  /\ \E end \in GuardEnds :
       LET applies == end # "refused" /\ nPrepared = "ABSENT" /\ nTerminal = NoTerminal /\ nGrant = NoGrant
       IN /\ nPrepared' = IF applies THEN "PENDING" ELSE nPrepared
          /\ IF applies /\ end = "applied"
             THEN go(c, "liveness") /\ UNCHANGED nVideo
             ELSE native_receipt(c, "NO_GO") /\ nVideo' = "free"
  /\ UNCHANGED <<nGrant, nTerminal, nCaptures>>

\* The pose and face engines answer, and everything opened is closed again, or not
native_liveness(c) ==
  /\ nCaller[c].pc = "liveness"
  /\ \/ go(c, "finalize")
     \/ native_receipt(c, "NO_GO")
  /\ nVideo' = "free"
  /\ UNCHANGED <<nativeStore, nCaptures>>

\* FixedLocalAuthorityStore.finalize, after the video mutex was released
native_finalize(c) ==
  /\ nCaller[c].pc = "finalize"
  /\ \E end \in GuardEnds :
       LET applies == end # "refused" /\ nPrepared = "PENDING" /\ nTerminal = NoTerminal
       IN /\ nPrepared' = IF applies THEN "PREPARED" ELSE nPrepared
          /\ native_receipt(c, IF applies /\ end = "applied" THEN "PREPARED" ELSE "NO_GO")
  /\ UNCHANGED <<nGrant, nTerminal, nVideo, nCaptures>>

------------------------------------------------------------------------------
(* The supervised preflight *)

\* _take_prepared_authority up to the call of consume
native_take(c) ==
  /\ nCaller[c].pc = "idle" /\ nCaller[c].calls < MaxCalls
  /\ LET usable == nPrepared = "PREPARED" /\ nTerminal = NoTerminal
     IN nCaller' = [nCaller EXCEPT ![c].calls = @ + 1,
                                   ![c].receipt = "NO_GO",
                                   ![c].pc = IF usable THEN "consume" ELSE "idle"]
  /\ UNCHANGED <<nativeStore, nVideo, nCaptures>>

\* mutant: the authority read before is consumed, whatever it is by now
native_consume_stale(c) ==
  /\ nCaller[c].pc = "consume"
  /\ nPrepared' = "CONSUMED"
  /\ go(c, "issue")
  /\ UNCHANGED <<nGrant, nTerminal, nVideo, nCaptures>>

\* FixedLocalAuthorityStore.consume: compare with the record read before, and swap
native_consume(c) ==
  /\ nCaller[c].pc = "consume"
  /\ \E end \in GuardEnds :
       LET applies == end # "refused" /\ nPrepared = "PREPARED" /\ nTerminal = NoTerminal
       IN /\ nPrepared' = IF applies THEN "CONSUMED" ELSE nPrepared
          /\ IF applies /\ end = "applied" THEN go(c, "issue") ELSE native_receipt(c, "NO_GO")
  /\ UNCHANGED <<nGrant, nTerminal, nVideo, nCaptures>>

\* _new_worker_grant and issue_worker_grant, create-only.  A grant whose issue raised
\* is not one the caller will revoke.
native_issue(c) ==
  /\ nCaller[c].pc = "issue"
  /\ \E end \in GuardEnds :
       LET applies == end # "refused" /\ nPrepared = "CONSUMED" /\ nTerminal = NoTerminal /\ nGrant = NoGrant
       IN /\ nGrant' = IF applies THEN [state |-> "ISSUED", by |-> c] ELSE nGrant
          /\ nCaller' = [nCaller EXCEPT
               ![c].candidate = "NO_GO",
               ![c].issued = applies /\ end = "applied",
               ![c].pc = IF applies /\ end = "applied" THEN "launch" ELSE "terminalize"]
  /\ UNCHANGED <<nPrepared, nTerminal, nVideo, nCaptures>>

\* _receive_worker_launch_grant: the worker accepts a grant that is durably ISSUED, its
\* own and unexpired, and then takes the video mutex
worker_accepts(c) ==
  /\ nCaller[c].pc = "launch"
  /\ \/ /\ nGrant = [state |-> "ISSUED", by |-> c] /\ nVideo = "free"
        /\ nVideo' = c
        /\ nCaptures' = nCaptures \cup {c}
        /\ go(c, "capture")
     \/ go(c, "revoke") /\ UNCHANGED <<nVideo, nCaptures>>
  /\ UNCHANGED nativeStore

\* The worker's receipt, supervised and semantically valid, or a failure
worker_ends(c) ==
  /\ nCaller[c].pc = "capture"
  /\ nVideo' = "free"
  /\ \E outcome \in {"PASS", "NO_GO"} :
       nCaller' = [nCaller EXCEPT ![c].pc = "revoke", ![c].candidate = outcome]
  /\ UNCHANGED <<nativeStore, nCaptures>>

\* revoke_worker_grant; a grant that is not revoked spoils the candidate
native_revoke(c) ==
  /\ nCaller[c].pc = "revoke"
  /\ \E end \in GuardEnds :
       /\ nGrant' = IF end # "refused" THEN [nGrant EXCEPT !.state = "REVOKED"] ELSE nGrant
       /\ nCaller' = [nCaller EXCEPT ![c].pc = "terminalize",
                                     ![c].candidate = IF end = "applied" THEN @ ELSE "NO_GO"]
  /\ UNCHANGED <<nPrepared, nTerminal, nVideo, nCaptures>>

\* _terminalize and finalize_terminal, create-only: without the durable record the
\* receipt says NO_GO
native_terminalize(c) ==
  /\ nCaller[c].pc = "terminalize"
  /\ \E end \in GuardEnds :
       LET applies == end # "refused" /\ nPrepared = "CONSUMED" /\ nTerminal = NoTerminal
       IN /\ nTerminal' = IF applies THEN [outcome |-> nCaller[c].candidate, by |-> c] ELSE nTerminal
          /\ native_receipt(c, IF applies /\ end = "applied" THEN nCaller[c].candidate ELSE "NO_GO")
  /\ UNCHANGED <<nPrepared, nGrant, nVideo, nCaptures>>

\* The process ends; its job ends the worker with it, and an abandoned mutex is taken
\* like a free one
native_crash(c) ==
  /\ nCaller[c].pc \notin {"idle", "gone"}
  /\ go(c, "gone")
  /\ nVideo' = IF nVideo = c THEN "free" ELSE nVideo
  /\ UNCHANGED <<nativeStore, nCaptures>>

NativeNext ==
  \E c \in Callers :
    \/ native_prepare(c) \/ native_save(c) \/ native_liveness(c) \/ native_finalize(c)
    \/ native_take(c) \/ native_consume(c) \/ native_issue(c) \/ worker_accepts(c)
    \/ worker_ends(c) \/ native_revoke(c) \/ native_terminalize(c) \/ native_crash(c)

NativeSpec == NativeInit /\ [][NativeNext]_nativeVars

------------------------------------------------------------------------------
\* The camera is opened once at most, by the caller that consumed the authority and
\* whose grant is on disk, however callers race, crash and call again (consume,
\* issue_worker_grant, _receive_worker_launch_grant); and a caller holds a PASS only
\* if its own terminal record says PASS on disk and its grant is revoked there
\* (_supervised_preflight, _terminalize, verify_terminal_receipt).
NativeSingleCapture ==
  /\ Cardinality(nCaptures) <= 1
  /\ \A c \in Callers : nCaller[c].pc = "capture" =>
       /\ nPrepared = "CONSUMED" /\ nTerminal = NoTerminal
       /\ nGrant = [state |-> "ISSUED", by |-> c]
       /\ nVideo = c
  /\ \A c \in Callers : nCaller[c].receipt = "PASS" =>
       /\ nTerminal = [outcome |-> "PASS", by |-> c]
       /\ nGrant = [state |-> "REVOKED", by |-> c]

------------------------------------------------------------------------------
NativeUse == INSTANCE SingleUse WITH
  Users       <- Callers,
  RevokeFirst <- FALSE,
  spent       <- nPrepared = "CONSUMED",
  granted     <- nGrant # NoGrant,
  valid       <- {c \in Callers : nGrant = [state |-> "ISSUED", by |-> c]},
  used        <- nCaptures,
  ended       <- nTerminal # NoTerminal

\* The N1 store implements SingleUse: consume, issue_worker_grant, the worker's acceptance,
\* revoke_worker_grant and finalize_terminal take effect once each and in this order,
\* whoever calls, retries or dies.  The terminal record does not wait for the
\* revocation: a grant whose revocation was refused stays ISSUED behind it.
NativeUsedOnce == NativeUse!Spec
=============================================================================
