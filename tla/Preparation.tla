---------------------------- MODULE Preparation ----------------------------
(***************************************************************************)
(* The leases one preparation of a D1-N2 epoch takes and gives back        *)
(* (m2_d1_n2_bootstrap_win32.py, m2_d1_n2_a0.py, m2_d1_n2_prepare.py and   *)
(* the composition in m2_d1_n2_adapter.py): the installed bootstrap pair,  *)
(* the A0 approval, the RP2 artifacts, the supervisor and FFmpeg           *)
(* executables and the camera enumeration.                                 *)
(*                                                                         *)
(* Each stage may stop at any check.  What it opened is then closed by the *)
(* code nearest to it, and what earlier stages retained by the             *)
(* composition; a handle may refuse to close.  A stage may also raise      *)
(* while the handles it opened are in nobody's list yet: these are lost,   *)
(* open and closed by nobody.  Left out is an interrupt of the preparing   *)
(* thread (BaseException).  AuthorityChain has the records this            *)
(* preparation is about and keeps its leases as one.                       *)
(***************************************************************************)
EXTENDS Naturals

VARIABLES
  prep,   \* where the preparation is, and the outcomes it has recorded
  lease,  \* every handle: "no" (not opened yet), "open", "closed", or "stuck"
  closes  \* history: how often each handle was asked to close

prepVars == <<prep, lease, closes>>

BootPair == {"root", "bundle", "receipt"}          \* FixedBootstrapLease
Approval == {"approval_root", "approval"}          \* FixedA0ApprovalLease
Pinned   == {"candidate", "schema"}
Artifacts == {"lock", "model"}                     \* two of the inventory
Native   == {"supervisor", "camera", "ffmpeg"}
Retained == Pinned \cup Artifacts \cup Native      \* PreparedLeaseBundle
LeaseHandles == BootPair \cup {"partial"} \cup Approval \cup Retained \cup {"camera_again"}

PrepInit ==
  /\ prep = [pc |-> "inspect",
             boot |-> "none",        \* the bootstrap's lease: "none", "live", "closed", "lost"
             approval |-> FALSE,     \* the recorded A0 outcome has a lease
             bundle |-> "none",      \* the recorded PreparedLeaseBundle
             a0 |-> "NONE", attested |-> "NONE", abort |-> "NONE",
             silent |-> {}]          \* history: closed by code that ignores the result
  /\ lease = [h \in LeaseHandles |-> "no"]
  /\ closes = [h \in LeaseHandles |-> 0]

prep_opens(S) == lease' = [h \in LeaseHandles |-> IF h \in S THEN "open" ELSE lease[h]]

\* Every handle of S is asked to close, and those in stuck refuse; lost ones stay open
prep_closes(S, stuck, lost) ==
  /\ lease' = [h \in LeaseHandles |-> IF h \in stuck THEN "stuck" ELSE IF h \in S THEN "closed"
                                      ELSE IF h \in lost THEN "open" ELSE lease[h]]
  /\ closes' = [h \in LeaseHandles |-> IF h \in S THEN closes[h] + 1 ELSE closes[h]]

------------------------------------------------------------------------------
(* FixedA0Verifier.verify *)

\* FixedBootstrapReader._close_failure: POISONED, whether or not everything closes
reader_fails(S, status) ==
  \E stuck \in SUBSET S :
    /\ prep_closes(S, stuck, {})
    /\ prep' = [prep EXCEPT !.pc = "failed", !.a0 = status, !.silent = prep.silent \cup S]

\* The parent directory and the partial, which must not be there
inspect_parent ==
  /\ prep.pc = "inspect"
  /\ \/ prep_opens({"root"}) /\ prep' = [prep EXCEPT !.pc = "pair"] /\ UNCHANGED closes
     \/ prep' = [prep EXCEPT !.pc = "failed", !.a0 = "INVALID"] /\ UNCHANGED <<lease, closes>>
     \/ \E S \in {{"root"}, {"root", "partial"}} : reader_fails(S, "INVALID")

\* Bundle and receipt are both asked for before either is looked at.  Without both,
\* the only clean answer is that neither is there and the parent closed.
inspect_pair ==
  /\ prep.pc = "pair"
  /\ \/ prep_opens(BootPair) /\ prep' = [prep EXCEPT !.pc = "approval", !.boot = "live"] /\ UNCHANGED closes
     \/ \E S \in SUBSET {"bundle", "receipt"} : reader_fails(S \cup {"root"}, "INVALID")
     \/ /\ prep_closes({"root"}, {}, {})
        /\ prep' = [prep EXCEPT !.pc = "failed", !.a0 = "BOOTSTRAP_UNPROVISIONED"]

\* mutant: the bootstrap is left to the composition
a0_failed_lease_only(own, status) ==
  \E stuck \in SUBSET own :
    /\ prep_closes(own, stuck, {})
    /\ prep' = [prep EXCEPT !.pc = "failed", !.boot = "closed", !.a0 = IF stuck = {} THEN status ELSE "CLEANUP_FAILED"]

\* FixedA0Verifier._failed: the approval, if there is one, and the bootstrap.  The
\* outcome it returns names the bootstrap again, which has a closed flag, and not the
\* approval.
a0_failed(own, status) ==
  \E stuck \in SUBSET (own \cup BootPair) :
    /\ prep_closes(own \cup BootPair, stuck, {})
    /\ prep' = [prep EXCEPT !.pc = "failed", !.boot = "closed", !.a0 = IF stuck = {} THEN status ELSE "CLEANUP_FAILED"]

\* FixedA0ApprovalSource.open_fixed closes what it opened before it raises
open_approval ==
  /\ prep.pc = "approval"
  /\ \/ prep_opens(Approval) /\ prep' = [prep EXCEPT !.pc = "verify"] /\ UNCHANGED closes
     \/ \E own \in {{}, {"approval_root"}, Approval} : \E stuck \in SUBSET (own \cup BootPair) :
          /\ prep_closes(own \cup BootPair, stuck, {})
          /\ prep' = [prep EXCEPT !.pc = "failed", !.boot = "closed", !.silent = prep.silent \cup own,
                  !.a0 = IF stuck \subseteq own THEN "INVALID" ELSE "CLEANUP_FAILED"]

\* The envelope, the scope, the validity window and the signature, with both leases
\* validated again at the end.  When verify raises (RecursionError out of _decode_closed),
\* no A0 outcome is recorded, and with it neither the approval nor the bootstrap.
verify_approval ==
  /\ prep.pc = "verify"
  /\ \/ prep' = [prep EXCEPT !.pc = "attest", !.a0 = "VERIFIED", !.approval = TRUE] /\ UNCHANGED <<lease, closes>>
     \/ \E status \in {"INVALID", "EXPIRED", "BOOTSTRAP_UNPROVISIONED"} : a0_failed(Approval, status)
     \/ /\ prep_closes({}, {}, Approval \cup BootPair)
        /\ prep' = [prep EXCEPT !.pc = "failed", !.boot = "lost"]

------------------------------------------------------------------------------
(* D1N2NoStreamAttestor.attest *)

\* A failed attestation records no bundle: S and own are closed here or never, own by code
\* that ignores the result, and nobody closes what is lost
attest_failed(S, own, lost) ==
  \E stuck \in SUBSET (S \cup own) :
    /\ prep_closes(S \cup own, stuck, lost)
    /\ prep' = [prep EXCEPT !.pc = "failed", !.silent = prep.silent \cup own,
            !.attested = IF stuck \subseteq own THEN "INVALID" ELSE "CLEANUP_FAILED"]

\* FixedRP2Verifier.verify: candidate and schema are opened together, the inventory one
\* by one.  An open that fails its check closes its own handle and says nothing; one that
\* raises loses it (_open's except).  When verify itself raises, all it has opened is lost.
open_pinned ==
  /\ prep.pc = "attest"
  /\ \/ prep_opens(Pinned) /\ prep' = [prep EXCEPT !.pc = "artifacts"] /\ UNCHANGED closes
     \/ \E own \in SUBSET Pinned : \E lost \in SUBSET (Pinned \ own) :
          \E S \in SUBSET (Pinned \ (own \cup lost)) : attest_failed(S, own, lost)

open_artifacts ==
  /\ prep.pc = "artifacts"
  /\ \/ prep_opens(Artifacts) /\ prep' = [prep EXCEPT !.pc = "supervisor"] /\ UNCHANGED closes
     \/ \E S \in SUBSET Artifacts :
          \/ attest_failed(Pinned \cup S, {}, {})
          \/ attest_failed({}, {}, Pinned \cup S)
          \/ \E h \in Artifacts \ S : \/ attest_failed(Pinned \cup S, {h}, {})
                                     \/ attest_failed(Pinned \cup S, {}, {h})

\* The supervisor, the camera enumeration and FFmpeg: the lease is kept, then checked.
\* Before it is kept its own constructor or handler may close it and say nothing, or
\* raise first: _observation has no handler, the enumeration's waits for the child
\* before it closes.  FFmpeg's handler closes first.
observe(h, before, next) ==
  /\ prep.pc = h
  /\ \/ prep_opens({h}) /\ prep' = [prep EXCEPT !.pc = next] /\ UNCHANGED closes
     \/ attest_failed(before, {}, {})
     \/ attest_failed(before \cup {h}, {}, {})
     \/ attest_failed(before, {h}, {})
     \/ h # "ffmpeg" /\ attest_failed(before, {}, {h})

attest_native ==
  \/ observe("supervisor", Pinned \cup Artifacts, "camera")
  \/ observe("camera", Pinned \cup Artifacts \cup {"supervisor"}, "ffmpeg")
  \/ observe("ffmpeg", Retained \ {"ffmpeg"}, "bindings")

\* Dependencies, nonce, clock and the attestation itself
attest_bindings ==
  /\ prep.pc = "bindings"
  /\ \/ prep' = [prep EXCEPT !.pc = "attested", !.attested = "ATTESTED", !.bundle = "live"] /\ UNCHANGED <<lease, closes>>
     \/ attest_failed(Retained, {}, {})

------------------------------------------------------------------------------
(* The composition *)

\* _close_retained: the prepared bundle, the approval, the bootstrap, once
close_retained(report) ==
  LET S == (IF prep.bundle = "live" THEN Retained ELSE {})
           \cup (IF prep.approval THEN Approval ELSE {})
           \cup (IF prep.boot = "live" THEN BootPair ELSE {})
  IN \E stuck \in SUBSET S :
       /\ prep_closes(S, stuck, {})
       /\ prep' = [prep EXCEPT !.pc = "ended", !.boot = "closed", !.bundle = "closed",
               !.abort = IF stuck = {} THEN report ELSE "UNCERTAIN"]

\* prepare: a lifecycle that did not end OK aborts, after whatever was attested; so does
\* one whose leases have drifted
abort_preparation ==
  /\ prep.pc \in {"failed", "attest", "attested"}
  /\ close_retained("CLEAN")

\* transfer_to_bridge, once
transfer_to_bridge ==
  /\ prep.pc = "attested"
  /\ prep' = [prep EXCEPT !.pc = "bridge"]
  /\ UNCHANGED <<lease, closes>>

\* revalidate_for_run: a second enumeration, closed again whatever it shows; one that
\* raises closes its own lease or loses it, as in observe
revalidate_device ==
  /\ prep.pc = "bridge" /\ lease["camera_again"] = "no"
  /\ \/ \E stuck \in SUBSET {"camera_again"} :
          /\ prep_closes({"camera_again"}, stuck, {})
          /\ prep' = [prep EXCEPT !.silent = prep.silent \cup {"camera_again"}]
     \/ prep_closes({}, {}, {"camera_again"}) /\ UNCHANGED prep

\* close_retained_for_terminal and _abort_after_transfer
bridge_closes ==
  /\ prep.pc = "bridge"
  /\ close_retained("CLEAN")

PrepNext ==
  \/ inspect_parent \/ inspect_pair \/ open_approval \/ verify_approval
  \/ open_pinned \/ open_artifacts \/ attest_native \/ attest_bindings
  \/ abort_preparation \/ transfer_to_bridge \/ revalidate_device \/ bridge_closes

PrepSpec == PrepInit /\ [][PrepNext]_prepVars

------------------------------------------------------------------------------
\* What may be lost: the approval and the bootstrap pair when no A0 outcome was recorded,
\* all but FFmpeg when the attestation failed, and the second enumeration
Losable ==
  (IF prep.a0 = "NONE" THEN BootPair \cup Approval ELSE {})
  \cup (IF prep.attested \in {"INVALID", "CLEANUP_FAILED"} THEN Retained \ {"ffmpeg"} ELSE {})
  \cup {"camera_again"}

\* Wherever a preparation stops, no handle it opened is asked to close twice, and whoever
\* goes on still holds all of them.  At the end every handle was asked exactly once,
\* except those an exception left in nobody's list (Losable): an A0 verification that
\* answered, an attestation that was made, FFmpeg and the partial lose nothing.  An end
\* reported as clean left no handle stuck, except one that the failing open itself closed
\* in vain or that an outcome already reported (_failed, _close_failed, _close_retained).
LeasesAccounted ==
  /\ \A h \in LeaseHandles : closes[h] <= 1 /\ (lease[h] \in {"closed", "stuck"} <=> closes[h] = 1)
  /\ prep.pc = "ended" => \A h \in LeaseHandles \ Losable : lease[h] # "open"
  /\ prep.pc \in {"attested", "bridge"} =>
       \A h \in BootPair \cup Approval \cup Retained : lease[h] = "open"
  /\ prep.abort = "CLEAN" /\ "CLEANUP_FAILED" \notin {prep.a0, prep.attested} =>
       \A h \in LeaseHandles : lease[h] = "stuck" => h \in prep.silent

\* What 2026-08-29-d1-n2-i2-signed-a0-remediation-design.md:401 asks of a preparation:
\* "every pre-transfer `Exception` and `BaseException` closes all leases exactly once".
\* A preparation that ended has asked every handle it opened to close.
EveryLeaseClosed == prep.pc = "ended" => \A h \in LeaseHandles : lease[h] # "open"
=============================================================================
