--------------------------- MODULE Reconciliation ---------------------------
(***************************************************************************)
(* Withdrawal reconciliation (reconciliation.py, reconciliation_execution. *)
(* py, the target half of m1_r1.py) on top of the artifact store: deletion *)
(* targets, the plan, a reviewer's confirmation challenge, the run that    *)
(* deletes files one by one, attestations for external copies, the final   *)
(* receipt, and what the next start makes of an interrupted run.           *)
(*                                                                         *)
(* The root lock serialises all of it, so a plan is read and acted upon in *)
(* one step; the deletion of a file is four steps, because its journal is  *)
(* written before and after it and the process can die anywhere.  Targets: *)
(* an artifact stands for the local target of its final file, a member of  *)
(* Copies for an external copy.  The challenge, its single execution and   *)
(* the execution's single run share the challenge's id.                    *)
(***************************************************************************)
EXTENDS ArtifactStore

CONSTANTS Copies,       \* external copies that may be registered
          Challenges,   \* challenge ids
          MaxLogins     \* bound: reviewer sessions

ASSUME ReconciliationBounds ==
  /\ MaxLogins \in Nat
  /\ Artifacts \cap Copies = {}
  /\ None \notin Artifacts \cup Copies \cup Challenges

VARIABLES
  copyOf,       \* reconciliation_targets of kind EXTERNAL_COPY
  target,       \* withdrawal_task_targets: state and state_version
  challenge,    \* reconciliation_challenges
  run,          \* reconciliation_runs.state
  attempts,     \* reconciliation_attempts
  running,      \* the challenge whose run holds the root lock
  procedure,    \* an APPROVED external deletion procedure was imported
  receipt,      \* reconciliation_receipts: the plan it was made from
  reviewer,     \* the current reviewer session, 0 if there is none
  logins

journal == <<copyOf, target, challenge, run, attempts, procedure, receipt>>
auth    == <<reviewer, logins>>
vars    == <<storeVars, journal, running, auth>>

Targets  == Artifacts \cup Copies
Local    == "EXECUTE_LOCAL_RECONCILIATION"
Unsigned == {"PENDING_CONFIRMATION", "RECOVERY_REQUIRED"}

Row(state, version) == [state |-> state, version |-> version]
Rows == [state : Unsigned \cup {"IN_PROGRESS", "BLOCKED", "LOCAL_DELETION_VERIFIED",
                                "EXTERNAL_DELETION_ATTESTED"},
         version : Nat]
BlockerCodes == {"TARGET_BINDING_MISSING", "ACTIVE_WRITE_INTENT", "FAILED_WRITE_INTENT_UNRESOLVED",
                 "QUARANTINED_WRITE_INTENT_UNRESOLVED", "TARGET_BLOCKED", "RECOVERY_REQUIRED",
                 "ARTIFACT_NOT_INVALIDATED"}
Plans == [targets : [Targets -> Rows \cup {None}], blockers : SUBSET BlockerCodes]

RunStates == {"RUNNING", "COMPLETED", "BLOCKED", "RECOVERY_REQUIRED"}

ASSUME ReconciliationNone == None \notin Rows /\ None \notin Plans /\ None \notin RunStates \cup Contents

Init ==
  /\ StoreInit
  /\ copyOf = [c \in Copies |-> None]
  /\ target = [t \in Targets |-> None]
  /\ challenge = [c \in Challenges |-> None]
  /\ run = [c \in Challenges |-> None]
  /\ attempts = {}
  /\ running = None
  /\ procedure = FALSE
  /\ receipt = None
  /\ reviewer = 0
  /\ logins = 0

------------------------------------------------------------------------------
(* Targets and plan. *)

register_external_target(c, a) ==
  /\ up
  /\ op = Idle
  /\ copyOf[c] = None
  /\ status[a] = "VALID"
  /\ copyOf' = [copyOf EXCEPT ![c] = a]
  /\ UNCHANGED <<storeVars, target, challenge, run, attempts, procedure, receipt, running, auth>>

Registered(t) == IF t \in Copies THEN copyOf[t] # None ELSE status[t] # None

\* The hook of the withdrawal transaction maps every target of every task.
after_withdrawal_receipt ==
  target' = [t \in Targets |-> IF Registered(t) THEN Row("PENDING_CONFIRMATION", 0) ELSE None]

Withdraw ==
  /\ withdraw
  /\ after_withdrawal_receipt
  /\ UNCHANGED <<copyOf, challenge, run, attempts, procedure, receipt, running, auth>>

Mapped == {t \in Targets : target[t] # None}
Tasks  == {a \in Artifacts : status[a] = "INVALIDATED"}
In(states) == {t \in Mapped : target[t].state \in states}

\* mutant: write intents that did not come to an artifact are overlooked
blocker_codes_targets ==
  LET blocked ==
        [TARGET_BINDING_MISSING |-> \E a \in Tasks : target[a] = None,
         TARGET_BLOCKED |-> In({"BLOCKED"}) # {},
         RECOVERY_REQUIRED |-> In({"RECOVERY_REQUIRED"}) # {},
         ARTIFACT_NOT_INVALIDATED |-> \E a \in Artifacts \cap Mapped : status[a] # "INVALIDATED"]
  IN {code \in DOMAIN blocked : blocked[code]}

\* No code inserts a hold or changes a manifest, so these two blockers never apply; the
\* older write_intents belong to GovernanceStore.
blocker_codes ==
  LET blocked ==
        [TARGET_BINDING_MISSING |-> \E a \in Tasks : target[a] = None,
         ACTIVE_WRITE_INTENT |-> \E a \in Artifacts : intent[a] = "PENDING",
         FAILED_WRITE_INTENT_UNRESOLVED |-> \E a \in Artifacts : intent[a] = "FAILED",
         QUARANTINED_WRITE_INTENT_UNRESOLVED |-> \E a \in Artifacts : intent[a] = "QUARANTINED",
         TARGET_BLOCKED |-> In({"BLOCKED"}) # {},
         RECOVERY_REQUIRED |-> In({"RECOVERY_REQUIRED"}) # {},
         ARTIFACT_NOT_INVALIDATED |-> \E a \in Artifacts \cap Mapped : status[a] # "INVALIDATED"]
  IN {code \in DOMAIN blocked : blocked[code]}

Blocked == blocker_codes \ {"RECOVERY_REQUIRED"} # {}

\* plan_sha256 digests the target states and versions and the blocker codes.
plan_for_session == [targets |-> target, blockers |-> blocker_codes]

Terminal(t) ==
  target[t].state = IF t \in Copies THEN "EXTERNAL_DELETION_ATTESTED" ELSE "LOCAL_DELETION_VERIFIED"

Complete == Tasks # {} /\ blocker_codes = {} /\ \A t \in Mapped : Terminal(t)

------------------------------------------------------------------------------
(* Reviewer sessions and challenges. *)

Issued == {c \in Challenges : challenge[c] # None /\ challenge[c].status = "ISSUED"}

Settle(cs, result) ==
  [c \in Challenges |-> IF c \in cs THEN [challenge[c] EXCEPT !.status = result] ELSE challenge[c]]

Own == {c \in Issued : challenge[c].reviewer = reviewer}

\* The revocation callback runs before the token is cleared; it may raise, and the
\* token is cleared all the same.
invalidate_reviewer_session ==
  /\ up
  /\ op = Idle
  /\ reviewer # 0
  /\ reviewer' = 0
  /\ challenge' \in {Settle(Own, "REVOKED"), challenge}
  /\ UNCHANGED <<storeVars, copyOf, target, run, attempts, procedure, receipt, running, logins>>

\* A login ends the session before it.
issue_reviewer_token ==
  /\ up
  /\ op = Idle
  /\ logins < MaxLogins
  /\ logins' = logins + 1
  /\ reviewer' = logins + 1
  /\ challenge' = Settle(Own, "REVOKED")
  /\ UNCHANGED <<storeVars, copyOf, target, run, attempts, procedure, receipt, running>>

create_challenge(c, action) ==
  /\ up
  /\ op = Idle
  /\ reviewer # 0
  /\ Withdrawn
  /\ ~ Blocked
  /\ challenge[c] = None
  /\ \/ action = Local /\ In(Unsigned) \cap Artifacts # {}
     \/ action \in In(Unsigned) \cap Copies
  /\ challenge' = [challenge EXCEPT ![c] = [status |-> "ISSUED", action |-> action,
                                            plan |-> plan_for_session, reviewer |-> reviewer]]
  /\ UNCHANGED <<storeVars, copyOf, target, run, attempts, procedure, receipt, running, auth>>

\* Presented by the session that asked for it.
Presented(c) == up /\ op = Idle /\ c \in Issued /\ reviewer # 0 /\ challenge[c].reviewer = reviewer

consume_challenge(c) ==
  /\ Presented(c)
  /\ challenge[c].action = Local
  /\ challenge[c].plan = plan_for_session
  /\ challenge' = Settle({c}, "CONSUMED")
  /\ UNCHANGED <<storeVars, copyOf, target, run, attempts, procedure, receipt, running, auth>>

\* Its time is over on either clock, a clock went back, or the plan has changed; and any
\* session that ended while its request waited for the lock revokes what it presented.
consume_rejected(c) ==
  /\ up
  /\ op = Idle
  /\ c \in Issued
  /\ \E result \in {"EXPIRED", "REVOKED"} :
        /\ result = "EXPIRED" => Presented(c)
        /\ challenge' = Settle({c}, result)
  /\ UNCHANGED <<storeVars, copyOf, target, run, attempts, procedure, receipt, running, auth>>

import_procedure_authority ==
  /\ up
  /\ op = Idle
  /\ ~ procedure
  /\ procedure' = TRUE
  /\ UNCHANGED <<storeVars, copyOf, target, challenge, run, attempts, receipt, running, auth>>

\* The consumption and the attestation are one transaction.
attest_external_deletion(c) ==
  /\ Presented(c)
  /\ procedure
  /\ challenge[c].action \in In(Unsigned) \cap Copies
  /\ challenge[c].plan = plan_for_session
  /\ challenge' = Settle({c}, "CONSUMED")
  /\ target' = [target EXCEPT ![challenge[c].action] =
                  Row("EXTERNAL_DELETION_ATTESTED", @.version + 1)]
  /\ UNCHANGED <<storeVars, copyOf, run, attempts, procedure, receipt, running, auth>>

------------------------------------------------------------------------------
(* The local run. *)

\* Rows of an interrupted attempt that recorded what it was about to delete.
recovery_snapshots(a) ==
  {x \in attempts : x.target = a /\ x.stage = "RECOVERY_REQUIRED" /\ x.snapshot # None}

Latest(rs) == CHOOSE x \in rs : \A y \in rs : y.number <= x.number

\* The targets of the run; one that needs recovery and has no snapshot refuses it.
authority_binding == In(Unsigned) \cap Artifacts
Recoverable == \A a \in In({"RECOVERY_REQUIRED"}) \cap Artifacts : recovery_snapshots(a) # {}

run_local(c) ==
  /\ up
  /\ op = Idle
  /\ challenge[c] # None
  /\ challenge[c].status = "CONSUMED"
  /\ challenge[c].action = Local
  /\ challenge[c].plan = plan_for_session
  /\ run[c] = None
  /\ ~ Blocked
  /\ authority_binding # {}
  /\ Recoverable
  /\ run' = [run EXCEPT ![c] = "RUNNING"]
  /\ target' = [t \in Targets |-> IF t \in authority_binding
                                  THEN Row("IN_PROGRESS", target[t].version + 1) ELSE target[t]]
  /\ running' = c
  /\ op' = [Idle EXCEPT !.kind = "run", !.step = "next", !.rest = authority_binding]
  /\ UNCHANGED <<rows, disk, up, world, copyOf, challenge, attempts, procedure, receipt, auth>>

\* Target ids are digests, so the order is any order.
run_target(a) ==
  /\ op.kind = "run"
  /\ op.step = "next"
  /\ a \in op.rest
  /\ attempts' = attempts \cup
       {[run |-> running, target |-> a, stage |-> "PREDELETE_PENDING", snapshot |-> None,
         number |-> Cardinality({x \in attempts : x.target = a}) + 1]}
  /\ op' = [op EXCEPT !.artifact = a, !.step = "open", !.rest = @ \ {a}]
  /\ UNCHANGED <<rows, disk, up, world, copyOf, target, challenge, run, procedure, receipt,
                 running, auth>>

\* The attempt this run makes at a.
Restage(a, stage, snapshot) ==
  attempts' = {IF x.run = running /\ x.target = a
               THEN [x EXCEPT !.stage = stage, !.snapshot = snapshot] ELSE x : x \in attempts}
Observed(a) == (CHOOSE x \in attempts : x.run = running /\ x.target = a).snapshot

\* mutant: the identity an interrupted attempt recorded is not compared
delete_any(a) ==
  /\ At("run", a, "open")
  /\ final[a] \in Matching
  /\ Restage(a, "PREDELETE_VERIFIED", final[a])
  /\ Goto("delete")
  /\ UNCHANGED <<rows, disk, up, world, copyOf, target, challenge, run, procedure, receipt,
                 running, auth>>

\* The handle is exclusive; size and hash must match, and after an interruption the
\* identity too; on_verified records what was found.
delete_verified(a) ==
  /\ At("run", a, "open")
  /\ final[a] \in Matching
  /\ recovery_snapshots(a) # {} => final[a] = Latest(recovery_snapshots(a)).snapshot
  /\ Restage(a, "PREDELETE_VERIFIED", final[a])
  /\ Goto("delete")
  /\ UNCHANGED <<rows, disk, up, world, copyOf, target, challenge, run, procedure, receipt,
                 running, auth>>

\* The disposition takes effect when the handle is closed.
delete_file(a) ==
  /\ At("run", a, "delete")
  /\ final' = [final EXCEPT ![a] = "absent"]
  /\ Goto("absence")
  /\ UNCHANGED <<rows, partial, quarantine, up, world, journal, running, auth>>

\* DeletionBlocked: before the disposition BLOCKED, after it RECOVERY_REQUIRED.  The
\* other targets of the run stay IN_PROGRESS.
DeletionBlocked(a, result) ==
  /\ Restage(a, result, Observed(a))
  /\ target' = [target EXCEPT ![a] = Row(result, @.version + 1)]
  /\ run' = [run EXCEPT ![running] = result]
  /\ running' = None
  /\ op' = Idle
  /\ UNCHANGED <<rows, disk, up, world, copyOf, challenge, procedure, receipt, auth>>

\* Nothing there, another object, or an operation of the file system that fails.
delete_blocked(a) ==
  /\ At("run", a, "open") \/ At("run", a, "delete")
  /\ DeletionBlocked(a, "BLOCKED")

\* Something is at the leaf again.
delete_unverified(a) ==
  /\ At("run", a, "absence")
  /\ final[a] # "absent"
  /\ DeletionBlocked(a, "RECOVERY_REQUIRED")

absence_verified(a) ==
  /\ At("run", a, "absence")
  /\ final[a] = "absent"
  /\ Restage(a, "ABSENCE_VERIFIED", Observed(a))
  /\ target' = [target EXCEPT ![a] = Row("LOCAL_DELETION_VERIFIED", @.version + 1)]
  /\ op' = [op EXCEPT !.artifact = None, !.step = "next"]
  /\ UNCHANGED <<rows, disk, up, world, copyOf, challenge, run, procedure, receipt, running, auth>>

run_completed ==
  /\ op.kind = "run"
  /\ op.step = "next"
  /\ op.rest = {}
  /\ run' = [run EXCEPT ![running] = "COMPLETED"]
  /\ running' = None
  /\ op' = Idle
  /\ UNCHANGED <<rows, disk, up, world, copyOf, target, challenge, attempts, procedure, receipt, auth>>

\* A transaction of the run raises: the run leaves the lock and its rows as they are.
run_raises ==
  /\ op.kind = "run"
  /\ running' = None
  /\ op' = Idle
  /\ UNCHANGED <<rows, disk, up, world, journal, auth>>

------------------------------------------------------------------------------
(* The final receipt. *)

\* A deletion proves itself only by a run that was COMPLETED.
terminal_evidence ==
  /\ \A a \in Mapped \cap Artifacts :
        \E x \in attempts : /\ x.target = a
                            /\ x.stage = "ABSENCE_VERIFIED"
                            /\ run[x.run] = "COMPLETED"
  /\ \A c \in Mapped \cap Copies :
        procedure /\ \E d \in Challenges : /\ challenge[d] # None
                                           /\ challenge[d].action = c
                                           /\ challenge[d].status = "CONSUMED"

finalize ==
  /\ up
  /\ op = Idle
  /\ Complete
  /\ terminal_evidence
  /\ receipt = None
  /\ receipt' = plan_for_session
  /\ UNCHANGED <<storeVars, copyOf, target, challenge, run, attempts, procedure, running, auth>>

------------------------------------------------------------------------------
(* The end of the process. *)

Die ==
  /\ Crash
  /\ running' = None
  /\ reviewer' = 0
  /\ UNCHANGED <<journal, logins>>

\* The new confirmation service expires the challenges whose deadlines were in memory.
expire_issued == Settle(Issued, "EXPIRED")

\* mutant: an interrupted run is looked at as if it had never begun
recover_forgetful ==
  /\ recover_end
  /\ target' = [t \in Targets |-> IF target[t] # None THEN Row("PENDING_CONFIRMATION", 0) ELSE None]
  /\ run' = [c \in Challenges |-> IF run[c] = "RUNNING" THEN "RECOVERY_REQUIRED" ELSE run[c]]
  /\ challenge' = expire_issued
  /\ UNCHANGED <<copyOf, attempts, procedure, receipt, running, auth>>

\* The last part of recover marks what was interrupted and deletes nothing.
recover_runs ==
  /\ recover_end
  /\ run' = [c \in Challenges |-> IF run[c] = "RUNNING" THEN "RECOVERY_REQUIRED" ELSE run[c]]
  /\ target' = [t \in Targets |-> IF t \in In({"IN_PROGRESS"})
                                  THEN Row("RECOVERY_REQUIRED", target[t].version + 1) ELSE target[t]]
  /\ attempts' = {IF x.stage \in {"PREDELETE_PENDING", "PREDELETE_VERIFIED"}
                  THEN [x EXCEPT !.stage = "RECOVERY_REQUIRED"] ELSE x : x \in attempts}
  /\ challenge' = expire_issued
  /\ UNCHANGED <<copyOf, procedure, receipt, running, auth>>

------------------------------------------------------------------------------
Store ==
  /\ Persist \/ Quarantine \/ Recover \/ \E a \in Artifacts : Tamper(a)
  /\ UNCHANGED <<journal, running, auth>>

Confirm ==
  \/ invalidate_reviewer_session
  \/ issue_reviewer_token
  \/ \E c \in Challenges, action \in Copies \cup {Local} : create_challenge(c, action)
  \/ \E c \in Challenges :
        consume_challenge(c) \/ consume_rejected(c) \/ attest_external_deletion(c)
  \/ import_procedure_authority

Run ==
  \/ \E c \in Challenges : run_local(c)
  \/ \E a \in Artifacts : \/ run_target(a) \/ delete_verified(a) \/ delete_file(a)
                          \/ delete_blocked(a) \/ delete_unverified(a) \/ absence_verified(a)
  \/ run_completed
  \/ run_raises

Next ==
  \/ Store
  \/ \E c \in Copies, a \in Artifacts : register_external_target(c, a)
  \/ Withdraw
  \/ Confirm
  \/ Run
  \/ finalize
  \/ Die
  \/ recover_runs

Spec == Init /\ [][Next]_vars

------------------------------------------------------------------------------
(* Properties *)

\* Every variable has its type; an artifact is attempted at most once by a run.
TypeOK ==
  /\ StoreTypeOK
  /\ copyOf \in [Copies -> Artifacts \cup {None}]
  /\ target \in [Targets -> Rows \cup {None}]
  /\ \A c \in Challenges : challenge[c] # None =>
       /\ challenge[c].status \in {"ISSUED", "CONSUMED", "EXPIRED", "REVOKED"}
       /\ challenge[c].action \in Copies \cup {Local}
       /\ challenge[c].reviewer \in 1 .. logins
  /\ run \in [Challenges -> RunStates \cup {None}]
  /\ \A x, y \in attempts : x.run = y.run /\ x.target = y.target => x = y
  /\ running \in Challenges \cup {None}
  /\ op.kind = "run" <=> running # None
  /\ procedure \in BOOLEAN
  /\ reviewer \in 0 .. logins
  /\ logins \in 0 .. MaxLogins

\* The participant's bytes in the root, wherever persist or a quarantine left them, and
\* the copies nobody has attested.  What somebody else puts there is not held.
Bytes == {"torn", "original"}
Held ==
  {a \in Artifacts : \/ partial[a] \in Bytes
                     \/ final[a] \in Bytes
                     \/ \E place \in Places : quarantine[<<a, place>>] \in Bytes}
  \cup {c \in Copies : /\ copyOf[c] # None
                       /\ target[c] = None \/ ~ Terminal(c)}

Promise == INSTANCE WithdrawalPromise
  WITH Items <- Targets, held <- Held, withdrawn <- Withdrawn, receipt <- (receipt # None)

\* The store and the reconciliation implement WithdrawalPromise: nothing is written
\* after the withdrawal, and a receipt means that no partial, final or quarantined file
\* of the participant and no unattested copy is left, whatever failed on the way.
PromiseKept == Promise!Spec

\* Rows and files agree while nobody else touched the file: a VALID artifact is on disk
\* as it was written, and a final file without an artifact belongs to an intent that is
\* still unsettled.
FilesMatchRows ==
  \A a \in Artifacts \ touched :
    /\ status[a] = "VALID" => final[a] = "original" /\ intent[a] = "SEALED"
    /\ up /\ op = Idle /\ status[a] = None /\ final[a] # "absent" => intent[a] \in {"PENDING", "FAILED"}

\* Design, section 6: a verified deletion and an attestation are terminal and immutable,
\* also for the recovery of the run that made them.
TerminalImmutable ==
  [][\A t \in Mapped : Terminal(t) => target'[t] = target[t]]_vars

\* Design, section 8: "A replacement at the same leaf is never deleted by recovery".  A run
\* removes only the object that its own attempt recorded, and if earlier attempts at the
\* target recorded one, only that one; and it removes it only under a confirmation for a
\* plan that listed the target as open, in the state and version it had when the run began.
DeletionJustified ==
  [][\A a \in Artifacts : At("run", a, "delete") /\ final'[a] # final[a] =>
       LET row == challenge[running].plan.targets[a]
       IN /\ Observed(a) = final[a]
          /\ \A x \in recovery_snapshots(a) : x.snapshot = final[a]
          /\ challenge[running].status = "CONSUMED"
          /\ row.state \in Unsigned
          /\ target[a] = Row("IN_PROGRESS", row.version + 1)]_vars

\* Design, section 8: after a target's completion the plan is computed again and only the
\* remaining targets are finished; so a plan that is complete can be finalised.
CompletePlanFinalizes == up /\ op = Idle /\ Complete => terminal_evidence
==============================================================================
