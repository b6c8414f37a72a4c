--------------------------- MODULE ArtifactStore ---------------------------
(***************************************************************************)
(* The durable artifact store (m2_persistence.py) of one participant: how  *)
(* persist turns bytes into a sealed artifact, what it does when a step    *)
(* fails, and what recover makes of an intent that a crash interrupted.    *)
(*                                                                         *)
(* persist and recover hold the root lock from the first to the last step, *)
(* and every transaction of the governance layer needs that lock too, so   *)
(* only the death of the process falls between two steps, and somebody     *)
(* else's hand in the directory.  The manifest row and the row of the      *)
(* local deletion target are inserted with the registry row (m1_r1.py), so *)
(* status stands for all three.  Parents must be VALID artifacts of the    *)
(* same session: a participant's lineage is what they own themselves.      *)
(***************************************************************************)
EXTENDS Naturals, FiniteSets

CONSTANTS Artifacts,     \* artifact ids; the write intent of an id is unique
          Sessions,      \* the participant's sessions, with a retention record
          MaxCrashes,    \* bound: how often the process dies or a start raises
          MaxTampers,    \* bound: how often somebody else changes a final file
          None

ASSUME StoreBounds == /\ MaxCrashes \in Nat /\ MaxTampers \in Nat
                       /\ Sessions # {} /\ None \notin Artifacts

VARIABLES
  session,      \* sessions.state and collection_blocked
  intent,       \* m2_write_intents.status
  home,         \* m2_write_intents.session_id
  status,       \* artifact_registry.status
  partial,      \* staging/m2-partials/<id>.part
  final,        \* artifacts/m2/<id>.bin
  quarantine,   \* operational/quarantine, by artifact and place of origin
  up,           \* the process serves
  op,           \* who holds the root lock, and where it stands
  crashes,
  tampers,
  touched       \* history: artifacts whose final file somebody else changed

rows  == <<session, intent, home, status>>
disk  == <<partial, final, quarantine>>
world == <<crashes, tampers, touched>>
storeVars == <<rows, disk, up, op, world>>

\* What a path holds.  A copy has the bytes of the original and another identity.
Contents == {"absent", "torn", "original", "copy", "foreign"}
Matching == {"original", "copy"}
IntentStates == {"PENDING", "SEALED", "FAILED", "QUARANTINED"}
StatusStates == {"VALID", "INVALIDATED"}

ASSUME StoreNone == None \notin IntentStates \cup StatusStates

Places   == {"partial", "final", "orphan"}

Idle == [kind |-> "idle", artifact |-> None, step |-> "none", moved |-> FALSE, rest |-> {}]
Ops == [kind : {"idle", "persist", "recover", "run"},
        artifact : Artifacts \cup {None},
        step : {"none", "write", "rename", "guard", "commit", "partial", "final", "row", "orphans",
                "next", "open", "delete", "absence"},
        moved : BOOLEAN,
        rest : SUBSET Artifacts]

At(kind, a, step) == op.kind = kind /\ op.artifact = a /\ op.step = step
Goto(step) == op' = [op EXCEPT !.step = step]

\* An open handle with share mode 0 keeps everybody else away from the file.
Guarded(a) == At("persist", a, "commit") \/ At("run", a, "delete")

Withdrawn == \E s \in Sessions : session[s] = "WITHDRAWN"

StoreInit ==
  /\ session = [s \in Sessions |-> "OPEN"]
  /\ intent = [a \in Artifacts |-> None]
  /\ home = [a \in Artifacts |-> None]
  /\ status = [a \in Artifacts |-> None]
  /\ partial = [a \in Artifacts |-> "absent"]
  /\ final = [a \in Artifacts |-> "absent"]
  /\ quarantine = [x \in Artifacts \X Places |-> "absent"]
  /\ up = TRUE
  /\ op = Idle
  /\ crashes = 0
  /\ tampers = 0
  /\ touched = {}

------------------------------------------------------------------------------
(* persist *)

require_mutable_retained(s) == session[s] = "OPEN"

\* An id that has an intent is refused, or answered from the sealed row.
create_intent(a, s) ==
  /\ up
  /\ op = Idle
  /\ intent[a] = None
  /\ require_mutable_retained(s)
  /\ intent' = [intent EXCEPT ![a] = "PENDING"]
  /\ home' = [home EXCEPT ![a] = s]
  /\ op' = [Idle EXCEPT !.kind = "persist", !.artifact = a, !.step = "write"]
  /\ UNCHANGED <<session, status, disk, up, world>>

\* A short write or a crash leaves a torn partial.
write_durable(a) ==
  /\ At("persist", a, "write")
  /\ \E content \in {"torn", "original"} : partial' = [partial EXCEPT ![a] = content]
  /\ Goto("rename")
  /\ UNCHANGED <<rows, final, quarantine, up, world>>

\* mutant: the partial is not hashed again before it is published
replace_unhashed(a) ==
  /\ At("persist", a, "rename")
  /\ final' = [final EXCEPT ![a] = partial[a]]
  /\ partial' = [partial EXCEPT ![a] = "absent"]
  /\ Goto("commit")
  /\ UNCHANGED <<rows, quarantine, up, world>>

\* The partial hashed to its payload and takes the place of whatever is there.
replace(a) ==
  /\ At("persist", a, "rename")
  /\ partial[a] = "original"
  /\ final' = [final EXCEPT ![a] = "original"]
  /\ partial' = [partial EXCEPT ![a] = "absent"]
  /\ Goto("guard")
  /\ UNCHANGED <<rows, quarantine, up, world>>

open_final_guard(a) ==
  /\ At("persist", a, "guard")
  /\ final[a] \in Matching
  /\ Goto("commit")
  /\ UNCHANGED <<rows, disk, up, world>>

commit_sealed(a) ==
  /\ At("persist", a, "commit")
  /\ require_mutable_retained(home[a])
  /\ status' = [status EXCEPT ![a] = "VALID"]
  /\ intent' = [intent EXCEPT ![a] = "SEALED"]
  /\ op' = Idle
  /\ UNCHANGED <<session, home, disk, up, world>>

\* Any step may raise; the guard is closed and _mark_failed takes over.
persist_raises(a) ==
  /\ \E step \in {"write", "rename", "guard", "commit"} : At("persist", a, step)
  /\ Goto("partial")
  /\ UNCHANGED <<rows, disk, up, world>>

\* _quarantine: a file that exists is moved, over an earlier one of that name.
Moved(a, place, content) ==
  IF content = "absent" THEN quarantine ELSE [quarantine EXCEPT ![<<a, place>>] = content]

\* The steps _mark_failed and recover share: first the partial, then the final file.
quarantine_partial(kind, a) ==
  /\ At(kind, a, "partial")
  /\ quarantine' = Moved(a, "partial", partial[a])
  /\ partial' = [partial EXCEPT ![a] = "absent"]
  /\ op' = [op EXCEPT !.step = "final", !.moved = partial[a] # "absent"]
  /\ UNCHANGED <<rows, final, up, world>>

quarantine_final(kind, a) ==
  /\ At(kind, a, "final")
  /\ quarantine' = Moved(a, "final", final[a])
  /\ final' = [final EXCEPT ![a] = "absent"]
  /\ op' = [op EXCEPT !.step = "row", !.moved = @ \/ final[a] # "absent"]
  /\ UNCHANGED <<rows, partial, up, world>>

\* An OSError in _mark_failed: the files stay and the row will say FAILED.
quarantine_raises(a) ==
  /\ At("persist", a, "partial") \/ At("persist", a, "final")
  /\ op' = [op EXCEPT !.step = "row", !.moved = FALSE]
  /\ UNCHANGED <<rows, disk, up, world>>

\* The row; if even this transaction fails, it stays PENDING until the next start.
mark_failed(a) ==
  /\ At("persist", a, "row")
  /\ \E result \in {IF op.moved THEN "QUARANTINED" ELSE "FAILED", "PENDING"} :
        intent' = [intent EXCEPT ![a] = result]
  /\ op' = Idle
  /\ UNCHANGED <<session, home, status, disk, up, world>>

------------------------------------------------------------------------------
(* The governance layer and the outside. *)

withdraw ==
  /\ up
  /\ op = Idle
  /\ ~ Withdrawn
  /\ session' = [s \in Sessions |-> "WITHDRAWN"]
  /\ status' = [a \in Artifacts |-> IF status[a] = "VALID" THEN "INVALIDATED" ELSE status[a]]
  /\ UNCHANGED <<intent, home, disk, up, op, world>>

\* Somebody removes a final file or puts another in its place.
Tamper(a) ==
  /\ tampers < MaxTampers
  /\ ~ Guarded(a)
  /\ \E content \in {"absent", "copy", "foreign"} \ {final[a]} :
        final' = [final EXCEPT ![a] = content]
  /\ tampers' = tampers + 1
  /\ touched' = touched \cup {a}
  /\ UNCHANGED <<rows, partial, quarantine, up, op, crashes>>

------------------------------------------------------------------------------
(* The end of the process, and recover in the next start. *)

Crash ==
  /\ crashes < MaxCrashes
  /\ crashes' = crashes + 1
  /\ up' = FALSE
  /\ op' = Idle
  /\ UNCHANGED <<rows, disk, tampers, touched>>

Unsettled == {a \in Artifacts : intent[a] \in {"PENDING", "FAILED"}}

recover_begin ==
  /\ ~ up
  /\ op = Idle
  /\ op' = [Idle EXCEPT !.kind = "recover", !.step = "next", !.rest = Unsettled]
  /\ UNCHANGED <<rows, disk, up, world>>

recover_next(a) ==
  /\ op.kind = "recover"
  /\ op.step = "next"
  /\ a \in op.rest
  /\ op' = [op EXCEPT !.artifact = a, !.step = "partial", !.rest = @ \ {a}]
  /\ UNCHANGED <<rows, disk, up, world>>

terminalize_recovery(a) ==
  /\ At("recover", a, "row")
  /\ intent' = [intent EXCEPT ![a] = "QUARANTINED"]
  /\ session' = [session EXCEPT ![home[a]] = IF @ = "WITHDRAWN" THEN @ ELSE "FAILED"]
  /\ op' = [op EXCEPT !.artifact = None, !.step = "next"]
  /\ UNCHANGED <<home, status, disk, up, world>>

Orphans == {a \in Artifacts : final[a] # "absent" /\ status[a] = None}

recover_orphan(a) ==
  /\ op.kind = "recover"
  /\ op.step = "next"
  /\ op.rest = {}
  /\ a \in Orphans
  /\ quarantine' = Moved(a, "orphan", final[a])
  /\ final' = [final EXCEPT ![a] = "absent"]
  /\ UNCHANGED <<rows, partial, up, op, world>>

recover_end ==
  /\ op.kind = "recover"
  /\ op.step = "next"
  /\ op.rest = {}
  /\ Orphans = {}
  /\ up' = TRUE
  /\ op' = Idle
  /\ UNCHANGED <<rows, disk, world>>

------------------------------------------------------------------------------
Persist ==
  \E a \in Artifacts :
    \/ \E s \in Sessions : create_intent(a, s)
    \/ write_durable(a) \/ replace(a) \/ open_final_guard(a) \/ commit_sealed(a)
    \/ persist_raises(a) \/ quarantine_raises(a) \/ mark_failed(a)

Quarantine ==
  \E a \in Artifacts, kind \in {"persist", "recover"} :
    quarantine_partial(kind, a) \/ quarantine_final(kind, a)

\* recover up to its last step
Recover ==
  \/ recover_begin
  \/ \E a \in Artifacts : recover_next(a) \/ terminalize_recovery(a) \/ recover_orphan(a)

StoreNext ==
  \/ Persist \/ Quarantine \/ Recover \/ recover_end
  \/ withdraw
  \/ \E a \in Artifacts : Tamper(a)
  \/ Crash

StoreSpec == StoreInit /\ [][StoreNext]_storeVars

StoreTypeOK ==
  /\ session \in [Sessions -> {"OPEN", "FAILED", "WITHDRAWN"}]
  /\ intent \in [Artifacts -> IntentStates \cup {None}]
  /\ home \in [Artifacts -> Sessions \cup {None}]
  /\ status \in [Artifacts -> StatusStates \cup {None}]
  /\ partial \in [Artifacts -> {"absent", "torn", "original"}]
  /\ final \in [Artifacts -> Contents]
  /\ quarantine \in [Artifacts \X Places -> Contents]
  /\ up \in BOOLEAN
  /\ op \in Ops
  /\ crashes \in 0 .. MaxCrashes
  /\ tampers \in 0 .. MaxTampers
  /\ touched \subseteq Artifacts
============================================================================
