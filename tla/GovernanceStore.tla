-------------------------- MODULE GovernanceStore --------------------------
(***************************************************************************)
(* The research half of the M1 persistence backend (m1.py): studies,       *)
(* pseudonymous participants, their sessions, operator consent, artifact   *)
(* lineage, participant-wide withdrawal, write intents and what the next   *)
(* start of the process does with the intents a crash left PENDING.        *)
(*                                                                         *)
(* Every mutation is one BEGIN IMMEDIATE transaction under the store's     *)
(* lock, so it is one action here; a rejected call changes nothing and is  *)
(* the falsity of a guard.  Only the recovery of a write intent is two     *)
(* steps: the partial file is renamed outside the transaction that marks   *)
(* the intent, and the process can die between the two.                    *)
(***************************************************************************)
EXTENDS Naturals, FiniteSets

CONSTANTS Studies, Participants, Sessions, Artifacts,
          Keys,          \* idempotency keys a caller may send
          ReceiptIds,    \* consent receipt ids, chosen by the caller
          Intents, Files,
          MaxCrashes,    \* bound: how often the process dies
          None           \* SQL NULL, or the absence of a row

ASSUME FiniteAssumption == IsFiniteSet(Sessions) /\ IsFiniteSet(Artifacts)
                           /\ IsFiniteSet(Keys) /\ IsFiniteSet(ReceiptIds)
ASSUME CrashAssumption == MaxCrashes \in Nat

VARIABLES
  studies,      \* rows of studies (the id stands for the unique study_code)
  study,        \* participants.study_id, None while the row is absent
  withdrawn,    \* participants with withdrawn_at set
  owner,        \* sessions.participant_id, None while the row is absent
  state,        \* sessions.state
  blocked,      \* sessions.collection_blocked
  eventSeq,     \* sessions.event_seq: session_events holds 1..eventSeq
  consent,      \* consent_receipts: id by session_id (both are unique)
  status,       \* artifact_registry.status, None while the row is absent
  home,         \* artifact_registry.session_id
  deps,         \* artifact_dependencies: <<parent, child>>
  receipt,      \* withdrawal_receipts by participant_id
  tasks,        \* withdrawal_tasks: <<subject session, artifact>>, all PENDING
  requests,     \* idempotency_records
  intent,       \* write_intents
  file,         \* staging/partials and operational/quarantine; "left": still in
                \* staging, a recovery has refused it
  phase,        \* the process: "down", "recovering" or "serving"
  todo,         \* rows _recover_pending_intents selected and has not handled
  current,      \* the row whose file it has moved and not yet committed
  crashes

rows     == <<studies, study, withdrawn, owner, state, blocked, eventSeq, consent>>
lineage  == <<status, home, deps, receipt, tasks>>
recovery == <<phase, todo, current, crashes>>
vars     == <<rows, lineage, requests, intent, file, recovery>>

SessionStates == {"DRAFT", "CONSENT_CONFIRMED", "FAILED", "WITHDRAWN"}
IntentRows ==
  [status : {"PENDING", "QUARANTINED"}, session : Sessions, file : Files]
Responses == [subject : Sessions, count : Nat]

ASSUME NoneAssumption ==
  /\ None \notin Studies \cup Participants \cup Sessions \cup ReceiptIds \cup Intents
  /\ None \notin {"VALID", "INVALIDATED"}
  /\ None \notin Responses
  /\ None \notin IntentRows

Init ==
  /\ studies = {}
  /\ study = [p \in Participants |-> None]
  /\ withdrawn = {}
  /\ owner = [s \in Sessions |-> None]
  /\ state = [s \in Sessions |-> "DRAFT"]
  /\ blocked = [s \in Sessions |-> FALSE]
  /\ eventSeq = [s \in Sessions |-> 0]
  /\ consent = [s \in Sessions |-> None]
  /\ status = [a \in Artifacts |-> None]
  /\ home = [a \in Artifacts |-> None]
  /\ deps = {}
  /\ receipt = [p \in Participants |-> None]
  /\ tasks = {}
  /\ requests = {}
  /\ intent = [i \in Intents |-> None]
  /\ file = [f \in Files |-> "absent"]
  /\ phase = "serving"
  /\ todo = {}
  /\ current = None
  /\ crashes = 0

------------------------------------------------------------------------------
(* Helpers the handlers share. *)

\* mutant: the stored response is not looked up first
mutate_blind(scope, key, payload, response) ==
  requests' = requests \cup
       {[scope |-> scope, key |-> key, payload |-> payload, response |-> response]}

\* _mutate runs its operation only for an unseen (scope, key); a repeat
\* replays the stored response, or conflicts, and writes nothing.
mutate(scope, key, payload, response) ==
  /\ ~ \E r \in requests : r.scope = scope /\ r.key = key
  /\ requests' = requests \cup
       {[scope |-> scope, key |-> key, payload |-> payload, response |-> response]}

require_mutable_research(s) ==
  /\ owner[s] # None
  /\ owner[s] \notin withdrawn
  /\ state[s] # "WITHDRAWN"
  /\ ~ blocked[s]

\* mutant: only the foreign key is checked
parents_exist(parents) == \A a \in parents : status[a] # None

require_valid_parents(parents) ==
  \A a \in parents :
    /\ status[a] = "VALID"
    /\ state[home[a]] # "WITHDRAWN"
    /\ owner[home[a]] \notin withdrawn

OwnSessions(p) == {s \in Sessions : owner[s] = p}

Roots(p) == {a \in Artifacts : status[a] # None /\ owner[home[a]] = p}

ClosedUnder(S, edges) == \A e \in edges : e[1] \in S => e[2] \in S

\* The least set that holds the roots and every child of a member.
Reach(roots, edges) ==
  {a \in Artifacts :
     \A S \in SUBSET Artifacts : (roots \subseteq S /\ ClosedUnder(S, edges)) => a \in S}

\* The rows the recursive query of withdraw selects.
Lineage(p) == Reach(Roots(p), deps)

\* The tasks it inserts: one for each row, under the initiating session.
new_tasks(s, p) == {s} \X Lineage(p)

------------------------------------------------------------------------------
(* Operations of a serving process. *)

create_study(st, k) ==
  /\ phase = "serving"
  /\ st \notin studies
  /\ mutate(<<"research-study", None>>, k, <<st>>, st)
  /\ studies' = studies \cup {st}
  /\ UNCHANGED <<study, withdrawn, owner, state, blocked, eventSeq, consent,
                 lineage, intent, file, recovery>>

create_participant(st, p, k) ==
  /\ phase = "serving"
  /\ st \in studies
  /\ study[p] = None
  /\ mutate(<<"research-participant", None>>, k, <<st>>, p)
  /\ study' = [study EXCEPT ![p] = st]
  /\ UNCHANGED <<studies, withdrawn, owner, state, blocked, eventSeq, consent,
                 lineage, intent, file, recovery>>

\* mutant: a withdrawn participant may receive a session
create_session_unchecked(st, p, s, k) ==
  /\ phase = "serving"
  /\ study[p] = st
  /\ owner[s] = None
  /\ mutate(<<"research-session", None>>, k, <<st, p>>, s)
  /\ owner' = [owner EXCEPT ![s] = p]
  /\ UNCHANGED <<studies, study, withdrawn, state, blocked, eventSeq, consent,
                 lineage, intent, file, recovery>>

create_research_session(st, p, s, k) ==
  /\ phase = "serving"
  /\ study[p] = st
  /\ p \notin withdrawn
  /\ owner[s] = None
  /\ mutate(<<"research-session", None>>, k, <<st, p>>, s)
  /\ owner' = [owner EXCEPT ![s] = p]
  /\ UNCHANGED <<studies, study, withdrawn, state, blocked, eventSeq, consent,
                 lineage, intent, file, recovery>>

\* INSERT OR REPLACE: the row of another session with the same receipt id goes.
confirm_operator_consent(s, r, k) ==
  /\ phase = "serving"
  /\ require_mutable_research(s)
  /\ mutate(<<"research-consent", s>>, k, <<r>>, s)
  /\ consent' = [x \in Sessions |->
                   IF x = s THEN r ELSE IF consent[x] = r THEN None ELSE consent[x]]
  /\ state' = [state EXCEPT ![s] = IF @ = "DRAFT" THEN "CONSENT_CONFIRMED" ELSE @]
  /\ eventSeq' = [eventSeq EXCEPT ![s] = @ + 1]
  /\ UNCHANGED <<studies, study, withdrawn, owner, blocked,
                 lineage, intent, file, recovery>>

register_artifact(a, s, parents) ==
  /\ phase = "serving"
  /\ require_mutable_research(s)
  /\ require_valid_parents(parents)
  /\ status[a] = None
  /\ status' = [status EXCEPT ![a] = "VALID"]
  /\ home' = [home EXCEPT ![a] = s]
  /\ deps' = deps \cup {<<b, a>> : b \in parents}
  /\ UNCHANGED <<rows, receipt, tasks, requests, intent, file, recovery>>

add_dependency(parent, child) ==
  /\ phase = "serving"
  /\ require_valid_parents({parent})
  /\ status[child] # None
  /\ <<parent, child>> \notin deps
  /\ deps' = deps \cup {<<parent, child>>}
  /\ UNCHANGED <<rows, status, home, receipt, tasks, requests, intent, file, recovery>>

\* A first withdrawal, for the whole participant, in one transaction.
withdraw(s, k) ==
  LET p     == owner[s]
      added == new_tasks(s, p)
      count == Cardinality({t \in tasks \cup added : owner[t[1]] = p})
  IN /\ phase = "serving"
     /\ owner[s] # None
     /\ receipt[p] = None
     /\ mutate(<<"research-withdraw", p>>, k, <<p>>, [subject |-> s, count |-> count])
     /\ withdrawn' = withdrawn \cup {p}
     /\ state' = [x \in Sessions |-> IF owner[x] = p THEN "WITHDRAWN" ELSE state[x]]
     /\ blocked' = [x \in Sessions |-> owner[x] = p \/ blocked[x]]
     /\ status' = [a \in Artifacts |-> IF a \in Lineage(p) THEN "INVALIDATED" ELSE status[a]]
     /\ tasks' = tasks \cup added
     /\ eventSeq' = [eventSeq EXCEPT ![s] = @ + 1]
     /\ receipt' = [receipt EXCEPT ![p] = [subject |-> s, count |-> count]]
     /\ UNCHANGED <<studies, study, owner, consent, home, deps, intent, file, recovery>>

\* mutant: the response is built anew for the session that asks
withdraw_rebuilt(s, k) ==
  /\ phase = "serving"
  /\ owner[s] # None
  /\ receipt[owner[s]] # None
  /\ mutate(<<"research-withdraw", owner[s]>>, k, <<owner[s]>>,
            [subject |-> s, count |-> receipt[owner[s]].count])
  /\ UNCHANGED <<rows, lineage, intent, file, recovery>>

\* A later request with a new key, from any session of the participant: the
\* canonical response is returned and stored, nothing else is written.
withdraw_again(s, k) ==
  /\ phase = "serving"
  /\ owner[s] # None
  /\ receipt[owner[s]] # None
  /\ mutate(<<"research-withdraw", owner[s]>>, k, <<owner[s]>>, receipt[owner[s]])
  /\ UNCHANGED <<rows, lineage, intent, file, recovery>>

\* What _partial_file finds in staging: a new partial, or one an earlier recovery
\* could not open and left there.
InStaging(f) == file[f] \in {"staged", "left"}

create_write_intent(i, s, f) ==
  /\ phase = "serving"
  /\ require_mutable_research(s)
  /\ InStaging(f)
  /\ intent[i] = None
  /\ intent' = [intent EXCEPT ![i] = [status |-> "PENDING", session |-> s, file |-> f]]
  /\ UNCHANGED <<rows, lineage, requests, file, recovery>>

\* A writer outside this package puts a partial file under staging/partials.
WritePartial(f) ==
  /\ file[f] = "absent"
  /\ file' = [file EXCEPT ![f] = "staged"]
  /\ UNCHANGED <<rows, lineage, requests, intent, recovery>>

------------------------------------------------------------------------------
(* Death of the process, and its next start. *)

Pending == {i \in Intents : intent[i] # None /\ intent[i].status = "PENDING"}

Crash ==
  /\ phase # "down"
  /\ crashes < MaxCrashes
  /\ crashes' = crashes + 1
  /\ phase' = "down"
  /\ todo' = {}
  /\ current' = None
  /\ UNCHANGED <<rows, lineage, requests, intent, file>>

\* mutant: the query of the recovery has lost its status='PENDING'
start_all ==
  /\ phase = "down"
  /\ phase' = "recovering"
  /\ todo' = {i \in Intents : intent[i] # None}
  /\ UNCHANGED <<rows, lineage, requests, intent, file, current, crashes>>

Start ==
  /\ phase = "down"
  /\ phase' = "recovering"
  /\ todo' = Pending
  /\ UNCHANGED <<rows, lineage, requests, intent, file, current, crashes>>

\* mutant: a partial that is gone stops the recovery
rename_required(i) ==
  /\ phase = "recovering"
  /\ current = None
  /\ i \in todo
  /\ InStaging(intent[i].file)
  /\ current' = i
  /\ file' = [file EXCEPT ![intent[i].file] = "quarantined"]
  /\ UNCHANGED <<rows, lineage, requests, intent, phase, todo, crashes>>

\* The rename.  InvalidTransition is passed over, whether the partial is gone or
\* still there: a symlink or reparse point, not a regular file, or an OSError while
\* _partial_file looks at it leaves it in staging.
recover_rename(i) ==
  /\ phase = "recovering"
  /\ current = None
  /\ i \in todo
  /\ current' = i
  /\ \E now \in IF InStaging(intent[i].file) THEN {"quarantined", "left"}
                                             ELSE {file[intent[i].file]} :
       file' = [file EXCEPT ![intent[i].file] = now]
  /\ UNCHANGED <<rows, lineage, requests, intent, phase, todo, crashes>>

always_failed(s) == "FAILED"   \* mutant: withdrawal is not looked at
recovered_state(s) ==
  IF state[s] = "WITHDRAWN" \/ owner[s] \in withdrawn THEN "WITHDRAWN" ELSE "FAILED"

Quarantined(row) == [status |-> "QUARANTINED", session |-> row.session, file |-> row.file]

\* mutant: the session is not blocked
commit_unblocked ==
  /\ phase = "recovering"
  /\ current # None
  /\ intent' = [intent EXCEPT ![current] = Quarantined(@)]
  /\ state' = [state EXCEPT ![intent[current].session] = recovered_state(intent[current].session)]
  /\ todo' = todo \ {current}
  /\ current' = None
  /\ UNCHANGED <<studies, study, withdrawn, owner, blocked, eventSeq, consent,
                 lineage, requests, file, phase, crashes>>

recover_commit ==
  /\ phase = "recovering"
  /\ current # None
  /\ intent' = [intent EXCEPT ![current] = Quarantined(@)]
  /\ LET s == intent[current].session
     IN /\ state' = [state EXCEPT ![s] = recovered_state(s)]
        /\ blocked' = [blocked EXCEPT ![s] = TRUE]
  /\ todo' = todo \ {current}
  /\ current' = None
  /\ UNCHANGED <<studies, study, withdrawn, owner, eventSeq, consent,
                 lineage, requests, file, phase, crashes>>

Serve ==
  /\ phase = "recovering"
  /\ todo = {}
  /\ phase' = "serving"
  /\ UNCHANGED <<rows, lineage, requests, intent, file, todo, current, crashes>>

Restart == Start \/ (\E i \in Intents : recover_rename(i)) \/ recover_commit \/ Serve

Next ==
  \/ \E st \in Studies, k \in Keys : create_study(st, k)
  \/ \E st \in Studies, p \in Participants, k \in Keys : create_participant(st, p, k)
  \/ \E st \in Studies, p \in Participants, s \in Sessions, k \in Keys :
       create_research_session(st, p, s, k)
  \/ \E s \in Sessions, r \in ReceiptIds, k \in Keys : confirm_operator_consent(s, r, k)
  \/ \E a \in Artifacts, s \in Sessions, parents \in SUBSET Artifacts :
       register_artifact(a, s, parents)
  \/ \E parent, child \in Artifacts : add_dependency(parent, child)
  \/ \E s \in Sessions, k \in Keys : withdraw(s, k)
  \/ \E s \in Sessions, k \in Keys : withdraw_again(s, k)
  \/ \E i \in Intents, s \in Sessions, f \in Files : create_write_intent(i, s, f)
  \/ \E f \in Files : WritePartial(f)
  \/ Crash
  \/ Restart

Spec == Init /\ [][Next]_vars

\* The launcher starts the process again, and a start runs to its end: the
\* recovery loop has no wait in it.  Serving requests are never forced.
FairSpec == Spec /\ WF_vars(Restart)

------------------------------------------------------------------------------
(* Properties. *)

\* Types of the rows the M1 schema stores.
TypeOK ==
  /\ studies \subseteq Studies
  /\ study \in [Participants -> Studies \cup {None}]
  /\ withdrawn \subseteq Participants
  /\ owner \in [Sessions -> Participants \cup {None}]
  /\ state \in [Sessions -> SessionStates]
  /\ blocked \in [Sessions -> BOOLEAN]
  /\ eventSeq \in [Sessions -> Nat]
  /\ consent \in [Sessions -> ReceiptIds \cup {None}]
  /\ status \in [Artifacts -> {None, "VALID", "INVALIDATED"}]
  /\ home \in [Artifacts -> Sessions \cup {None}]
  /\ deps \subseteq Artifacts \X Artifacts
  /\ receipt \in [Participants -> Responses \cup {None}]
  /\ tasks \subseteq Sessions \X Artifacts
  /\ intent \in [Intents -> IntentRows \cup {None}]
  /\ file \in [Files -> {"absent", "staged", "left", "quarantined"}]
  /\ phase \in {"down", "recovering", "serving"}
  /\ todo \subseteq Pending
  /\ current \in todo \cup {None}
  /\ crashes \in Nat

\* Which rows refer to which: a registered artifact has a session of a known
\* participant, edges join registered artifacts, a receipt belongs to a
\* withdrawn participant and names one of their sessions, and tasks exist only
\* under the subject session of a receipt.
References ==
  /\ \A a \in Artifacts : status[a] # None => home[a] \in Sessions /\ owner[home[a]] # None
  /\ \A e \in deps : status[e[1]] # None /\ status[e[2]] # None
  /\ \A p \in Participants : receipt[p] # None => p \in withdrawn /\ owner[receipt[p].subject] = p
  /\ \A t \in tasks : /\ owner[t[1]] # None
                      /\ receipt[owner[t[1]]] # None
                      /\ receipt[owner[t[1]]].subject = t[1]
  /\ \A i \in Intents : intent[i] # None => owner[intent[i].session] # None

\* Whatever is registered or linked later, an artifact derived from an
\* invalidated artifact is invalidated too: register_artifact and
\* add_dependency refuse a parent that withdraw has reached.
LineageClosed ==
  \A e \in deps : status[e[1]] = "INVALIDATED" => status[e[2]] = "INVALIDATED"

\* Withdrawal is participant-wide and stays complete: the participant has one
\* receipt, every session of theirs is WITHDRAWN and blocked, everything
\* reachable from their artifacts NOW is invalidated, and the receipt's subject
\* session has one task for each of these artifacts and for no other.
WithdrawalComplete ==
  \A p \in withdrawn :
    /\ receipt[p] # None
    /\ \A s \in OwnSessions(p) : state[s] = "WITHDRAWN" /\ blocked[s]
    /\ \A a \in Lineage(p) : status[a] = "INVALIDATED"
    /\ {a \in Artifacts : <<receipt[p].subject, a>> \in tasks} = Lineage(p)

\* The receipts account for what was done.  Every response a withdrawal request ever
\* got, under any key and from any session of the participant, is the canonical
\* receipt; its task_count is still the number of tasks of the participant; and
\* nobody else's data was taken: an artifact is invalidated only when the receipt
\* of some withdrawn participant holds a task for it.
CanonicalReceipt ==
  /\ \A r \in requests : r.scope[1] = "research-withdraw" => r.response = receipt[r.scope[2]]
  /\ \A p \in Participants : receipt[p] # None =>
       receipt[p].count = Cardinality({t \in tasks : owner[t[1]] = p})
  /\ \A a \in Artifacts : status[a] = "INVALIDATED" =>
       \E p \in withdrawn : receipt[p] # None /\ <<receipt[p].subject, a>> \in tasks

\* What recovery gives about a partial write, whichever of the rename and the commit
\* a crash separated, and whichever intents share the file: the session of a
\* QUARANTINED intent is blocked for good, and a recovery has seen the file, so that
\* it is in quarantine, or still in staging because it was refused there.
QuarantineBlocks ==
  \A i \in Intents : (intent[i] # None /\ intent[i].status = "QUARANTINED") =>
    /\ file[intent[i].file] \in {"quarantined", "left"}
    /\ blocked[intent[i].session]
    /\ state[intent[i].session] \in {"FAILED", "WITHDRAWN"}

\* docs/spec/M1_PERSISTENCE_SPEC.md:75 says that a pending partial is quarantined on
\* restart and its intent becomes QUARANTINED.  The code marks the intent also when
\* the partial was refused and stays in staging/partials.
PartialsQuarantined ==
  \A i \in Intents : (intent[i] # None /\ intent[i].status = "QUARANTINED") =>
    file[intent[i].file] = "quarantined"

\* The session log has exactly one event for each consent request that was
\* carried out and one for the withdrawal the session is the subject of: a
\* retried request appends nothing.
ConsentRows(s) == {r \in requests : r.scope = <<"research-consent", s>>}
WithdrawalEvents(s) ==
  IF \E p \in Participants : receipt[p] # None /\ receipt[p].subject = s THEN 1 ELSE 0
EventsExactlyOnce ==
  \A s \in Sessions : eventSeq[s] = Cardinality(ConsentRows(s)) + WithdrawalEvents(s)

\* No step undoes a withdrawal, an invalidation, a block or a receipt: not a
\* retry, not a consent, not the recovery of an intent the session left behind.
WithdrawalIsTerminal ==
  [][/\ withdrawn \subseteq withdrawn'
     /\ \A s \in Sessions : (state[s] = "WITHDRAWN" => state'[s] = "WITHDRAWN")
                         /\ (blocked[s] => blocked'[s])
     /\ \A a \in Artifacts : status[a] = "INVALIDATED" => status'[a] = "INVALIDATED"
     /\ \A p \in Participants : receipt[p] # None => receipt'[p] = receipt[p]
     /\ tasks \subseteq tasks']_vars

\* A store that is down is served again, with no intent of the earlier run left
\* PENDING in the meantime: recovery ends however often it is interrupted.
RecoveryEnds == (phase = "down") ~> (phase = "serving")

==============================================================================
