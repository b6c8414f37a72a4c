----------------------- MODULE GovernanceStoreProofs -----------------------
(***************************************************************************)
(* Proofs about GovernanceStore, for every set of participants, sessions,  *)
(* artifacts, keys and intents and every number of crashes.                *)
(***************************************************************************)
EXTENDS GovernanceStore, FiniteSetTheorems, TLAPS

------------------------------------------------------------------------------
(* The recursive query as a least closed set. *)

\* The lineage query returns its roots.
LEMMA ReachRoots ==
  ASSUME NEW R \in SUBSET Artifacts, NEW E
  PROVE  R \subseteq Reach(R, E)
BY DEF Reach

\* The lineage query's result is closed under the dependency edges.
LEMMA ReachClosed ==
  ASSUME NEW R, NEW E \in SUBSET (Artifacts \X Artifacts)
  PROVE  ClosedUnder(Reach(R, E), E)
<1> SUFFICES ASSUME NEW e \in E, e[1] \in Reach(R, E)
             PROVE  e[2] \in Reach(R, E)
  BY DEF ClosedUnder
<1>1. e[2] \in Artifacts
  OBVIOUS
<1>2. ASSUME NEW S \in SUBSET Artifacts, R \subseteq S, ClosedUnder(S, E)
      PROVE  e[2] \in S
  <2>1. e[1] \in S
    BY <1>2 DEF Reach
  <2> QED
    BY <1>2, <2>1 DEF ClosedUnder
<1> QED
  BY <1>1, <1>2 DEF Reach

\* It is the least such set.
LEMMA ReachLeast ==
  ASSUME NEW R, NEW E, NEW S \in SUBSET Artifacts,
         R \subseteq S, ClosedUnder(S, E)
  PROVE  Reach(R, E) \subseteq S
BY DEF Reach

\* Edges that leave from outside a lineage do not change it: this is why the
\* parent checks of register_artifact and add_dependency keep a withdrawal
\* complete.
LEMMA ReachExtend ==
  ASSUME NEW R \in SUBSET Artifacts, NEW E \in SUBSET (Artifacts \X Artifacts),
         NEW F \in SUBSET (Artifacts \X Artifacts),
         \A e \in F : e[1] \notin Reach(R, E)
  PROVE  Reach(R, E \cup F) = Reach(R, E)
<1>1. Reach(R, E) \in SUBSET Artifacts
  BY DEF Reach
<1>2. ClosedUnder(Reach(R, E), E \cup F)
  BY ReachClosed DEF ClosedUnder
<1>3. Reach(R, E \cup F) \subseteq Reach(R, E)
  BY <1>1, <1>2, ReachRoots, ReachLeast
<1>4. Reach(R, E \cup F) \in SUBSET Artifacts
  BY DEF Reach
<1>5. ClosedUnder(Reach(R, E \cup F), E)
  <2>1. ClosedUnder(Reach(R, E \cup F), E \cup F)
    BY ReachClosed
  <2> QED
    BY <2>1 DEF ClosedUnder
<1>6. Reach(R, E) \subseteq Reach(R, E \cup F)
  BY <1>4, <1>5, ReachRoots, ReachLeast
<1> QED
  BY <1>3, <1>6

\* The task count of a withdrawal is a natural number.
LEMMA TaskCount ==
  ASSUME NEW T \in SUBSET (Sessions \X Artifacts)
  PROVE  Cardinality(T) \in Nat
<1>1. IsFiniteSet(Sessions \X Artifacts)
  BY FS_Product, FiniteAssumption
<1>2. IsFiniteSet(T)
  BY <1>1, FS_Subset
<1> QED
  BY <1>2, FS_CardinalityType

------------------------------------------------------------------------------
(* Types. *)

\* What a withdrawal does to the receipt, the tasks and the lineage.
LEMMA WithdrawEffect ==
  ASSUME TypeOK, NEW s \in Sessions, NEW k \in Keys, withdraw(s, k)
  PROVE  /\ owner[s] \in Participants
         /\ receipt[owner[s]] = None
         /\ \E n \in Nat : receipt' = [receipt EXCEPT ![owner[s]] = [subject |-> s, count |-> n]]
         /\ Lineage(owner[s]) \subseteq Artifacts
         /\ tasks' = tasks \cup ({s} \X Lineage(owner[s]))
         /\ withdrawn' = withdrawn \cup {owner[s]}
         /\ status' = [a \in Artifacts |->
                         IF a \in Lineage(owner[s]) THEN "INVALIDATED" ELSE status[a]]
         /\ UNCHANGED <<owner, home, deps, intent, file>>
<1> DEFINE q == owner[s]
           T == {t \in tasks \cup new_tasks(s, q) : owner[t[1]] = q}
<1>1. q \in Participants
  BY DEF withdraw, TypeOK
<1>2. Lineage(q) \subseteq Artifacts
  BY DEF Lineage, Reach
<1>3. new_tasks(s, q) \subseteq Sessions \X Artifacts
  BY <1>2 DEF new_tasks
<1>4. T \in SUBSET (Sessions \X Artifacts)
  BY <1>3 DEF TypeOK
<1>5. Cardinality(T) \in Nat
  BY <1>4, TaskCount
<1>6. receipt' = [receipt EXCEPT ![q] = [subject |-> s, count |-> Cardinality(T)]]
  BY DEF withdraw
<1>7. \E n \in Nat : receipt' = [receipt EXCEPT ![q] = [subject |-> s, count |-> n]]
  BY <1>5, <1>6
<1> QED
  BY <1>1, <1>2, <1>7 DEF withdraw, new_tasks

\* Recovery's Start is the only action that fills todo; commit empties it one
\* row at a time, together with Pending.
LEMMA TypeStep ==
  ASSUME TypeOK, [Next]_vars
  PROVE  TypeOK'
<1> USE NoneAssumption DEF TypeOK
<1>1. CASE \E st \in Studies, k \in Keys : create_study(st, k)
  BY <1>1 DEF create_study, mutate, lineage, recovery, Pending
<1>2. CASE \E st \in Studies, q \in Participants, k \in Keys : create_participant(st, q, k)
  BY <1>2 DEF create_participant, mutate, lineage, recovery, Pending
<1>3. CASE \E st \in Studies, q \in Participants, s \in Sessions, k \in Keys :
             create_research_session(st, q, s, k)
  BY <1>3 DEF create_research_session, mutate, lineage, recovery, Pending
<1>4. CASE \E s \in Sessions, r \in ReceiptIds, k \in Keys :
             confirm_operator_consent(s, r, k)
  BY <1>4 DEF confirm_operator_consent, mutate, lineage, recovery, Pending, SessionStates
<1>5. CASE \E a \in Artifacts, s \in Sessions, parents \in SUBSET Artifacts :
             register_artifact(a, s, parents)
  BY <1>5 DEF register_artifact, rows, recovery, Pending
<1>6. CASE \E parent, child \in Artifacts : add_dependency(parent, child)
  BY <1>6 DEF add_dependency, rows, recovery, Pending
<1>7. CASE \E s \in Sessions, k \in Keys : withdraw(s, k)
  <2> PICK s \in Sessions, k \in Keys : withdraw(s, k)
    BY <1>7
  <2>1. PICK n \in Nat : receipt' = [receipt EXCEPT ![owner[s]] = [subject |-> s, count |-> n]]
    BY WithdrawEffect
  <2>2. receipt' \in [Participants -> Responses \cup {None}]
    BY <2>1, WithdrawEffect DEF Responses
  <2>3. tasks' \subseteq Sessions \X Artifacts
    BY WithdrawEffect
  <2>4. /\ withdrawn' \subseteq Participants
        /\ state' \in [Sessions -> SessionStates]
        /\ blocked' \in [Sessions -> BOOLEAN]
        /\ eventSeq' \in [Sessions -> Nat]
        /\ status' \in [Artifacts -> {None, "VALID", "INVALIDATED"}]
    <3>1. owner[s] \in Participants
      BY WithdrawEffect
    <3> QED
      BY <3>1 DEF withdraw, SessionStates
  <2> QED
    BY <2>2, <2>3, <2>4 DEF withdraw, recovery, Pending
<1>8. CASE \E s \in Sessions, k \in Keys : withdraw_again(s, k)
  BY <1>8 DEF withdraw_again, rows, lineage, recovery, Pending
<1>9. CASE \E i \in Intents, s \in Sessions, f \in Files : create_write_intent(i, s, f)
  BY <1>9 DEF create_write_intent, rows, lineage, recovery, Pending, IntentRows
<1>10. CASE \E f \in Files : WritePartial(f)
  BY <1>10 DEF WritePartial, rows, lineage, recovery, Pending
<1>11. CASE Crash
  BY <1>11 DEF Crash, rows, lineage
<1>12. CASE Start
  BY <1>12 DEF Start, rows, lineage, Pending
<1>13. CASE \E i \in Intents : recover_rename(i)
  BY <1>13 DEF recover_rename, rows, lineage, Pending, IntentRows
<1>14. CASE recover_commit
  BY <1>14 DEF recover_commit, Quarantined, lineage, Pending, IntentRows, recovered_state, SessionStates
<1>15. CASE Serve
  BY <1>15 DEF Serve, rows, lineage, Pending
<1>16. CASE UNCHANGED vars
  BY <1>16 DEF vars, rows, lineage, recovery, Pending
<1> QED
  BY <1>1, <1>2, <1>3, <1>4, <1>5, <1>6, <1>7, <1>8, <1>9, <1>10, <1>11, <1>12,
     <1>13, <1>14, <1>15, <1>16 DEF Next, Restart

\* The initial store is well typed.
LEMMA TypeInit == Init => TypeOK
BY CrashAssumption DEF Init, TypeOK, SessionStates, Pending

\* Every reachable store has the shape its schema declares.
THEOREM TypeCorrect == Spec => []TypeOK
BY TypeInit, TypeStep, PTL DEF Spec

------------------------------------------------------------------------------
(* References between rows. *)

\* A lineage holds registered artifacts only.
LEMMA LineageRegistered ==
  ASSUME TypeOK, References, NEW p \in Participants
  PROVE  /\ Roots(p) \in SUBSET Artifacts
         /\ deps \in SUBSET (Artifacts \X Artifacts)
         /\ Lineage(p) \in SUBSET Artifacts
         /\ Roots(p) \subseteq Lineage(p)
         /\ ClosedUnder(Lineage(p), deps)
         /\ \A a \in Lineage(p) : status[a] # None
<1> DEFINE S == {a \in Artifacts : status[a] # None}
<1>1. Roots(p) \in SUBSET Artifacts /\ Roots(p) \subseteq S
  BY DEF Roots
<1>2. deps \in SUBSET (Artifacts \X Artifacts)
  BY DEF TypeOK
<1>3. ClosedUnder(S, deps)
  BY <1>2 DEF ClosedUnder, References
<1>4. Reach(Roots(p), deps) \subseteq S
  <2> HIDE DEF S
  <2>1. S \in SUBSET Artifacts
    BY DEF S
  <2> QED
    BY <1>1, <1>3, <2>1, ReachLeast
<1>5. Reach(Roots(p), deps) \in SUBSET Artifacts
  BY DEF Reach
<1> QED
  BY <1>1, <1>2, <1>4, <1>5, ReachRoots, ReachClosed DEF Lineage

\* References is inductive relative to the types.
LEMMA ReferencesStep ==
  ASSUME TypeOK, References, TypeOK', [Next]_vars
  PROVE  References'
<1> USE NoneAssumption DEF TypeOK, References
<1>1. CASE \E st \in Studies, k \in Keys : create_study(st, k)
  BY <1>1 DEF create_study, lineage
<1>2. CASE \E st \in Studies, q \in Participants, k \in Keys : create_participant(st, q, k)
  BY <1>2 DEF create_participant, lineage
<1>3. CASE \E st \in Studies, q \in Participants, s \in Sessions, k \in Keys :
             create_research_session(st, q, s, k)
  <2> PICK st \in Studies, q \in Participants, s \in Sessions, k \in Keys :
           create_research_session(st, q, s, k)
    BY <1>3
  <2>1. /\ owner[s] = None
        /\ owner' = [owner EXCEPT ![s] = q]
        /\ UNCHANGED <<status, home, deps, receipt, tasks, withdrawn, intent>>
    BY DEF create_research_session, lineage
  <2>2. \A x \in Sessions : owner[x] # None => owner'[x] = owner[x]
    BY <2>1
  <2>3. \A x \in Participants : receipt[x] # None => receipt[x].subject \in Sessions
    BY DEF Responses
  <2>4. \A t \in tasks : t[1] \in Sessions
    OBVIOUS
  <2>5. \A i \in Intents : intent[i] # None => intent[i].session \in Sessions
    BY DEF IntentRows
  <2>6. \A x \in Participants : receipt'[x] # None =>
          x \in withdrawn' /\ owner'[receipt'[x].subject] = x
    BY <2>1, <2>2, <2>3
  <2>7. \A t \in tasks' : /\ owner'[t[1]] # None
                         /\ receipt'[owner'[t[1]]] # None
                         /\ receipt'[owner'[t[1]]].subject = t[1]
    BY <2>1, <2>2, <2>4
  <2> QED
    BY <2>1, <2>2, <2>5, <2>6, <2>7
<1>4. CASE \E s \in Sessions, r \in ReceiptIds, k \in Keys :
             confirm_operator_consent(s, r, k)
  BY <1>4 DEF confirm_operator_consent, lineage
<1>5. CASE \E a \in Artifacts, s \in Sessions, parents \in SUBSET Artifacts :
             register_artifact(a, s, parents)
  BY <1>5 DEF register_artifact, rows, require_mutable_research, require_valid_parents
<1>6. CASE \E parent, child \in Artifacts : add_dependency(parent, child)
  BY <1>6 DEF add_dependency, rows, require_valid_parents
<1>7. CASE \E s \in Sessions, k \in Keys : withdraw(s, k)
  <2> PICK s \in Sessions, k \in Keys : withdraw(s, k)
    BY <1>7
  <2> DEFINE q == owner[s]
  <2>1. PICK n \in Nat : receipt' = [receipt EXCEPT ![q] = [subject |-> s, count |-> n]]
    BY WithdrawEffect
  <2>2. [subject |-> s, count |-> n] # None
    BY DEF Responses
  <2>3. /\ q \in Participants
        /\ receipt[q] = None
        /\ tasks' = tasks \cup ({s} \X Lineage(q))
        /\ withdrawn' = withdrawn \cup {q}
        /\ status' = [a \in Artifacts |-> IF a \in Lineage(q) THEN "INVALIDATED" ELSE status[a]]
        /\ UNCHANGED <<owner, home, deps, intent>>
    BY WithdrawEffect
  <2>4. \A a \in Lineage(q) : status[a] # None
    BY <2>3, LineageRegistered
  <2>5. receipt'[q].subject = s /\ receipt'[q] # None
    BY <2>1, <2>2, <2>3
  <2>6. \A x \in Participants : x # q => receipt'[x] = receipt[x]
    BY <2>1, <2>3
  <2> HIDE DEF q
  <2>7. \A t \in tasks' : /\ owner'[t[1]] # None
                         /\ receipt'[owner'[t[1]]] # None
                         /\ receipt'[owner'[t[1]]].subject = t[1]
    <3> SUFFICES ASSUME NEW t \in tasks'
                 PROVE  /\ owner[t[1]] # None
                        /\ receipt'[owner[t[1]]] # None
                        /\ receipt'[owner[t[1]]].subject = t[1]
      BY <2>3
    <3>1. CASE t \in tasks
      BY <3>1, <2>3, <2>6
    <3>2. CASE t \in {s} \X Lineage(q)
      BY <3>2, <2>3, <2>5 DEF q
    <3> QED
      BY <3>1, <3>2, <2>3
  <2>8. \A x \in Participants : receipt'[x] # None =>
          x \in withdrawn' /\ owner'[receipt'[x].subject] = x
    BY <2>3, <2>5, <2>6 DEF q
  <2> QED
    BY <2>3, <2>4, <2>7, <2>8
<1>8. CASE \E s \in Sessions, k \in Keys : withdraw_again(s, k)
  BY <1>8 DEF withdraw_again, rows, lineage
<1>9. CASE \E i \in Intents, s \in Sessions, f \in Files : create_write_intent(i, s, f)
  BY <1>9 DEF create_write_intent, rows, lineage, require_mutable_research
<1>10. CASE \E f \in Files : WritePartial(f)
  BY <1>10 DEF WritePartial, rows, lineage
<1>11. CASE Crash
  BY <1>11 DEF Crash, rows, lineage
<1>12. CASE Start
  BY <1>12 DEF Start, rows, lineage
<1>13. CASE \E i \in Intents : recover_rename(i)
  BY <1>13 DEF recover_rename, rows, lineage
<1>14. CASE recover_commit
  <2>1. current \in Intents /\ intent[current] \in IntentRows
    BY <1>14 DEF recover_commit, Pending
  <2>2. /\ intent' = [intent EXCEPT ![current] = Quarantined(intent[current])]
        /\ UNCHANGED <<status, home, deps, receipt, tasks, owner, withdrawn>>
    BY <1>14 DEF recover_commit, lineage
  <2>3. Quarantined(intent[current]).session = intent[current].session
    BY DEF Quarantined
  <2>4. \A i \in Intents : intent'[i] # None => owner'[intent'[i].session] # None
    BY <2>1, <2>2, <2>3
  <2> QED
    BY <2>2, <2>4
<1>15. CASE Serve
  BY <1>15 DEF Serve, rows, lineage
<1>16. CASE UNCHANGED vars
  BY <1>16 DEF vars, rows, lineage
<1> QED
  BY <1>1, <1>2, <1>3, <1>4, <1>5, <1>6, <1>7, <1>8, <1>9, <1>10, <1>11, <1>12,
     <1>13, <1>14, <1>15, <1>16 DEF Next, Restart

\* The rows of a reachable store refer to each other as the foreign keys say.
THEOREM ReferencesInvariant == Spec => []References
<1>1. Init => References
  BY DEF Init, References
<1> QED
  BY <1>1, TypeCorrect, TypeStep, ReferencesStep, PTL DEF Spec

------------------------------------------------------------------------------
(* Lineage. *)

\* A step that adds edges only below VALID parents, or invalidates a closed set,
\* leaves no valid child below an invalidated parent.
LEMMA LineageStep ==
  ASSUME TypeOK, References, LineageClosed, [Next]_vars
  PROVE  LineageClosed'
<1> USE NoneAssumption DEF TypeOK, LineageClosed
<1>1. CASE \E a \in Artifacts, s \in Sessions, parents \in SUBSET Artifacts :
             register_artifact(a, s, parents)
  BY <1>1 DEF register_artifact, require_valid_parents, References
<1>2. CASE \E parent, child \in Artifacts : add_dependency(parent, child)
  BY <1>2 DEF add_dependency, require_valid_parents
<1>3. CASE \E s \in Sessions, k \in Keys : withdraw(s, k)
  <2> PICK s \in Sessions, k \in Keys : withdraw(s, k)
    BY <1>3
  <2>1. /\ owner[s] \in Participants
        /\ status' = [a \in Artifacts |->
                        IF a \in Lineage(owner[s]) THEN "INVALIDATED" ELSE status[a]]
        /\ deps' = deps
    BY WithdrawEffect
  <2>2. ClosedUnder(Lineage(owner[s]), deps)
    BY <2>1, LineageRegistered
  <2> QED
    BY <2>1, <2>2 DEF ClosedUnder
<1>4. CASE UNCHANGED <<status, deps>>
  BY <1>4
<1> QED
  BY <1>1, <1>2, <1>3, <1>4 DEF Next, Restart, vars, lineage, create_study, create_participant,
     create_research_session, confirm_operator_consent, withdraw_again, create_write_intent,
     WritePartial, Crash, Start, recover_rename, recover_commit, Serve

\* No artifact below an invalidated one is ever valid, whatever the order of
\* registrations, late dependency edges and withdrawals.
THEOREM LineageInvariant == Spec => []LineageClosed
<1>1. Init => LineageClosed
  BY DEF Init, LineageClosed
<1> QED
  BY <1>1, TypeCorrect, ReferencesInvariant, LineageStep, PTL DEF Spec

------------------------------------------------------------------------------
(* Withdrawal. *)

\* A participant's lineage and sessions, where no action but a withdrawal is
\* concerned: they are the same after a step that keeps these variables.
LEMMA LineageUnchanged ==
  ASSUME UNCHANGED <<owner, status, home, deps>>, NEW p \in Participants
  PROVE  Lineage(p)' = Lineage(p) /\ OwnSessions(p)' = OwnSessions(p)
BY DEF Lineage, Reach, Roots, ClosedUnder, OwnSessions

\* The heart of the argument: a completed withdrawal stays complete.
LEMMA WithdrawalStep ==
  ASSUME TypeOK, References, WithdrawalComplete, TypeOK', [Next]_vars
  PROVE  WithdrawalComplete'
<1> USE NoneAssumption DEF WithdrawalComplete
<1>1. CASE \E st \in Studies, q \in Participants, s \in Sessions, k \in Keys :
             create_research_session(st, q, s, k)
  <2> PICK st \in Studies, q \in Participants, s \in Sessions, k \in Keys :
           create_research_session(st, q, s, k)
    BY <1>1
  <2>1. /\ q \notin withdrawn
        /\ owner[s] = None
        /\ owner' = [owner EXCEPT ![s] = q]
        /\ UNCHANGED <<withdrawn, state, blocked, status, home, deps, receipt, tasks>>
    BY DEF create_research_session, lineage
  <2> SUFFICES ASSUME NEW p \in withdrawn
               PROVE  /\ OwnSessions(p)' = OwnSessions(p)
                      /\ Lineage(p)' = Lineage(p)
    BY <2>1
  <2>2. p # q /\ p # None
    BY <2>1 DEF TypeOK
  <2>3. OwnSessions(p)' = OwnSessions(p)
    BY <2>1, <2>2 DEF OwnSessions, TypeOK
  <2>4. Roots(p)' = Roots(p)
    BY <2>1, <2>2 DEF Roots, TypeOK, References
  <2> QED
    BY <2>1, <2>3, <2>4 DEF Lineage, Reach, ClosedUnder
<1>2. CASE \E a \in Artifacts, s \in Sessions, parents \in SUBSET Artifacts :
             register_artifact(a, s, parents)
  <2> PICK a \in Artifacts, s \in Sessions, parents \in SUBSET Artifacts :
           register_artifact(a, s, parents)
    BY <1>2
  <2> DEFINE F == {<<b, a>> : b \in parents}
  <2>1. /\ owner[s] \notin withdrawn
        /\ \A b \in parents : status[b] = "VALID"
        /\ status[a] = None
        /\ status' = [status EXCEPT ![a] = "VALID"]
        /\ home' = [home EXCEPT ![a] = s]
        /\ deps' = deps \cup F
        /\ UNCHANGED <<withdrawn, owner, state, blocked, receipt, tasks>>
    BY DEF register_artifact, require_mutable_research, require_valid_parents, rows
  <2> SUFFICES ASSUME NEW p \in withdrawn
               PROVE  /\ OwnSessions(p)' = OwnSessions(p)
                      /\ Lineage(p)' = Lineage(p)
                      /\ \A b \in Lineage(p) : status'[b] = "INVALIDATED"
    BY <2>1
  <2>2. p \in Participants
    BY DEF TypeOK
  <2>3. OwnSessions(p)' = OwnSessions(p)
    BY <2>1 DEF OwnSessions
  <2>4. Roots(p)' = Roots(p)
    BY <2>1 DEF Roots, TypeOK
  <2>5. \A b \in Lineage(p) : b # a /\ status[b] = "INVALIDATED"
    BY <2>1
  <2>6. \A e \in F : e[1] \notin Reach(Roots(p), deps)
    BY <2>1, <2>5 DEF Lineage
  <2>7. F \in SUBSET (Artifacts \X Artifacts)
    OBVIOUS
  <2>8. Reach(Roots(p), deps \cup F) = Reach(Roots(p), deps)
    <3> HIDE DEF F
    <3> QED
      BY <2>2, <2>6, <2>7, LineageRegistered, ReachExtend
  <2>9. Lineage(p)' = Reach(Roots(p)', deps')
    BY DEF Lineage, Reach, Roots, ClosedUnder
  <2>10. Lineage(p)' = Lineage(p)
    BY <2>1, <2>4, <2>8, <2>9 DEF Lineage
  <2>11. \A b \in Lineage(p) : status'[b] = "INVALIDATED"
    BY <2>1, <2>2, <2>5, LineageRegistered DEF TypeOK
  <2> QED
    BY <2>3, <2>10, <2>11
<1>3. CASE \E parent, child \in Artifacts : add_dependency(parent, child)
  <2> PICK parent \in Artifacts, child \in Artifacts : add_dependency(parent, child)
    BY <1>3
  <2> DEFINE F == {<<parent, child>>}
  <2>1. /\ status[parent] = "VALID"
        /\ deps' = deps \cup F
        /\ UNCHANGED <<withdrawn, owner, state, blocked, status, home, receipt, tasks>>
    BY DEF add_dependency, require_valid_parents, rows
  <2> SUFFICES ASSUME NEW p \in withdrawn
               PROVE  /\ OwnSessions(p)' = OwnSessions(p)
                      /\ Lineage(p)' = Lineage(p)
    BY <2>1
  <2>2. p \in Participants
    BY DEF TypeOK
  <2>3. OwnSessions(p)' = OwnSessions(p) /\ Roots(p)' = Roots(p)
    BY <2>1 DEF OwnSessions, Roots
  <2>4. \A e \in F : e[1] \notin Reach(Roots(p), deps)
    BY <2>1 DEF Lineage
  <2>5. F \in SUBSET (Artifacts \X Artifacts)
    OBVIOUS
  <2>6. Reach(Roots(p), deps \cup F) = Reach(Roots(p), deps)
    <3> HIDE DEF F
    <3> QED
      BY <2>2, <2>4, <2>5, LineageRegistered, ReachExtend
  <2>7. Lineage(p)' = Reach(Roots(p)', deps')
    BY DEF Lineage, Reach, Roots, ClosedUnder
  <2> QED
    BY <2>1, <2>3, <2>6, <2>7 DEF Lineage
<1>4. CASE \E s \in Sessions, k \in Keys : withdraw(s, k)
  <2> PICK s \in Sessions, k \in Keys : withdraw(s, k)
    BY <1>4
  <2> DEFINE q == owner[s]
  <2>1. PICK n \in Nat : receipt' = [receipt EXCEPT ![q] = [subject |-> s, count |-> n]]
    BY WithdrawEffect
  <2>2. /\ q \in Participants
        /\ receipt[q] = None
        /\ tasks' = tasks \cup ({s} \X Lineage(q))
        /\ withdrawn' = withdrawn \cup {q}
        /\ status' = [a \in Artifacts |-> IF a \in Lineage(q) THEN "INVALIDATED" ELSE status[a]]
        /\ UNCHANGED <<owner, home, deps>>
    BY WithdrawEffect
  <2>3. /\ state' = [x \in Sessions |-> IF owner[x] = q THEN "WITHDRAWN" ELSE state[x]]
        /\ blocked' = [x \in Sessions |-> owner[x] = q \/ blocked[x]]
    BY DEF withdraw
  <2>4. [subject |-> s, count |-> n] # None
    BY DEF Responses
  <2>5. receipt \in [Participants -> Responses \cup {None}] /\ withdrawn \subseteq Participants
    BY DEF TypeOK
  <2>6. \A a \in Artifacts : status'[a] # None <=> status[a] # None
    BY <2>2, LineageRegistered
  <2>7. ASSUME NEW p \in Participants
        PROVE  Lineage(p)' = Lineage(p) /\ OwnSessions(p)' = OwnSessions(p)
    BY <2>2, <2>6 DEF Lineage, Reach, Roots, ClosedUnder, OwnSessions
  <2> HIDE DEF q
  <2>8. /\ receipt'[q] # None
        /\ \A x \in OwnSessions(q) : state'[x] = "WITHDRAWN" /\ blocked'[x]
        /\ \A a \in Lineage(q) : status'[a] = "INVALIDATED"
        /\ {a \in Artifacts : <<receipt'[q].subject, a>> \in tasks'} = Lineage(q)
    <3>1. receipt'[q] # None /\ receipt'[q].subject = s
      BY <2>1, <2>2, <2>4, <2>5
    <3>2. \A a : <<s, a>> \notin tasks
      BY <2>2 DEF References, q
    <3>3. Lineage(q) \subseteq Artifacts
      BY <2>2, LineageRegistered
    <3>4. {a \in Artifacts : <<s, a>> \in tasks'} = Lineage(q)
      BY <2>2, <3>2, <3>3
    <3>5. \A x \in OwnSessions(q) : state'[x] = "WITHDRAWN" /\ blocked'[x]
      BY <2>3 DEF OwnSessions
    <3> QED
      BY <2>2, <3>1, <3>3, <3>4, <3>5
  <2>9. ASSUME NEW p \in withdrawn, p # q
        PROVE  /\ receipt'[p] # None
               /\ \A x \in OwnSessions(p) : state'[x] = "WITHDRAWN" /\ blocked'[x]
               /\ \A a \in Lineage(p) : status'[a] = "INVALIDATED"
               /\ {a \in Artifacts : <<receipt'[p].subject, a>> \in tasks'} = Lineage(p)
    <3>1. receipt'[p] = receipt[p] /\ receipt[p] # None
      BY <2>1, <2>2, <2>5, <2>9
    <3>2. receipt[p].subject # s
      BY <2>5, <2>9, <3>1 DEF References, q
    <3>3. \A a : <<receipt[p].subject, a>> \in tasks' <=> <<receipt[p].subject, a>> \in tasks
      BY <2>2, <3>2
    <3>4. Lineage(p) \subseteq Artifacts
      BY <2>5, LineageRegistered
    <3>5. \A a \in Lineage(p) : status'[a] = "INVALIDATED"
      BY <2>2, <3>4
    <3>6. \A x \in OwnSessions(p) : state'[x] = "WITHDRAWN" /\ blocked'[x]
      BY <2>3 DEF OwnSessions
    <3> QED
      BY <3>1, <3>3, <3>5, <3>6
  <2> QED
    BY <2>2, <2>5, <2>7, <2>8, <2>9
<1>5. CASE recover_commit
  <2>1. UNCHANGED <<withdrawn, owner, status, home, deps, receipt, tasks>>
    BY <1>5 DEF recover_commit, lineage
  <2>2. \A x \in Sessions : /\ state[x] = "WITHDRAWN" => state'[x] = "WITHDRAWN"
                            /\ blocked[x] => blocked'[x]
    BY <1>5 DEF recover_commit, recovered_state, TypeOK
  <2>3. \A p \in withdrawn : Lineage(p)' = Lineage(p) /\ OwnSessions(p)' = OwnSessions(p)
    BY <2>1, LineageUnchanged DEF TypeOK
  <2>4. ASSUME NEW p \in withdrawn, NEW x \in OwnSessions(p)
        PROVE  state'[x] = "WITHDRAWN" /\ blocked'[x]
    <3>1. x \in Sessions
      BY DEF OwnSessions
    <3>2. state[x] = "WITHDRAWN" /\ blocked[x]
      BY Zenon
    <3> QED
      BY <2>2, <3>1, <3>2
  <2> QED
    BY <2>1, <2>3, <2>4
<1>6. CASE \E s \in Sessions, r \in ReceiptIds, k \in Keys : confirm_operator_consent(s, r, k)
  <2>1. UNCHANGED <<withdrawn, owner, blocked, status, home, deps, receipt, tasks>>
    BY <1>6 DEF confirm_operator_consent, lineage
  <2>2. \A x \in Sessions : state[x] = "WITHDRAWN" => state'[x] = "WITHDRAWN"
    BY <1>6 DEF confirm_operator_consent, TypeOK
  <2>3. \A p \in withdrawn : Lineage(p)' = Lineage(p) /\ OwnSessions(p)' = OwnSessions(p)
    BY <2>1, LineageUnchanged DEF TypeOK
  <2> QED
    BY <2>1, <2>2, <2>3 DEF OwnSessions
<1>7. CASE UNCHANGED <<withdrawn, owner, state, blocked, status, home, deps, receipt, tasks>>
  <2>1. \A p \in withdrawn : Lineage(p)' = Lineage(p) /\ OwnSessions(p)' = OwnSessions(p)
    BY <1>7, LineageUnchanged DEF TypeOK
  <2> QED
    BY <1>7, <2>1
<1> QED
  BY <1>1, <1>2, <1>3, <1>4, <1>5, <1>6, <1>7 DEF Next, Restart, vars, rows, lineage,
     create_study, create_participant, withdraw_again, create_write_intent,
     WritePartial, Crash, Start, recover_rename, Serve

\* Participant-wide withdrawal is complete in every reachable state, not only
\* when it is carried out.
THEOREM WithdrawalInvariant == Spec => []WithdrawalComplete
<1>1. Init => WithdrawalComplete
  BY DEF Init, WithdrawalComplete
<1> QED
  BY <1>1, TypeCorrect, TypeStep, ReferencesInvariant, WithdrawalStep, PTL DEF Spec

------------------------------------------------------------------------------
(* What no step undoes, and what recovery leaves. *)

\* No step takes back a withdrawal, an invalidation, a block, a receipt or a task.
LEMMA TerminalStep ==
  ASSUME TypeOK, [Next]_vars
  PROVE  /\ withdrawn \subseteq withdrawn'
         /\ \A s \in Sessions : (state[s] = "WITHDRAWN" => state'[s] = "WITHDRAWN")
                             /\ (blocked[s] => blocked'[s])
         /\ \A a \in Artifacts : status[a] = "INVALIDATED" => status'[a] = "INVALIDATED"
         /\ \A p \in Participants : receipt[p] # None => receipt'[p] = receipt[p]
         /\ tasks \subseteq tasks'
<1> USE NoneAssumption DEF TypeOK
<1>1. CASE \E s \in Sessions, r \in ReceiptIds, k \in Keys : confirm_operator_consent(s, r, k)
  BY <1>1 DEF confirm_operator_consent, lineage
<1>2. CASE \E a \in Artifacts, s \in Sessions, parents \in SUBSET Artifacts :
             register_artifact(a, s, parents)
  BY <1>2 DEF register_artifact, rows
<1>3. CASE \E s \in Sessions, k \in Keys : withdraw(s, k)
  <2> PICK s \in Sessions, k \in Keys : withdraw(s, k)
    BY <1>3
  <2>1. \A p \in Participants : receipt[p] # None => receipt'[p] = receipt[p]
    BY WithdrawEffect
  <2>2. /\ \A x \in Sessions : (state[x] = "WITHDRAWN" => state'[x] = "WITHDRAWN")
        /\ \A x \in Sessions : (blocked[x] => blocked'[x])
    BY DEF withdraw
  <2> QED
    BY <2>1, <2>2, WithdrawEffect
<1>4. CASE recover_commit
  BY <1>4 DEF recover_commit, recovered_state, lineage
<1>5. CASE UNCHANGED <<withdrawn, state, blocked, status, receipt, tasks>>
  BY <1>5
<1> QED
  BY <1>1, <1>2, <1>3, <1>4, <1>5 DEF Next, Restart, vars, rows, lineage,
     create_study, create_participant, create_research_session, add_dependency,
     withdraw_again, create_write_intent, WritePartial, Crash, Start, recover_rename, Serve

\* Withdrawal is terminal in every behaviour, crashes and recoveries included.
THEOREM TerminalWithdrawal == Spec => WithdrawalIsTerminal
BY TypeCorrect, TerminalStep, PTL DEF Spec, WithdrawalIsTerminal

\* The strengthening of QuarantineBlocks: the row recovery is about to commit has
\* had its file moved or refused, and no intent names a file that was never written.
RecoveryInv ==
  /\ \A i \in Intents : intent[i] # None => file[intent[i].file] # "absent"
  /\ current # None => file[intent[current].file] \in {"quarantined", "left"}
  /\ current # None => phase = "recovering"

\* RecoveryInv and QuarantineBlocks are inductive together.
LEMMA RecoveryStep ==
  ASSUME TypeOK, RecoveryInv, QuarantineBlocks, TypeOK', [Next]_vars
  PROVE  RecoveryInv' /\ QuarantineBlocks'
<1> USE NoneAssumption DEF RecoveryInv, QuarantineBlocks
<1>0. \A i \in Intents : intent[i] # None => intent[i].file \in Files /\ intent[i].session \in Sessions
  BY DEF TypeOK, IntentRows
<1>1. CASE \E s \in Sessions, r \in ReceiptIds, k \in Keys : confirm_operator_consent(s, r, k)
  <2>1. UNCHANGED <<blocked, intent, file, phase, current>>
    BY <1>1 DEF confirm_operator_consent, recovery
  <2>2. \A s \in Sessions : state[s] \in {"FAILED", "WITHDRAWN"} => state'[s] = state[s]
    BY <1>1 DEF confirm_operator_consent, TypeOK
  <2> QED
    BY <1>0, <2>1, <2>2
<1>2. CASE \E s \in Sessions, k \in Keys : withdraw(s, k)
  <2> PICK s \in Sessions, k \in Keys : withdraw(s, k)
    BY <1>2
  <2>1. UNCHANGED <<intent, file, phase, current>>
    BY DEF withdraw, recovery
  <2>2. \A x \in Sessions : state[x] \in {"FAILED", "WITHDRAWN"} => state'[x] \in {"FAILED", "WITHDRAWN"}
    BY DEF withdraw
  <2>3. \A x \in Sessions : blocked[x] => blocked'[x]
    BY DEF withdraw
  <2> QED
    BY <1>0, <2>1, <2>2, <2>3
<1>3. CASE \E i \in Intents, s \in Sessions, f \in Files : create_write_intent(i, s, f)
  <2> PICK i \in Intents, s \in Sessions, f \in Files : create_write_intent(i, s, f)
    BY <1>3
  <2>1. /\ file[f] \in {"staged", "left"}
        /\ intent[i] = None
        /\ intent' = [intent EXCEPT ![i] = [status |-> "PENDING", session |-> s, file |-> f]]
        /\ phase = "serving"
        /\ UNCHANGED <<state, blocked, file, phase, current>>
    BY DEF create_write_intent, InStaging, rows, recovery
  <2>2. \A j \in Intents : j # i => intent'[j] = intent[j]
    BY <2>1 DEF TypeOK
  <2>3. intent'[i] = [status |-> "PENDING", session |-> s, file |-> f]
    BY <2>1 DEF TypeOK
  <2> QED
    BY <1>0, <2>1, <2>2, <2>3
<1>4. CASE \E f \in Files : WritePartial(f)
  <2> PICK f \in Files : WritePartial(f)
    BY <1>4
  <2>1. /\ UNCHANGED <<state, blocked, intent, phase, current>>
        /\ file' \in [Files -> {"absent", "staged", "left", "quarantined"}]
        /\ \A g \in Files : file[g] # "absent" => file'[g] = file[g]
    BY DEF WritePartial, rows, recovery, TypeOK
  <2>2. current # None => current \in Intents /\ intent[current] # None
    BY DEF TypeOK, Pending
  <2> QED
    BY <1>0, <2>1, <2>2
<1>5. CASE Crash
  BY <1>5 DEF Crash, rows
<1>6. CASE Start
  BY <1>6 DEF Start, rows, TypeOK
<1>7. CASE \E i \in Intents : recover_rename(i)
  <2> PICK i \in Intents : recover_rename(i)
    BY <1>7
  <2> DEFINE f == intent[i].file
  <2>1. /\ i \in Pending
        /\ phase = "recovering"
        /\ current' = i
        /\ UNCHANGED <<state, blocked, intent, phase>>
    BY DEF recover_rename, rows, TypeOK
  <2>2. intent[i] # None /\ f \in Files
    BY <1>0, <2>1 DEF Pending
  <2>3. PICK now : /\ now \in IF InStaging(f) THEN {"quarantined", "left"} ELSE {file[f]}
                   /\ file' = [file EXCEPT ![f] = now]
    BY DEF recover_rename
  <2>4. file[f] # "absent"
    BY <2>2
  <2>5. now \in {"quarantined", "left"}
    BY <2>2, <2>3, <2>4 DEF TypeOK, InStaging
  <2>6. /\ file'[f] \in {"quarantined", "left"}
        /\ \A g \in Files : g # f => file'[g] = file[g]
    BY <2>2, <2>3, <2>5 DEF TypeOK
  <2>7. \A g \in Files : /\ (file[g] # "absent" => file'[g] # "absent")
                         /\ (file[g] \in {"quarantined", "left"} =>
                               file'[g] \in {"quarantined", "left"})
    BY <2>6
  <2> HIDE DEF f
  <2>8. \A j \in Intents : intent'[j] = intent[j]
    BY <2>1
  <2>9. file'[intent'[current'].file] \in {"quarantined", "left"}
    BY <2>1, <2>6 DEF f
  <2> QED
    BY <1>0, <2>1, <2>7, <2>8, <2>9
<1>8. CASE recover_commit
  <2>1. /\ current \in Intents
        /\ intent[current] # None
    BY <1>8 DEF recover_commit, TypeOK, Pending
  <2> DEFINE s == intent[current].session
  <2>2. /\ current # None
        /\ intent' = [intent EXCEPT ![current] = Quarantined(intent[current])]
        /\ state' = [state EXCEPT ![s] = recovered_state(s)]
        /\ blocked' = [blocked EXCEPT ![s] = TRUE]
        /\ current' = None
        /\ file' = file
    BY <1>8 DEF recover_commit
  <2>3. /\ intent'[current].session = s
        /\ intent'[current].file = intent[current].file
        /\ \A i \in Intents : i # current => intent'[i] = intent[i]
    BY <2>1, <2>2 DEF TypeOK, Quarantined
  <2>4. s \in Sessions
    BY <1>0, <2>1
  <2>5. /\ state'[s] \in {"FAILED", "WITHDRAWN"}
        /\ \A x \in Sessions : state[x] \in {"FAILED", "WITHDRAWN"} => state'[x] \in {"FAILED", "WITHDRAWN"}
    BY <2>2, <2>4 DEF recovered_state, TypeOK
  <2>6. blocked'[s] /\ \A x \in Sessions : blocked[x] => blocked'[x]
    BY <2>2, <2>4 DEF TypeOK
  <2>7. file[intent[current].file] \in {"quarantined", "left"}
    BY <2>2
  <2> HIDE DEF s
  <2> QED
    BY <1>0, <2>1, <2>2, <2>3, <2>5, <2>6, <2>7
<1>9. CASE Serve
  BY <1>9 DEF Serve, rows, TypeOK
<1>10. CASE UNCHANGED <<state, blocked, intent, file, phase, current>>
  BY <1>10
<1> QED
  BY <1>1, <1>2, <1>3, <1>4, <1>5, <1>6, <1>7, <1>8, <1>9, <1>10 DEF Next, Restart, vars, rows,
     recovery, create_study, create_participant, create_research_session, register_artifact,
     add_dependency, withdraw_again

\* However crashes fall between the rename and the commit, and whether the partial
\* could be moved or not, the session of a quarantined intent is blocked, and its file
\* is in quarantine unless a recovery refused to move it.
THEOREM RecoverySafe == Spec => []QuarantineBlocks
<1>1. Init => RecoveryInv /\ QuarantineBlocks
  BY DEF Init, RecoveryInv, QuarantineBlocks
<1> QED
  BY <1>1, TypeCorrect, TypeStep, RecoveryStep, PTL DEF Spec

------------------------------------------------------------------------------
(* Idempotency records: canonical receipts and events counted once. *)

\* The row _mutate stores for a request.
Request(scope, key, payload, response) ==
  [scope |-> scope, key |-> key, payload |-> payload, response |-> response]

\* The strengthening of CanonicalReceipt: a stored withdrawal response belongs to a
\* participant whose receipt exists, so that no later step can change what it equals.
StoredResponses ==
  \A r \in requests : r.scope[1] = "research-withdraw" =>
    /\ r.scope[2] \in Participants
    /\ receipt[r.scope[2]] # None
    /\ r.response = receipt[r.scope[2]]

\* Withdrawals in the count of tasks: adding tasks under one participant's session
\* leaves the tasks of every other participant alone.
CountedTasks ==
  \A p \in Participants : receipt[p] # None =>
    receipt[p].count = Cardinality({t \in tasks : owner[t[1]] = p})

\* Nobody else's artifact is invalidated.
InvalidationsBacked ==
  \A a \in Artifacts : status[a] = "INVALIDATED" =>
    \E p \in withdrawn : receipt[p] # None /\ <<receipt[p].subject, a>> \in tasks

\* What a step does to the idempotency records: nothing, or one row is added and it
\* answers a withdrawal only with the participant's receipt as it stands afterwards.
LEMMA StoredStep ==
  ASSUME TypeOK, StoredResponses, [Next]_vars
  PROVE  StoredResponses'
<1> USE NoneAssumption DEF StoredResponses
<1>1. CASE \E st \in Studies, k \in Keys : create_study(st, k)
  BY <1>1 DEF create_study, mutate, lineage
<1>2. CASE \E st \in Studies, q \in Participants, k \in Keys : create_participant(st, q, k)
  BY <1>2 DEF create_participant, mutate, lineage
<1>3. CASE \E st \in Studies, q \in Participants, s \in Sessions, k \in Keys :
             create_research_session(st, q, s, k)
  BY <1>3 DEF create_research_session, mutate, lineage
<1>4. CASE \E s \in Sessions, r \in ReceiptIds, k \in Keys : confirm_operator_consent(s, r, k)
  BY <1>4 DEF confirm_operator_consent, mutate, lineage
<1>5. CASE \E s \in Sessions, k \in Keys : withdraw(s, k)
  <2> PICK s \in Sessions, k \in Keys : withdraw(s, k)
    BY <1>5
  <2> DEFINE q == owner[s]
  <2>1. PICK c : /\ receipt' = [receipt EXCEPT ![q] = [subject |-> s, count |-> c]]
                 /\ mutate(<<"research-withdraw", q>>, k, <<q>>, [subject |-> s, count |-> c])
    BY DEF withdraw
  <2>2. q \in Participants /\ receipt[q] = None /\ \E n \in Nat : receipt'[q] = [subject |-> s, count |-> n]
    BY WithdrawEffect DEF TypeOK
  <2>3. receipt'[q] = [subject |-> s, count |-> c] /\ receipt'[q] # None
    BY <2>1, <2>2 DEF TypeOK, Responses
  <2>4. \A x \in Participants : x # q => receipt'[x] = receipt[x]
    BY <2>1, <2>2 DEF TypeOK
  <2>5. requests' = requests \cup
          {Request(<<"research-withdraw", q>>, k, <<q>>, receipt'[q])}
    BY <2>1, <2>3 DEF mutate, Request
  <2> HIDE DEF q
  <2> QED
    BY <2>2, <2>3, <2>4, <2>5 DEF Request
<1>6. CASE \E s \in Sessions, k \in Keys : withdraw_again(s, k)
  BY <1>6 DEF withdraw_again, mutate, lineage, TypeOK
<1>7. CASE UNCHANGED <<requests, receipt>>
  BY <1>7
<1> QED
  BY <1>1, <1>2, <1>3, <1>4, <1>5, <1>6, <1>7 DEF Next, Restart, vars, lineage, register_artifact,
     add_dependency, create_write_intent, WritePartial, Crash, Start, recover_rename,
     recover_commit, Serve

\* The count in a receipt stays the number of the participant's tasks.
LEMMA CountedStep ==
  ASSUME TypeOK, References, CountedTasks, [Next]_vars
  PROVE  CountedTasks'
<1> USE NoneAssumption DEF CountedTasks
<1>1. CASE \E st \in Studies, q \in Participants, s \in Sessions, k \in Keys :
             create_research_session(st, q, s, k)
  <2> PICK st \in Studies, q \in Participants, s \in Sessions, k \in Keys :
           create_research_session(st, q, s, k)
    BY <1>1
  <2>1. /\ owner[s] = None
        /\ owner' = [owner EXCEPT ![s] = q]
        /\ UNCHANGED <<receipt, tasks>>
    BY DEF create_research_session, lineage
  <2>2. \A t \in tasks : t[1] \in Sessions /\ t[1] # s
    BY <2>1 DEF TypeOK, References
  <2>3. \A t \in tasks : owner'[t[1]] = owner[t[1]]
    BY <2>1, <2>2 DEF TypeOK
  <2>4. ASSUME NEW p \in Participants
        PROVE  {t \in tasks' : owner'[t[1]] = p} = {t \in tasks : owner[t[1]] = p}
    BY <2>1, <2>3
  <2> QED
    BY <2>1, <2>4
<1>2. CASE \E s \in Sessions, k \in Keys : withdraw(s, k)
  <2> PICK s \in Sessions, k \in Keys : withdraw(s, k)
    BY <1>2
  <2> DEFINE q == owner[s]
             Q == {t \in tasks \cup new_tasks(s, q) : owner[t[1]] = q}
  <2>1. /\ q \in Participants
        /\ owner' = owner
        /\ tasks' = tasks \cup new_tasks(s, q)
    BY WithdrawEffect DEF new_tasks
  <2>2. receipt' = [receipt EXCEPT ![q] = [subject |-> s, count |-> Cardinality(Q)]]
    BY DEF withdraw
  <2>3. receipt'[q].count = Cardinality({t \in tasks' : owner'[t[1]] = q})
    BY <2>1, <2>2 DEF TypeOK
  <2>4. ASSUME NEW p \in Participants, p # q
        PROVE  /\ receipt'[p] = receipt[p]
               /\ {t \in tasks' : owner'[t[1]] = p} = {t \in tasks : owner[t[1]] = p}
    <3>1. receipt'[p] = receipt[p]
      BY <2>1, <2>2, <2>4 DEF TypeOK
    <3>2. \A t \in new_tasks(s, q) : owner[t[1]] = q
      BY DEF new_tasks
    <3> QED
      BY <2>1, <2>4, <3>1, <3>2
  <2> HIDE DEF q, Q
  <2> QED
    BY <2>3, <2>4
<1>3. CASE UNCHANGED <<receipt, tasks, owner>>
  BY <1>3
<1> QED
  BY <1>1, <1>2, <1>3 DEF Next, Restart, vars, rows, lineage, create_study, create_participant,
     confirm_operator_consent, register_artifact, add_dependency, withdraw_again,
     create_write_intent, WritePartial, Crash, Start, recover_rename, recover_commit, Serve

\* Only a withdrawal invalidates, and it leaves a task for each artifact it reaches.
LEMMA BackedStep ==
  ASSUME TypeOK, References, InvalidationsBacked, [Next]_vars
  PROVE  InvalidationsBacked'
<1> USE NoneAssumption DEF InvalidationsBacked
<1>1. CASE \E a \in Artifacts, s \in Sessions, parents \in SUBSET Artifacts :
             register_artifact(a, s, parents)
  BY <1>1 DEF register_artifact, rows, TypeOK
<1>2. CASE \E s \in Sessions, k \in Keys : withdraw(s, k)
  <2> PICK s \in Sessions, k \in Keys : withdraw(s, k)
    BY <1>2
  <2> DEFINE q == owner[s]
  <2>1. PICK n \in Nat : receipt' = [receipt EXCEPT ![q] = [subject |-> s, count |-> n]]
    BY WithdrawEffect
  <2>2. /\ q \in Participants
        /\ receipt[q] = None
        /\ tasks' = tasks \cup ({s} \X Lineage(q))
        /\ withdrawn' = withdrawn \cup {q}
        /\ status' = [a \in Artifacts |-> IF a \in Lineage(q) THEN "INVALIDATED" ELSE status[a]]
    BY WithdrawEffect
  <2>3. receipt'[q] # None /\ receipt'[q].subject = s
    BY <2>1, <2>2 DEF TypeOK, Responses
  <2>4. \A p \in Participants : receipt[p] # None => receipt'[p] = receipt[p]
    BY <2>1, <2>2 DEF TypeOK
  <2>5. withdrawn \subseteq Participants
    BY DEF TypeOK
  <2> HIDE DEF q
  <2> SUFFICES ASSUME NEW a \in Artifacts, status'[a] = "INVALIDATED"
               PROVE  \E p \in withdrawn' : receipt'[p] # None /\ <<receipt'[p].subject, a>> \in tasks'
    OBVIOUS
  <2>6. CASE a \in Lineage(q)
    BY <2>2, <2>3, <2>6
  <2>7. CASE a \notin Lineage(q)
    <3>1. status[a] = "INVALIDATED"
      BY <2>2, <2>7
    <3>2. PICK p \in withdrawn : receipt[p] # None /\ <<receipt[p].subject, a>> \in tasks
      BY <3>1
    <3> QED
      BY <2>2, <2>4, <2>5, <3>2
  <2> QED
    BY <2>6, <2>7
<1>3. CASE UNCHANGED <<withdrawn, status, receipt, tasks>>
  BY <1>3
<1> QED
  BY <1>1, <1>2, <1>3 DEF Next, Restart, vars, rows, lineage, create_study, create_participant,
     create_research_session, confirm_operator_consent, add_dependency, withdraw_again,
     create_write_intent, WritePartial, Crash, Start, recover_rename, recover_commit, Serve

\* Every withdrawal response ever stored is the canonical receipt, its count is the
\* participant's tasks, and every invalidated artifact is somebody's task: for any
\* number of keys, sessions and crashes.
THEOREM CanonicalReceiptInvariant == Spec => []CanonicalReceipt
<1>1. Init => StoredResponses /\ CountedTasks /\ InvalidationsBacked
  BY NoneAssumption DEF Init, StoredResponses, CountedTasks, InvalidationsBacked
<1>2. StoredResponses /\ CountedTasks /\ InvalidationsBacked => CanonicalReceipt
  BY DEF StoredResponses, CountedTasks, InvalidationsBacked, CanonicalReceipt
<1> QED
  BY <1>1, <1>2, TypeCorrect, ReferencesInvariant, StoredStep, CountedStep, BackedStep, PTL DEF Spec

\* The subject of a receipt is a session of its participant, so WithdrawalEvents
\* changes for the session of the withdrawal alone.
LEMMA WithdrawalEventsStep ==
  ASSUME TypeOK, References, NEW s \in Sessions, NEW k \in Keys, withdraw(s, k)
  PROVE  /\ WithdrawalEvents(s) = 0
         /\ WithdrawalEvents(s)' = 1
         /\ \A x \in Sessions : x # s => WithdrawalEvents(x)' = WithdrawalEvents(x)
<1> USE NoneAssumption
<1> DEFINE q == owner[s]
<1>1. PICK n \in Nat : receipt' = [receipt EXCEPT ![q] = [subject |-> s, count |-> n]]
  BY WithdrawEffect
<1>2. q \in Participants /\ receipt[q] = None
  BY WithdrawEffect
<1>3. receipt'[q] # None /\ receipt'[q].subject = s
  BY <1>1, <1>2 DEF TypeOK, Responses
<1>4. \A p \in Participants : p # q => receipt'[p] = receipt[p]
  BY <1>1, <1>2 DEF TypeOK
<1>5. ~ \E p \in Participants : receipt[p] # None /\ receipt[p].subject = s
  BY <1>2 DEF References
<1> HIDE DEF q
<1>6. ASSUME NEW x \in Sessions, x # s
      PROVE  (\E p \in Participants : receipt'[p] # None /\ receipt'[p].subject = x)
               <=> (\E p \in Participants : receipt[p] # None /\ receipt[p].subject = x)
  BY <1>2, <1>3, <1>4, <1>6
<1> QED
  BY <1>2, <1>3, <1>5, <1>6 DEF WithdrawalEvents

\* The rows of a scope when one row of another scope is stored, and of its own.
LEMMA ConsentRowsStep ==
  ASSUME IsFiniteSet(requests), NEW scope, NEW key, NEW payload, NEW response,
         mutate(scope, key, payload, response), NEW s
  PROVE  /\ IsFiniteSet(requests')
         /\ Cardinality(ConsentRows(s)) \in Nat
         /\ scope # <<"research-consent", s>> => ConsentRows(s)' = ConsentRows(s)
         /\ scope = <<"research-consent", s>> =>
              Cardinality(ConsentRows(s)') = Cardinality(ConsentRows(s)) + 1
<1> DEFINE row == Request(scope, key, payload, response)
<1>1. requests' = requests \cup {row}
  BY DEF mutate, Request
<1>2. row.scope = scope /\ row.key = key
  BY DEF Request
<1>3. row \notin requests
  BY <1>2 DEF mutate
<1>4. IsFiniteSet(ConsentRows(s)) /\ Cardinality(ConsentRows(s)) \in Nat
  BY FS_Subset, FS_CardinalityType DEF ConsentRows
<1> HIDE DEF row
<1>5. IsFiniteSet(requests')
  BY <1>1, FS_AddElement
<1>6. ASSUME scope # <<"research-consent", s>>
      PROVE  ConsentRows(s)' = ConsentRows(s)
  BY <1>1, <1>2, <1>6 DEF ConsentRows
<1>7. ASSUME scope = <<"research-consent", s>>
      PROVE  Cardinality(ConsentRows(s)') = Cardinality(ConsentRows(s)) + 1
  <2>1. ConsentRows(s)' = ConsentRows(s) \cup {row} /\ row \notin ConsentRows(s)
    BY <1>1, <1>2, <1>3, <1>7 DEF ConsentRows
  <2> QED
    BY <1>4, <2>1, FS_AddElement
<1> QED
  BY <1>4, <1>5, <1>6, <1>7

\* EventsExactlyOnce is inductive together with the finiteness of the records.
LEMMA EventsStep ==
  ASSUME TypeOK, References, IsFiniteSet(requests), EventsExactlyOnce, [Next]_vars
  PROVE  IsFiniteSet(requests') /\ EventsExactlyOnce'
<1> USE DEF EventsExactlyOnce
<1>1. ASSUME NEW scope, NEW key, NEW payload, NEW response,
             mutate(scope, key, payload, response),
             \A s \in Sessions : scope # <<"research-consent", s>>,
             UNCHANGED <<eventSeq, receipt>>
      PROVE  IsFiniteSet(requests') /\ EventsExactlyOnce'
  <2>1. \A s \in Sessions : ConsentRows(s)' = ConsentRows(s)
    BY <1>1, ConsentRowsStep
  <2>2. IsFiniteSet(requests')
    BY <1>1, ConsentRowsStep
  <2> QED
    BY <1>1, <2>1, <2>2 DEF WithdrawalEvents
<1>2. CASE \E st \in Studies, k \in Keys : create_study(st, k)
  <2> PICK st \in Studies, k \in Keys : create_study(st, k)
    BY <1>2
  <2>1. mutate(<<"research-study", None>>, k, <<st>>, st) /\ UNCHANGED <<eventSeq, receipt>>
    BY DEF create_study, lineage
  <2> QED
    BY <1>1, <2>1
<1>3. CASE \E st \in Studies, q \in Participants, k \in Keys : create_participant(st, q, k)
  <2> PICK st \in Studies, q \in Participants, k \in Keys : create_participant(st, q, k)
    BY <1>3
  <2>1. mutate(<<"research-participant", None>>, k, <<st>>, q) /\ UNCHANGED <<eventSeq, receipt>>
    BY DEF create_participant, lineage
  <2> QED
    BY <1>1, <2>1
<1>4. CASE \E st \in Studies, q \in Participants, s \in Sessions, k \in Keys :
             create_research_session(st, q, s, k)
  <2> PICK st \in Studies, q \in Participants, s \in Sessions, k \in Keys :
           create_research_session(st, q, s, k)
    BY <1>4
  <2>1. mutate(<<"research-session", None>>, k, <<st, q>>, s) /\ UNCHANGED <<eventSeq, receipt>>
    BY DEF create_research_session, lineage
  <2> QED
    BY <1>1, <2>1
<1>5. CASE \E s \in Sessions, k \in Keys : withdraw_again(s, k)
  <2> PICK s \in Sessions, k \in Keys : withdraw_again(s, k)
    BY <1>5
  <2>1. /\ mutate(<<"research-withdraw", owner[s]>>, k, <<owner[s]>>, receipt[owner[s]])
        /\ UNCHANGED <<eventSeq, receipt>>
    BY DEF withdraw_again, rows, lineage
  <2> QED
    BY <1>1, <2>1
<1>6. CASE \E s \in Sessions, r \in ReceiptIds, k \in Keys : confirm_operator_consent(s, r, k)
  <2> PICK s \in Sessions, r \in ReceiptIds, k \in Keys : confirm_operator_consent(s, r, k)
    BY <1>6
  <2>1. /\ mutate(<<"research-consent", s>>, k, <<r>>, s)
        /\ eventSeq' = [eventSeq EXCEPT ![s] = @ + 1]
        /\ receipt' = receipt
    BY DEF confirm_operator_consent, lineage
  <2>2. /\ IsFiniteSet(requests')
        /\ Cardinality(ConsentRows(s)) \in Nat
        /\ Cardinality(ConsentRows(s)') = Cardinality(ConsentRows(s)) + 1
        /\ \A x \in Sessions : x # s => ConsentRows(x)' = ConsentRows(x)
    BY <2>1, ConsentRowsStep
  <2>3. \A x \in Sessions : WithdrawalEvents(x)' = WithdrawalEvents(x) /\ WithdrawalEvents(x) \in Nat
    BY <2>1 DEF WithdrawalEvents
  <2>4. eventSeq'[s] = eventSeq[s] + 1 /\ \A x \in Sessions : x # s => eventSeq'[x] = eventSeq[x]
    BY <2>1 DEF TypeOK
  <2> QED
    BY <2>2, <2>3, <2>4
<1>7. CASE \E s \in Sessions, k \in Keys : withdraw(s, k)
  <2> PICK s \in Sessions, k \in Keys : withdraw(s, k)
    BY <1>7
  <2>1. PICK c : mutate(<<"research-withdraw", owner[s]>>, k, <<owner[s]>>, c)
    BY DEF withdraw
  <2>2. /\ IsFiniteSet(requests')
        /\ \A x \in Sessions : ConsentRows(x)' = ConsentRows(x) /\ Cardinality(ConsentRows(x)) \in Nat
    BY <2>1, ConsentRowsStep
  <2>3. eventSeq'[s] = eventSeq[s] + 1 /\ \A x \in Sessions : x # s => eventSeq'[x] = eventSeq[x]
    BY DEF withdraw, TypeOK
  <2>4. /\ WithdrawalEvents(s) = 0 /\ WithdrawalEvents(s)' = 1
        /\ \A x \in Sessions : x # s => WithdrawalEvents(x)' = WithdrawalEvents(x)
    BY WithdrawalEventsStep
  <2> QED
    BY <2>2, <2>3, <2>4
<1>8. CASE UNCHANGED <<requests, eventSeq, receipt>>
  BY <1>8 DEF ConsentRows, WithdrawalEvents
<1> QED
  BY <1>2, <1>3, <1>4, <1>5, <1>6, <1>7, <1>8 DEF Next, Restart, vars, rows, lineage,
     register_artifact, add_dependency, create_write_intent, WritePartial, Crash, Start,
     recover_rename, recover_commit, Serve

\* The session log holds one event for each consent that was carried out and one for
\* the withdrawal of its participant, however requests are retried.
THEOREM EventsOnce == Spec => []EventsExactlyOnce
<1> DEFINE Finite == IsFiniteSet(requests)
<1>1. Init => Finite /\ EventsExactlyOnce
  <2> SUFFICES ASSUME Init PROVE Finite /\ EventsExactlyOnce
    OBVIOUS
  <2>1. Finite /\ \A s \in Sessions : ConsentRows(s) = {} /\ WithdrawalEvents(s) = 0
    BY FS_EmptySet DEF Init, ConsentRows, WithdrawalEvents
  <2> QED
    BY <2>1, FS_EmptySet DEF Init, EventsExactlyOnce
<1>2. TypeOK /\ References /\ Finite /\ EventsExactlyOnce /\ [Next]_vars => Finite' /\ EventsExactlyOnce'
  BY EventsStep
<1> HIDE DEF Finite
<1> QED
  BY <1>1, <1>2, TypeCorrect, ReferencesInvariant, PTL DEF Spec

==============================================================================
