------------------------ MODULE ReconciliationProofs ------------------------
(***************************************************************************)
(* Proofs about the artifact store and the withdrawal reconciliation: that *)
(* rows and files agree, that a settled target stays settled, that a run   *)
(* deletes only what it recorded, and that the two together implement      *)
(* WithdrawalPromise.                                                      *)
(***************************************************************************)
EXTENDS Reconciliation, FiniteSetTheorems, NaturalsInduction, WellFoundedInduction, TLAPS

Persisting == {"write", "rename", "guard", "commit"}
Sweeping   == {"partial", "final", "row"}

\* After the withdrawal no session is open and no artifact valid; only then is anything
\* invalidated or a run under way, and persist never overlaps it.
Withdrawal ==
  /\ Withdrawn => /\ \A s \in Sessions : session[s] = "WITHDRAWN"
                  /\ \A a \in Artifacts : status[a] # "VALID"
                  /\ op.kind # "persist"
  /\ (\E a \in Artifacts : status[a] = "INVALIDATED") => Withdrawn

\* What the holder of the root lock is working on.
Holder ==
  /\ op.kind = "persist" => /\ op.artifact \in Artifacts /\ op.step \in Persisting \cup Sweeping
                            /\ intent[op.artifact] = "PENDING"
  /\ op.kind = "recover" => /\ op.step \in {"next"} \cup Sweeping
                            /\ op.rest \subseteq Unsettled
                            /\ op.step # "next" => op.artifact \in Unsettled \ op.rest
  /\ op.kind = "run" => /\ op.step \in {"next", "open", "delete", "absence"}
                        /\ op.step # "next" => op.artifact \in Artifacts \ op.rest

\* The rows of an artifact, its final file, and where its bytes may lie.
Kept(a) ==
  /\ status[a] # None <=> intent[a] = "SEALED"
  /\ a \notin touched =>
       /\ status[a] = "VALID" => final[a] = "original"
       /\ status[a] = None /\ final[a] # "absent" => intent[a] \in {"PENDING", "FAILED"}
       /\ At("persist", a, "guard") \/ At("persist", a, "commit") => final[a] = "original"
       /\ At("recover", a, "row") \/ (At("persist", a, "row") /\ op.moved) => final[a] = "absent"
  /\ intent[a] = None => final[a] \notin Bytes
  /\ \/ intent[a] \in {None, "SEALED"}
     \/ At("persist", a, "write") \/ At("persist", a, "guard") \/ At("persist", a, "commit")
     => partial[a] \notin Bytes
  /\ intent[a] \in {None, "SEALED"} \/ (\E step \in Persisting : At("persist", a, step)) =>
       \A place \in Places : quarantine[<<a, place>>] \notin Bytes

StoreInv == StoreTypeOK /\ Withdrawal /\ Holder /\ \A a \in Artifacts : Kept(a)

\* Targets exist from the withdrawal on; those of the run under way are IN_PROGRESS, and a
\* verified deletion left nothing at the leaf.
InHand == op.rest \cup (IF op.step = "next" THEN {} ELSE {op.artifact})
TargetsSound ==
  /\ copyOf \in [Copies -> Artifacts \cup {None}]
  /\ target \in [Targets -> Rows \cup {None}]
  /\ \A t \in Targets : target[t] # None => Withdrawn
  /\ op.kind = "run" => Withdrawn /\ \A a \in InHand : target[a] # None /\ target[a].state = "IN_PROGRESS"
  /\ \A a \in Artifacts : target[a] # None /\ target[a].state = "LOCAL_DELETION_VERIFIED" => final[a] \notin Bytes
  /\ Withdrawn => \A c \in Copies : copyOf[c] # None => target[c] # None

RecInv == StoreInv /\ TargetsSound

-----------------------------------------------------------------------------
\* The root lock when nobody holds it.
LEMMA IdleOp == Idle \in Ops /\ Idle.kind = "idle" /\ Idle.rest = {} /\ Idle.artifact = None
BY DEF Idle, Ops

\* An artifact whose rows and files a step leaves alone, and which is not the one in hand,
\* or is in hand at the same step, is as well kept as before.
LEMMA KeptFrame ==
  ASSUME NEW b \in Artifacts, Kept(b), touched \subseteq touched',
         intent'[b] = intent[b], status'[b] = status[b], partial'[b] = partial[b], final'[b] = final[b],
         \A place \in Places : quarantine'[<<b, place>>] = quarantine[<<b, place>>],
         \A kind \in {"persist", "recover"}, step \in Persisting \cup Sweeping :
           At(kind, b, step)' => At(kind, b, step) /\ (op'.moved = op.moved)
  PROVE  Kept(b)'
<1>1. /\ {"write", "guard", "commit", "row"} \subseteq Persisting \cup Sweeping
      /\ Persisting \subseteq Persisting \cup Sweeping
  BY DEF Persisting, Sweeping
<1>2. (status[b] # None <=> intent[b] = "SEALED")'
  BY DEF Kept
<1>3. b \notin touched' =>
       /\ status'[b] = "VALID" => final'[b] = "original"
       /\ status'[b] = None /\ final'[b] # "absent" => intent'[b] \in {"PENDING", "FAILED"}
       /\ (At("persist", b, "guard") \/ At("persist", b, "commit"))' => final'[b] = "original"
       /\ At("recover", b, "row")' \/ (At("persist", b, "row")' /\ op'.moved) => final'[b] = "absent"
  BY <1>1 DEF Kept
<1>4. intent'[b] = None => final'[b] \notin Bytes
  BY DEF Kept
<1>5. \/ intent'[b] \in {None, "SEALED"}
      \/ At("persist", b, "write")' \/ At("persist", b, "guard")' \/ At("persist", b, "commit")'
      => partial'[b] \notin Bytes
  BY <1>1 DEF Kept
<1>6. intent'[b] \in {None, "SEALED"} \/ (\E step \in Persisting : At("persist", b, step)') =>
       \A place \in Places : quarantine'[<<b, place>>] \notin Bytes
  BY <1>1 DEF Kept
<1> QED
  BY <1>2, <1>3, <1>4, <1>5, <1>6 DEF Kept

\* The same for all artifacts but one, when the step works on that one.
LEMMA KeptOthers ==
  ASSUME NEW a \in Artifacts, \A b \in Artifacts : Kept(b), touched \subseteq touched',
         \A b \in Artifacts \ {a} : /\ intent'[b] = intent[b] /\ status'[b] = status[b]
                                    /\ partial'[b] = partial[b] /\ final'[b] = final[b]
                                    /\ \A place \in Places : quarantine'[<<b, place>>] = quarantine[<<b, place>>],
         op'.kind \in {"persist", "recover"} => op'.artifact \in {a, None},
         Kept(a)'
  PROVE  \A b \in Artifacts : Kept(b)'
<1> SUFFICES ASSUME NEW b \in Artifacts, b # a PROVE Kept(b)'
  OBVIOUS
<1>1. \A kind \in {"persist", "recover"}, step \in Persisting \cup Sweeping : ~ At(kind, b, step)'
  BY StoreBounds DEF At
<1> QED
  BY <1>1, KeptFrame

\* Nobody has an artifact in hand after the step: rows and files may only be untouched.
LEMMA KeptAll ==
  ASSUME \A b \in Artifacts : Kept(b), UNCHANGED <<intent, status, disk, touched>>,
         \A kind \in {"persist", "recover"}, step \in Persisting \cup Sweeping, b \in Artifacts :
           At(kind, b, step)' => At(kind, b, step) /\ (op'.moved = op.moved)
  PROVE  \A b \in Artifacts : Kept(b)'
<1> SUFFICES ASSUME NEW b \in Artifacts PROVE Kept(b)'
  OBVIOUS
<1>1. UNCHANGED <<intent, status, partial, final, quarantine, touched>>
  BY DEF disk
<1> QED
  BY <1>1, KeptFrame

\* The steps of persist that prepare a file and its row.
LEMMA PersistForward ==
  ASSUME StoreInv, NEW a \in Artifacts,
         \/ \E s \in Sessions : create_intent(a, s)
         \/ write_durable(a) \/ replace(a) \/ open_final_guard(a) \/ commit_sealed(a)
  PROVE  StoreInv' /\ (Withdrawn' <=> Withdrawn)
<1>0. StoreTypeOK /\ Withdrawal /\ Holder /\ Kept(a) /\ op \in Ops
  BY DEF StoreInv, StoreTypeOK
<1>1. ASSUME NEW s \in Sessions, create_intent(a, s)
      PROVE  StoreInv' /\ (Withdrawn' <=> Withdrawn)
  <2>1. /\ up /\ op = Idle /\ intent[a] = None /\ session[s] = "OPEN"
        /\ intent' = [intent EXCEPT ![a] = "PENDING"] /\ home' = [home EXCEPT ![a] = s]
        /\ op' = [Idle EXCEPT !.kind = "persist", !.artifact = a, !.step = "write"]
        /\ UNCHANGED <<session, status, partial, final, quarantine, up, crashes, tampers, touched>>
    BY <1>1 DEF create_intent, require_mutable_retained, disk, world
  <2>2. /\ op'.kind = "persist" /\ op'.artifact = a /\ op'.step = "write" /\ op' \in Ops
    BY <2>1 DEF Idle, Ops
  <2>3. /\ intent'[a] = "PENDING" /\ \A b \in Artifacts \ {a} : intent'[b] = intent[b]
        /\ intent' \in [Artifacts -> IntentStates \cup {None}]
    BY <1>0, <2>1 DEF StoreTypeOK, IntentStates
  <2>4. StoreTypeOK'
    BY <1>0, <2>1, <2>2, <2>3 DEF StoreTypeOK
  <2>5. ~ Withdrawn /\ ~ Withdrawn'
    BY <1>0, <2>1 DEF Withdrawal, Withdrawn
  <2>6. Withdrawal'
    BY <1>0, <2>1, <2>5 DEF Withdrawal
  <2>7. Holder'
    BY <2>2, <2>3 DEF Holder, Persisting
  <2>8. status[a] = None
    BY <1>0, <2>1, StoreNone DEF Kept, IntentStates
  <2>9. Kept(a)'
    BY <1>0, <2>1, <2>2, <2>3, <2>8, StoreNone DEF Kept, At, IntentStates, StatusStates
  <2>10. \A b \in Artifacts : Kept(b)'
    BY <1>0, <2>1, <2>2, <2>3, <2>9, KeptOthers DEF StoreInv
  <2> QED
    BY <2>4, <2>5, <2>6, <2>7, <2>10 DEF StoreInv
<1>a. ASSUME op.kind = "persist", op.artifact = a
      PROVE  intent[a] = "PENDING" /\ status[a] = None /\ ~ Withdrawn
  BY <1>0, <1>a DEF Holder, Kept, Withdrawal
<1>2. CASE write_durable(a)
  <2>1. PICK content \in {"torn", "original"} :
          /\ op.kind = "persist" /\ op.artifact = a /\ op.step = "write"
          /\ partial' = [partial EXCEPT ![a] = content] /\ op' = [op EXCEPT !.step = "rename"]
          /\ UNCHANGED <<session, intent, home, status, final, quarantine, up, crashes, tampers, touched>>
    BY <1>2 DEF write_durable, At, Goto, rows, world
  <2>2. op'.kind = "persist" /\ op'.artifact = a /\ op'.step = "rename" /\ op' \in Ops
    BY <1>0, <2>1 DEF Ops
  <2>3. /\ \A b \in Artifacts \ {a} : partial'[b] = partial[b]
        /\ partial' \in [Artifacts -> {"absent", "torn", "original"}]
    BY <1>0, <2>1 DEF StoreTypeOK
  <2>4. StoreTypeOK'
    BY <1>0, <2>1, <2>2, <2>3 DEF StoreTypeOK
  <2>5. Withdrawn' <=> Withdrawn
    BY <2>1 DEF Withdrawn
  <2>6. Withdrawal' /\ Holder'
    BY <1>0, <1>a, <2>1, <2>2, <2>5 DEF Withdrawal, Holder, Persisting
  <2>7. Kept(a)'
    <3>1. \A place \in Places : quarantine[<<a, place>>] \notin Bytes
      BY <1>0, <2>1 DEF Kept, At, Persisting
    <3> QED
      BY <1>0, <1>a, <2>1, <2>2, <3>1, StoreNone DEF Kept, At, IntentStates, StatusStates
  <2>8. \A b \in Artifacts : Kept(b)'
    BY <1>0, <2>1, <2>2, <2>3, <2>7, KeptOthers DEF StoreInv
  <2> QED
    BY <2>4, <2>5, <2>6, <2>8 DEF StoreInv
<1>3. CASE replace(a)
  <2>1. /\ op.kind = "persist" /\ op.artifact = a /\ op.step = "rename" /\ partial[a] = "original"
        /\ final' = [final EXCEPT ![a] = "original"] /\ partial' = [partial EXCEPT ![a] = "absent"]
        /\ op' = [op EXCEPT !.step = "guard"]
        /\ UNCHANGED <<session, intent, home, status, quarantine, up, crashes, tampers, touched>>
    BY <1>3 DEF replace, At, Goto, rows, world
  <2>2. op'.kind = "persist" /\ op'.artifact = a /\ op'.step = "guard" /\ op' \in Ops
    BY <1>0, <2>1 DEF Ops
  <2>3. /\ \A b \in Artifacts \ {a} : partial'[b] = partial[b] /\ final'[b] = final[b]
        /\ partial' \in [Artifacts -> {"absent", "torn", "original"}] /\ final' \in [Artifacts -> Contents]
        /\ final'[a] = "original" /\ partial'[a] = "absent"
    BY <1>0, <2>1 DEF StoreTypeOK, Contents
  <2>4. StoreTypeOK'
    BY <1>0, <2>1, <2>2, <2>3 DEF StoreTypeOK
  <2>5. Withdrawn' <=> Withdrawn
    BY <2>1 DEF Withdrawn
  <2>6. Withdrawal' /\ Holder'
    BY <1>0, <1>a, <2>1, <2>2, <2>5 DEF Withdrawal, Holder, Persisting
  <2>7. Kept(a)'
    <3>1. \A place \in Places : quarantine[<<a, place>>] \notin Bytes
      BY <1>0, <2>1 DEF Kept, At, Persisting
    <3> QED
      BY <1>0, <1>a, <2>1, <2>2, <2>3, <3>1, StoreNone DEF Kept, At, IntentStates, StatusStates, Bytes
  <2>8. \A b \in Artifacts : Kept(b)'
    BY <1>0, <2>1, <2>2, <2>3, <2>7, KeptOthers DEF StoreInv
  <2> QED
    BY <2>4, <2>5, <2>6, <2>8 DEF StoreInv
<1>4. CASE open_final_guard(a)
  <2>1. /\ op.kind = "persist" /\ op.artifact = a /\ op.step = "guard"
        /\ op' = [op EXCEPT !.step = "commit"]
        /\ UNCHANGED <<session, intent, home, status, partial, final, quarantine, up, crashes, tampers, touched>>
    BY <1>4 DEF open_final_guard, At, Goto, rows, disk, world
  <2>2. op'.kind = "persist" /\ op'.artifact = a /\ op'.step = "commit" /\ op' \in Ops
    BY <1>0, <2>1 DEF Ops
  <2>4. StoreTypeOK'
    BY <1>0, <2>1, <2>2 DEF StoreTypeOK
  <2>5. Withdrawn' <=> Withdrawn
    BY <2>1 DEF Withdrawn
  <2>6. Withdrawal' /\ Holder'
    BY <1>0, <1>a, <2>1, <2>2, <2>5 DEF Withdrawal, Holder, Persisting
  <2>7. Kept(a)'
    <3>1. \A place \in Places : quarantine[<<a, place>>] \notin Bytes
      BY <1>0, <2>1 DEF Kept, At, Persisting
    <3> QED
      BY <1>0, <1>a, <2>1, <2>2, <3>1, StoreNone DEF Kept, At, IntentStates, StatusStates
  <2>8. \A b \in Artifacts : Kept(b)'
    BY <1>0, <2>1, <2>2, <2>7, KeptOthers DEF StoreInv
  <2> QED
    BY <2>4, <2>5, <2>6, <2>8 DEF StoreInv
<1>5. CASE commit_sealed(a)
  <2>1. /\ op.kind = "persist" /\ op.artifact = a /\ op.step = "commit"
        /\ status' = [status EXCEPT ![a] = "VALID"] /\ intent' = [intent EXCEPT ![a] = "SEALED"]
        /\ op' = Idle
        /\ UNCHANGED <<session, home, partial, final, quarantine, up, crashes, tampers, touched>>
    BY <1>5 DEF commit_sealed, At, disk, world
  <2>3. /\ \A b \in Artifacts \ {a} : status'[b] = status[b] /\ intent'[b] = intent[b]
        /\ status' \in [Artifacts -> StatusStates \cup {None}] /\ intent' \in [Artifacts -> IntentStates \cup {None}]
        /\ status'[a] = "VALID" /\ intent'[a] = "SEALED"
    BY <1>0, <2>1 DEF StoreTypeOK, StatusStates, IntentStates
  <2>4. StoreTypeOK'
    BY <1>0, <2>1, <2>3, IdleOp DEF StoreTypeOK
  <2>5. (Withdrawn' <=> Withdrawn) /\ ~ Withdrawn
    BY <1>a, <2>1 DEF Withdrawn
  <2>6. Withdrawal' /\ Holder'
    BY <1>0, <1>a, <2>1, <2>3, <2>5, IdleOp DEF Withdrawal, Holder
  <2>7. Kept(a)'
    <3>1. \A place \in Places : quarantine[<<a, place>>] \notin Bytes
      BY <1>0, <2>1 DEF Kept, At, Persisting
    <3> QED
      BY <1>0, <1>a, <2>1, <2>3, <3>1, IdleOp, StoreNone DEF Kept, At, IntentStates, StatusStates
  <2>8. \A b \in Artifacts : Kept(b)'
    BY <1>0, <2>1, <2>3, <2>7, IdleOp, KeptOthers DEF StoreInv
  <2> QED
    BY <2>4, <2>5, <2>6, <2>8 DEF StoreInv
<1> QED
  BY <1>1, <1>2, <1>3, <1>4, <1>5

\* A failure of persist, and the row it leaves.
LEMMA PersistFails ==
  ASSUME StoreInv, NEW a \in Artifacts, persist_raises(a) \/ quarantine_raises(a) \/ mark_failed(a)
  PROVE  StoreInv' /\ (Withdrawn' <=> Withdrawn)
<1>0. StoreTypeOK /\ Withdrawal /\ Holder /\ Kept(a) /\ op \in Ops
  BY DEF StoreInv, StoreTypeOK
<1>a. op.kind = "persist" /\ op.artifact = a
  BY DEF persist_raises, quarantine_raises, mark_failed, At
<1>b. intent[a] = "PENDING" /\ status[a] = None /\ ~ Withdrawn
  BY <1>0, <1>a DEF Holder, Kept, Withdrawal
<1>1. CASE persist_raises(a) \/ quarantine_raises(a)
  <2>1. PICK to \in {"partial", "row"}, moved \in BOOLEAN :
          /\ to = "row" => ~ moved
          /\ op' = [op EXCEPT !.step = to, !.moved = moved]
    <3>1. CASE persist_raises(a)
      <4>1. op' = [op EXCEPT !.step = "partial"]
        BY <3>1 DEF persist_raises, Goto
      <4>2. op' = [op EXCEPT !.step = "partial", !.moved = op.moved] /\ op.moved \in BOOLEAN
        BY <1>0, <4>1 DEF Ops
      <4> QED
        BY <4>2
    <3>2. CASE quarantine_raises(a)
      <4>1. op' = [op EXCEPT !.step = "row", !.moved = FALSE]
        BY <3>2 DEF quarantine_raises
      <4> QED
        BY <4>1
    <3> QED
      BY <1>1, <3>1, <3>2
  <2>2. UNCHANGED <<session, intent, home, status, partial, final, quarantine, up, crashes, tampers, touched>>
    BY <1>1 DEF persist_raises, quarantine_raises, rows, disk, world
  <2>3. op'.kind = "persist" /\ op'.artifact = a /\ op'.step = to /\ op'.moved = moved /\ op' \in Ops
    BY <1>0, <1>a, <2>1 DEF Ops
  <2>4. StoreTypeOK'
    BY <1>0, <2>2, <2>3 DEF StoreTypeOK
  <2>5. Withdrawn' <=> Withdrawn
    BY <2>2 DEF Withdrawn
  <2>6. Withdrawal' /\ Holder'
    BY <1>0, <1>b, <2>1, <2>2, <2>3, <2>5 DEF Withdrawal, Holder, Sweeping
  <2>7. Kept(a)'
    BY <1>0, <1>b, <2>1, <2>2, <2>3, StoreNone DEF Kept, At, IntentStates, StatusStates, Persisting
  <2>8. \A b \in Artifacts : Kept(b)'
    BY <1>0, <2>2, <2>3, <2>7, KeptOthers DEF StoreInv
  <2> QED
    BY <2>4, <2>5, <2>6, <2>8 DEF StoreInv
<1>2. CASE mark_failed(a)
  <2>1. PICK result \in {"QUARANTINED", "FAILED", "PENDING"} :
          /\ result = "QUARANTINED" => op.moved
          /\ intent' = [intent EXCEPT ![a] = result]
    BY <1>2 DEF mark_failed
  <2>2. /\ op.step = "row" /\ op' = Idle
        /\ UNCHANGED <<session, home, status, partial, final, quarantine, up, crashes, tampers, touched>>
    BY <1>2 DEF mark_failed, At, disk, world
  <2>3. /\ intent'[a] = result /\ \A b \in Artifacts \ {a} : intent'[b] = intent[b]
        /\ intent' \in [Artifacts -> IntentStates \cup {None}]
    BY <1>0, <2>1 DEF StoreTypeOK, IntentStates
  <2>4. StoreTypeOK'
    BY <1>0, <2>2, <2>3, IdleOp DEF StoreTypeOK
  <2>5. Withdrawn' <=> Withdrawn
    BY <2>2 DEF Withdrawn
  <2>6. Withdrawal' /\ Holder'
    BY <1>0, <1>b, <2>2, <2>5, IdleOp DEF Withdrawal, Holder
  <2>7. Kept(a)'
    BY <1>0, <1>a, <1>b, <2>1, <2>2, <2>3, IdleOp, StoreNone DEF Kept, At, IntentStates, StatusStates
  <2>8. \A b \in Artifacts : Kept(b)'
    BY <1>0, <2>2, <2>3, <2>7, IdleOp, KeptOthers DEF StoreInv
  <2> QED
    BY <2>4, <2>5, <2>6, <2>8 DEF StoreInv
<1> QED
  BY <1>1, <1>2

\* What a move into the quarantine does to the files kept there.
LEMMA QuarantineMoves ==
  ASSUME NEW a \in Artifacts, NEW place \in Places, NEW content \in Contents,
         quarantine \in [Artifacts \X Places -> Contents], quarantine' = Moved(a, place, content)
  PROVE  /\ quarantine' \in [Artifacts \X Places -> Contents]
         /\ \A b \in Artifacts \ {a}, p \in Places : quarantine'[<<b, p>>] = quarantine[<<b, p>>]
         /\ \A p \in Places \ {place} : quarantine'[<<a, p>>] = quarantine[<<a, p>>]
         /\ quarantine'[<<a, place>>] = IF content = "absent" THEN quarantine[<<a, place>>] ELSE content
BY DEF Moved

\* The steps _mark_failed and recover share.
LEMMA QuarantineSteps ==
  ASSUME StoreInv, NEW a \in Artifacts, NEW kind \in {"persist", "recover"},
         quarantine_partial(kind, a) \/ quarantine_final(kind, a)
  PROVE  StoreInv' /\ (Withdrawn' <=> Withdrawn)
<1>0. StoreTypeOK /\ Withdrawal /\ Holder /\ Kept(a) /\ op \in Ops
      /\ partial[a] \in Contents /\ final[a] \in Contents /\ quarantine \in [Artifacts \X Places -> Contents]
  BY DEF StoreInv, StoreTypeOK, Contents
<1>a. op.kind = kind /\ op.artifact = a /\ op.step \in {"partial", "final"}
  BY DEF quarantine_partial, quarantine_final, At
<1>b. intent[a] \in {"PENDING", "FAILED"} /\ status[a] = None /\ (kind = "persist" => intent[a] = "PENDING" /\ ~ Withdrawn)
  BY <1>0, <1>a DEF Holder, Kept, Withdrawal, Sweeping, Unsettled
<1>c. {"partial", "final", "orphan"} = Places
  BY DEF Places
<1>1. CASE quarantine_partial(kind, a)
  <2>1. PICK moved \in BOOLEAN : op' = [op EXCEPT !.step = "final", !.moved = moved]
    BY <1>1 DEF quarantine_partial
  <2>2. /\ quarantine' = Moved(a, "partial", partial[a]) /\ partial' = [partial EXCEPT ![a] = "absent"]
        /\ UNCHANGED <<session, intent, home, status, final, up, crashes, tampers, touched>>
    BY <1>1 DEF quarantine_partial, rows, world
  <2>3. op'.kind = kind /\ op'.artifact = a /\ op'.step = "final" /\ op'.rest = op.rest /\ op' \in Ops
    BY <1>0, <1>a, <2>1 DEF Ops
  <2>4. /\ \A b \in Artifacts \ {a} : partial'[b] = partial[b]
        /\ partial' \in [Artifacts -> {"absent", "torn", "original"}] /\ partial'[a] = "absent"
    BY <1>0, <2>2 DEF StoreTypeOK
  <2>5. /\ quarantine' \in [Artifacts \X Places -> Contents]
        /\ \A b \in Artifacts \ {a}, p \in Places : quarantine'[<<b, p>>] = quarantine[<<b, p>>]
    BY <1>0, <1>c, <2>2, QuarantineMoves
  <2>6. StoreTypeOK'
    BY <1>0, <2>2, <2>3, <2>4, <2>5 DEF StoreTypeOK
  <2>7. Withdrawn' <=> Withdrawn
    BY <2>2 DEF Withdrawn
  <2>8. Withdrawal' /\ Holder'
    BY <1>0, <1>a, <1>b, <2>2, <2>3, <2>7 DEF Withdrawal, Holder, Sweeping, Unsettled
  <2>9. Kept(a)'
    BY <1>0, <1>b, <2>2, <2>3, <2>4, StoreNone DEF Kept, At, IntentStates, StatusStates, Persisting
  <2>10. \A b \in Artifacts : Kept(b)'
    BY <1>0, <2>2, <2>3, <2>4, <2>5, <2>9, KeptOthers DEF StoreInv
  <2> QED
    BY <2>6, <2>7, <2>8, <2>10 DEF StoreInv
<1>2. CASE quarantine_final(kind, a)
  <2>1. PICK moved \in BOOLEAN : op' = [op EXCEPT !.step = "row", !.moved = moved]
    <3>1. op' = [op EXCEPT !.step = "row", !.moved = op.moved \/ final[a] # "absent"]
      BY <1>2 DEF quarantine_final
    <3>2. (op.moved \/ final[a] # "absent") \in BOOLEAN
      BY <1>0 DEF Ops
    <3> QED
      BY <3>1, <3>2
  <2>2. /\ quarantine' = Moved(a, "final", final[a]) /\ final' = [final EXCEPT ![a] = "absent"]
        /\ UNCHANGED <<session, intent, home, status, partial, up, crashes, tampers, touched>>
    BY <1>2 DEF quarantine_final, rows, world
  <2>3. op'.kind = kind /\ op'.artifact = a /\ op'.step = "row" /\ op'.rest = op.rest /\ op' \in Ops
    BY <1>0, <1>a, <2>1 DEF Ops
  <2>4. /\ \A b \in Artifacts \ {a} : final'[b] = final[b]
        /\ final' \in [Artifacts -> Contents] /\ final'[a] = "absent"
    BY <1>0, <2>2 DEF StoreTypeOK, Contents
  <2>5. /\ quarantine' \in [Artifacts \X Places -> Contents]
        /\ \A b \in Artifacts \ {a}, p \in Places : quarantine'[<<b, p>>] = quarantine[<<b, p>>]
    BY <1>0, <1>c, <2>2, QuarantineMoves
  <2>6. StoreTypeOK'
    BY <1>0, <2>2, <2>3, <2>4, <2>5 DEF StoreTypeOK
  <2>7. Withdrawn' <=> Withdrawn
    BY <2>2 DEF Withdrawn
  <2>8. Withdrawal' /\ Holder'
    BY <1>0, <1>a, <1>b, <2>2, <2>3, <2>7 DEF Withdrawal, Holder, Sweeping, Unsettled
  <2>9. Kept(a)'
    BY <1>0, <1>b, <2>2, <2>3, <2>4, StoreNone DEF Kept, At, IntentStates, StatusStates, Persisting
  <2>10. \A b \in Artifacts : Kept(b)'
    BY <1>0, <2>2, <2>3, <2>4, <2>5, <2>9, KeptOthers DEF StoreInv
  <2> QED
    BY <2>6, <2>7, <2>8, <2>10 DEF StoreInv
<1> QED
  BY <1>1, <1>2

\* recover, after the process died.
LEMMA RecoverSteps ==
  ASSUME StoreInv, Recover \/ recover_end
  PROVE  StoreInv' /\ (Withdrawn' <=> Withdrawn)
<1>0. StoreTypeOK /\ Withdrawal /\ Holder /\ (\A a \in Artifacts : Kept(a)) /\ op \in Ops
      /\ final \in [Artifacts -> Contents] /\ quarantine \in [Artifacts \X Places -> Contents]
  BY DEF StoreInv, StoreTypeOK
<1>1. CASE recover_begin
  <2>1. /\ op' = [Idle EXCEPT !.kind = "recover", !.step = "next", !.rest = Unsettled]
        /\ UNCHANGED <<session, intent, home, status, partial, final, quarantine, up, crashes, tampers, touched>>
    BY <1>1 DEF recover_begin, rows, disk, world
  <2>2. op'.kind = "recover" /\ op'.step = "next" /\ op'.rest = Unsettled /\ op' \in Ops
    BY <2>1 DEF Ops, Idle, Unsettled
  <2>3. Unsettled' = Unsettled
    BY <2>1 DEF Unsettled
  <2>4. Withdrawn' <=> Withdrawn
    BY <2>1 DEF Withdrawn
  <2>5. StoreTypeOK'
    BY <1>0, <2>1, <2>2 DEF StoreTypeOK
  <2>6. Withdrawal' /\ Holder'
    BY <1>0, <2>1, <2>2, <2>3, <2>4 DEF Withdrawal, Holder
  <2>7. \A b \in Artifacts : Kept(b)'
    BY <1>0, <2>1, <2>2, KeptAll DEF disk, At, Persisting, Sweeping
  <2> QED
    BY <2>4, <2>5, <2>6, <2>7 DEF StoreInv
<1>2. ASSUME NEW a \in Artifacts, recover_next(a) PROVE StoreInv' /\ (Withdrawn' <=> Withdrawn)
  <2>1. /\ op.kind = "recover" /\ op.step = "next" /\ a \in op.rest
        /\ op' = [op EXCEPT !.artifact = a, !.step = "partial", !.rest = op.rest \ {a}]
        /\ UNCHANGED <<session, intent, home, status, partial, final, quarantine, up, crashes, tampers, touched>>
    BY <1>2 DEF recover_next, rows, disk, world
  <2>2. /\ op'.kind = "recover" /\ op'.step = "partial" /\ op'.artifact = a /\ op'.rest = op.rest \ {a} /\ op' \in Ops
    BY <1>0, <2>1 DEF Ops
  <2>3. Unsettled' = Unsettled
    BY <2>1 DEF Unsettled
  <2>4. Withdrawn' <=> Withdrawn
    BY <2>1 DEF Withdrawn
  <2>5. StoreTypeOK'
    BY <1>0, <2>1, <2>2 DEF StoreTypeOK
  <2>6. Withdrawal' /\ Holder'
    BY <1>0, <2>1, <2>2, <2>3, <2>4 DEF Withdrawal, Holder, Sweeping
  <2>7. Kept(a)'
    BY <1>0, <2>1, <2>2 DEF Kept, At, Persisting
  <2>8. \A b \in Artifacts : Kept(b)'
    BY <1>0, <2>1, <2>2, <2>7, KeptOthers
  <2> QED
    BY <2>4, <2>5, <2>6, <2>8 DEF StoreInv
<1>3. ASSUME NEW a \in Artifacts, terminalize_recovery(a) PROVE StoreInv' /\ (Withdrawn' <=> Withdrawn)
  <2>1. /\ op.kind = "recover" /\ op.step = "row" /\ op.artifact = a
        /\ intent' = [intent EXCEPT ![a] = "QUARANTINED"]
        /\ op' = [op EXCEPT !.artifact = None, !.step = "next"]
        /\ session' = [session EXCEPT ![home[a]] = IF @ = "WITHDRAWN" THEN @ ELSE "FAILED"]
        /\ UNCHANGED <<home, status, partial, final, quarantine, up, crashes, tampers, touched>>
    BY <1>3 DEF terminalize_recovery, At, disk, world
  <2>2. /\ op'.kind = "recover" /\ op'.step = "next" /\ op'.artifact = None /\ op'.rest = op.rest /\ op' \in Ops
    BY <1>0, <2>1 DEF Ops
  <2>3. a \in Unsettled /\ op.rest \subseteq Unsettled
    BY <1>0, <2>1 DEF Holder
  <2>a. /\ intent'[a] = "QUARANTINED" /\ \A b \in Artifacts \ {a} : intent'[b] = intent[b]
        /\ intent' \in [Artifacts -> IntentStates \cup {None}]
    BY <1>0, <2>1 DEF StoreTypeOK, IntentStates
  <2>b. session' \in [Sessions -> {"OPEN", "FAILED", "WITHDRAWN"}]
        /\ \A s \in Sessions : session'[s] = "WITHDRAWN" <=> session[s] = "WITHDRAWN"
    <3>1. session \in [Sessions -> {"OPEN", "FAILED", "WITHDRAWN"}]
      BY <1>0 DEF StoreTypeOK
    <3>2. PICK v \in {"OPEN", "FAILED", "WITHDRAWN"} :
            /\ session' = [session EXCEPT ![home[a]] = v]
            /\ home[a] \in Sessions => (v = "WITHDRAWN" <=> session[home[a]] = "WITHDRAWN")
      <4>1. CASE session[home[a]] = "WITHDRAWN"
        BY <2>1, <4>1
      <4>2. CASE session[home[a]] # "WITHDRAWN"
        BY <2>1, <4>2
      <4> QED
        BY <4>1, <4>2
    <3> QED
      BY <3>1, <3>2
  <2>4. Withdrawn' <=> Withdrawn
    BY <2>b DEF Withdrawn
  <2>5. StoreTypeOK'
    BY <1>0, <2>1, <2>2, <2>a, <2>b DEF StoreTypeOK
  <2>6. Withdrawal'
    BY <1>0, <2>1, <2>2, <2>4, <2>b DEF Withdrawal
  <2>7. CASE a \notin op.rest
    <3>1. Holder'
      BY <2>2, <2>3, <2>7, <2>a DEF Holder, Unsettled
    <3>2. Kept(a)'
      <4>1. status[a] = None
        BY <1>0, <2>3, StoreNone DEF Kept, Unsettled
      <4>2. a \notin touched => final[a] = "absent"
        BY <1>0, <2>1 DEF Kept, At
      <4> QED
        BY <1>0, <2>1, <2>2, <2>a, <4>1, <4>2, StoreNone DEF Kept, At, IntentStates, Persisting
    <3>3. \A b \in Artifacts : Kept(b)'
      BY <1>0, <2>1, <2>2, <2>a, <3>2, KeptOthers
    <3> QED
      BY <2>4, <2>5, <2>6, <3>1, <3>3 DEF StoreInv
  <2> QED
    BY <1>0, <2>1, <2>7 DEF Holder, Sweeping
<1>4. ASSUME NEW a \in Artifacts, recover_orphan(a) PROVE StoreInv' /\ (Withdrawn' <=> Withdrawn)
  <2>1. /\ op.kind = "recover" /\ op.step = "next" /\ status[a] = None
        /\ quarantine' = Moved(a, "orphan", final[a]) /\ final' = [final EXCEPT ![a] = "absent"]
        /\ UNCHANGED <<session, intent, home, status, partial, up, op, crashes, tampers, touched>>
    BY <1>4 DEF recover_orphan, Orphans, rows, world
  <2>2. /\ \A b \in Artifacts \ {a} : final'[b] = final[b]
        /\ final' \in [Artifacts -> Contents] /\ final'[a] = "absent"
    BY <1>0, <2>1 DEF Contents
  <2>3. "orphan" \in Places /\ final[a] \in Contents
    BY <1>0 DEF Places
  <2>4. /\ quarantine' \in [Artifacts \X Places -> Contents]
        /\ \A b \in Artifacts \ {a}, p \in Places : quarantine'[<<b, p>>] = quarantine[<<b, p>>]
        /\ final[a] \notin Bytes => \A p \in Places : quarantine[<<a, p>>] \notin Bytes => quarantine'[<<a, p>>] \notin Bytes
    BY <1>0, <2>1, <2>3, QuarantineMoves
  <2>5. StoreTypeOK'
    BY <1>0, <2>1, <2>2, <2>4 DEF StoreTypeOK
  <2>6. Withdrawn' <=> Withdrawn
    BY <2>1 DEF Withdrawn
  <2>7. Withdrawal' /\ Holder'
    BY <1>0, <2>1, <2>6 DEF Withdrawal, Holder, Unsettled
  <2>8. Kept(a)'
    <3>1. intent[a] # "SEALED"
      BY <1>0, <2>1 DEF Kept
    <3>2. intent[a] = None => final[a] \notin Bytes /\ partial[a] \notin Bytes /\ \A p \in Places : quarantine[<<a, p>>] \notin Bytes
      BY <1>0 DEF Kept
    <3>3. \A step : ~ At("persist", a, step)' /\ ~ At("recover", a, "row")'
      BY <2>1 DEF At
    <3> QED
      BY <1>0, <2>1, <2>2, <2>4, <3>1, <3>2, <3>3, StoreNone DEF Kept, StatusStates, Bytes
  <2>9. \A b \in Artifacts \ {a} : Kept(b)'
    <3> SUFFICES ASSUME NEW b \in Artifacts \ {a} PROVE Kept(b)'
      OBVIOUS
    <3>1. \A k, step : At(k, b, step)' => At(k, b, step) /\ op'.moved = op.moved
      BY <2>1 DEF At
    <3> QED
      BY <1>0, <2>1, <2>2, <2>4, <3>1, KeptFrame
  <2> QED
    BY <2>5, <2>6, <2>7, <2>8, <2>9 DEF StoreInv
<1>5. CASE recover_end
  <2>1. /\ up' = TRUE /\ op' = Idle
        /\ UNCHANGED <<session, intent, home, status, partial, final, quarantine, crashes, tampers, touched>>
    BY <1>5 DEF recover_end, rows, disk, world
  <2>2. Withdrawn' <=> Withdrawn
    BY <2>1 DEF Withdrawn
  <2>3. StoreTypeOK'
    BY <1>0, <2>1, IdleOp DEF StoreTypeOK
  <2>4. Withdrawal' /\ Holder'
    BY <1>0, <2>1, <2>2, IdleOp DEF Withdrawal, Holder
  <2>5. \A b \in Artifacts : Kept(b)'
    BY <1>0, <2>1, IdleOp, KeptAll DEF disk, At
  <2> QED
    BY <2>2, <2>3, <2>4, <2>5 DEF StoreInv
<1> QED
  BY <1>1, <1>2, <1>3, <1>4, <1>5 DEF Recover

\* Somebody else's hand in the directory, the end of the process, and the withdrawal.
LEMMA OutsideSteps ==
  ASSUME StoreInv, (\E a \in Artifacts : Tamper(a)) \/ Crash
  PROVE  StoreInv' /\ (Withdrawn' <=> Withdrawn)
<1>0. StoreTypeOK /\ Withdrawal /\ Holder /\ (\A a \in Artifacts : Kept(a)) /\ op \in Ops
      /\ final \in [Artifacts -> Contents] /\ touched \subseteq Artifacts
      /\ tampers \in 0 .. MaxTampers /\ crashes \in 0 .. MaxCrashes
  BY DEF StoreInv, StoreTypeOK
<1>1. ASSUME NEW a \in Artifacts, Tamper(a) PROVE StoreInv' /\ (Withdrawn' <=> Withdrawn)
  <2>1. PICK content \in {"absent", "copy", "foreign"} : final' = [final EXCEPT ![a] = content]
    BY <1>1 DEF Tamper
  <2>2. /\ touched' = touched \cup {a} /\ tampers' = tampers + 1 /\ tampers < MaxTampers
        /\ UNCHANGED <<session, intent, home, status, partial, quarantine, up, op, crashes>>
    BY <1>1 DEF Tamper, rows
  <2>3. /\ \A b \in Artifacts \ {a} : final'[b] = final[b]
        /\ final' \in [Artifacts -> Contents] /\ final'[a] \notin Bytes
    BY <1>0, <2>1 DEF Contents, Bytes
  <2>a. tampers' \in 0 .. MaxTampers
    BY <1>0, <2>2, StoreBounds
  <2>4. StoreTypeOK'
    BY <1>0, <2>2, <2>3, <2>a DEF StoreTypeOK
  <2>5. Withdrawn' <=> Withdrawn
    BY <2>2 DEF Withdrawn
  <2>6. Withdrawal' /\ Holder'
    BY <1>0, <2>2, <2>5 DEF Withdrawal, Holder, Unsettled
  <2>7. Kept(a)'
    <3>1. a \in touched' /\ Kept(a)
      BY <1>0, <2>2
    <3>2. \A k, step : At(k, a, step)' <=> At(k, a, step)
      BY <2>2 DEF At
    <3> QED
      BY <2>2, <2>3, <3>1, <3>2 DEF Kept
  <2>8. \A b \in Artifacts \ {a} : Kept(b)'
    <3> SUFFICES ASSUME NEW b \in Artifacts \ {a} PROVE Kept(b)'
      OBVIOUS
    <3>1. \A k, step : At(k, b, step)' => At(k, b, step) /\ op'.moved = op.moved
      BY <2>2 DEF At
    <3> QED
      BY <1>0, <2>2, <2>3, <3>1, KeptFrame
  <2> QED
    BY <2>4, <2>5, <2>6, <2>7, <2>8 DEF StoreInv
<1>2. CASE Crash
  <2>1. /\ crashes < MaxCrashes /\ crashes' = crashes + 1 /\ up' = FALSE /\ op' = Idle
        /\ UNCHANGED <<session, intent, home, status, partial, final, quarantine, tampers, touched>>
    BY <1>2 DEF Crash, rows, disk
  <2>2. Withdrawn' <=> Withdrawn
    BY <2>1 DEF Withdrawn
  <2>a. crashes' \in 0 .. MaxCrashes
    BY <1>0, <2>1, StoreBounds
  <2>3. StoreTypeOK'
    BY <1>0, <2>1, <2>a, IdleOp DEF StoreTypeOK
  <2>4. Withdrawal' /\ Holder'
    BY <1>0, <2>1, <2>2, IdleOp DEF Withdrawal, Holder
  <2>5. \A b \in Artifacts : Kept(b)'
    BY <1>0, <2>1, IdleOp, KeptAll DEF disk, At
  <2> QED
    BY <2>2, <2>3, <2>4, <2>5 DEF StoreInv
<1> QED
  BY <1>1, <1>2

\* The withdrawal invalidates every artifact and closes every session.
LEMMA WithdrawStep ==
  ASSUME StoreInv, withdraw
  PROVE  StoreInv' /\ Withdrawn' /\ ~ Withdrawn
<1>0. StoreTypeOK /\ Withdrawal /\ Holder /\ (\A a \in Artifacts : Kept(a)) /\ op \in Ops
      /\ status \in [Artifacts -> StatusStates \cup {None}]
  BY DEF StoreInv, StoreTypeOK
<1>1. /\ up /\ op = Idle /\ ~ Withdrawn
      /\ session' = [s \in Sessions |-> "WITHDRAWN"]
      /\ status' = [a \in Artifacts |-> IF status[a] = "VALID" THEN "INVALIDATED" ELSE status[a]]
      /\ UNCHANGED <<intent, home, partial, final, quarantine, up, op, crashes, tampers, touched>>
  BY DEF withdraw, disk, world
<1>2. /\ session' \in [Sessions -> {"OPEN", "FAILED", "WITHDRAWN"}]
      /\ status' \in [Artifacts -> StatusStates \cup {None}]
      /\ \A a \in Artifacts : status'[a] # "VALID" /\ (status'[a] = None <=> status[a] = None)
  BY <1>0, <1>1, StoreNone DEF StatusStates
<1>3. Withdrawn'
  BY <1>1, StoreBounds DEF Withdrawn
<1>4. StoreTypeOK'
  BY <1>0, <1>1, <1>2 DEF StoreTypeOK
<1>5. Withdrawal' /\ Holder'
  BY <1>0, <1>1, <1>2, <1>3, IdleOp DEF Withdrawal, Holder
<1>6. ASSUME NEW a \in Artifacts PROVE Kept(a)'
  <2>1. \A k \in {"persist", "recover"} : \A step : ~ At(k, a, step)'
    BY <1>1, IdleOp DEF At
  <2>2. Kept(a)
    BY <1>0
  <2> QED
    BY <1>1, <1>2, <2>1, <2>2 DEF Kept
<1> QED
  BY <1>1, <1>3, <1>4, <1>5, <1>6 DEF StoreInv

\* A step of a run, seen from the store: it removes files of invalidated artifacts only.
LEMMA RunStore ==
  ASSUME StoreInv, UNCHANGED <<session, intent, home, status, partial, quarantine, up, crashes, tampers, touched>>,
         op' \in Ops, op.kind \in {"idle", "run"}, op'.kind \in {"idle", "run"},
         op'.kind = "run" => /\ op'.step \in {"next", "open", "delete", "absence"}
                             /\ op'.step # "next" => op'.artifact \in Artifacts \ op'.rest,
         final' \in [Artifacts -> Contents],
         \A a \in Artifacts : final'[a] = final[a] \/ (final'[a] = "absent" /\ status[a] # "VALID")
  PROVE  StoreInv' /\ (Withdrawn' <=> Withdrawn)
<1>0. StoreTypeOK /\ Withdrawal /\ Holder /\ (\A a \in Artifacts : Kept(a))
  BY DEF StoreInv
<1>1. StoreTypeOK'
  BY <1>0 DEF StoreTypeOK
<1>2. Withdrawn' <=> Withdrawn
  BY DEF Withdrawn
<1>3. Withdrawal' /\ Holder'
  BY <1>0, <1>2 DEF Withdrawal, Holder
<1>4. ASSUME NEW a \in Artifacts PROVE Kept(a)'
  <2>1. \A k \in {"persist", "recover"} : \A step : ~ At(k, a, step)'
    BY DEF At
  <2>2. Kept(a)
    BY <1>0
  <2>3. final'[a] = final[a] \/ (final'[a] = "absent" /\ status[a] # "VALID")
    OBVIOUS
  <2>4. "absent" \notin Bytes
    BY DEF Bytes
  <2> QED
    BY <2>1, <2>2, <2>3, <2>4 DEF Kept
<1> QED
  BY <1>1, <1>2, <1>3, <1>4 DEF StoreInv

-----------------------------------------------------------------------------
\* The participant's bytes of one artifact, wherever they are.
Holds(a) == \/ partial[a] \in Bytes \/ final[a] \in Bytes
            \/ \E place \in Places : quarantine[<<a, place>>] \in Bytes

\* At most one artifact's files change in a way that matters, and new bytes appear only
\* before the withdrawal.
FilesMove ==
  /\ \A b \in Artifacts : final'[b] \in Bytes => final[b] \in Bytes \/ ~ Withdrawn
  /\ \/ \A b \in Artifacts : Holds(b)' <=> Holds(b)
     \/ \E a \in Artifacts : /\ \A b \in Artifacts \ {a} : Holds(b)' <=> Holds(b)
                             /\ Holds(a)' => Holds(a) \/ ~ Withdrawn

\* The files of one artifact change.
LEMMA OneMoves ==
  ASSUME NEW a \in Artifacts,
         \A b \in Artifacts \ {a} : /\ partial'[b] = partial[b] /\ final'[b] = final[b]
                                    /\ \A place \in Places : quarantine'[<<b, place>>] = quarantine[<<b, place>>],
         final'[a] \in Bytes => final[a] \in Bytes \/ ~ Withdrawn,
         Holds(a)' => Holds(a) \/ ~ Withdrawn
  PROVE  FilesMove
<1>1. \A b \in Artifacts \ {a} : Holds(b)' <=> Holds(b)
  BY DEF Holds
<1>2. \A b \in Artifacts : final'[b] \in Bytes => final[b] \in Bytes \/ ~ Withdrawn
  OBVIOUS
<1> HIDE DEF Holds
<1> QED
  BY <1>1, <1>2 DEF FilesMove

\* Persist writes before the withdrawal; everything else only moves or removes.
LEMMA StoreMoves ==
  ASSUME StoreInv, Persist \/ Quarantine \/ Recover \/ \E a \in Artifacts : Tamper(a)
  PROVE  FilesMove
<1>0. StoreTypeOK /\ Withdrawal /\ Holder /\ op \in Ops
      /\ partial \in [Artifacts -> {"absent", "torn", "original"}]
      /\ final \in [Artifacts -> Contents] /\ quarantine \in [Artifacts \X Places -> Contents]
  BY DEF StoreInv, StoreTypeOK
<1>1. ASSUME UNCHANGED <<partial, final, quarantine>> PROVE FilesMove
  BY <1>1 DEF FilesMove, Holds
<1>2. ASSUME NEW a \in Artifacts, write_durable(a) PROVE FilesMove
  <2>1. /\ op.kind = "persist" /\ UNCHANGED <<final, quarantine>>
        /\ \A b \in Artifacts \ {a} : partial'[b] = partial[b]
    BY <1>0, <1>2 DEF write_durable, At
  <2>2. ~ Withdrawn
    BY <1>0, <2>1 DEF Withdrawal
  <2> QED
    BY <2>1, <2>2, OneMoves
<1>3. ASSUME NEW a \in Artifacts, replace(a) PROVE FilesMove
  <2>1. /\ op.kind = "persist" /\ UNCHANGED quarantine
        /\ \A b \in Artifacts \ {a} : partial'[b] = partial[b] /\ final'[b] = final[b]
    BY <1>0, <1>3 DEF replace, At
  <2>2. ~ Withdrawn
    BY <1>0, <2>1 DEF Withdrawal
  <2> QED
    BY <2>1, <2>2, OneMoves
<1>4. ASSUME NEW a \in Artifacts, NEW content \in Contents, NEW place \in Places,
             quarantine' = Moved(a, place, content),
             \/ UNCHANGED final /\ partial' = [partial EXCEPT ![a] = "absent"] /\ content = partial[a]
             \/ UNCHANGED partial /\ final' = [final EXCEPT ![a] = "absent"] /\ content = final[a]
      PROVE  FilesMove
  <2>1. /\ \A b \in Artifacts \ {a}, p \in Places : quarantine'[<<b, p>>] = quarantine[<<b, p>>]
        /\ \A p \in Places \ {place} : quarantine'[<<a, p>>] = quarantine[<<a, p>>]
        /\ quarantine'[<<a, place>>] = IF content = "absent" THEN quarantine[<<a, place>>] ELSE content
    BY <1>0, <1>4, QuarantineMoves
  <2>2. /\ \A b \in Artifacts \ {a} : partial'[b] = partial[b] /\ final'[b] = final[b]
        /\ partial'[a] \in {partial[a], "absent"} /\ final'[a] \in {final[a], "absent"}
        /\ content \in {partial[a], final[a]}
    BY <1>0, <1>4
  <2>3. "absent" \notin Bytes
    BY DEF Bytes
  <2>4. Holds(a)' => Holds(a)
    BY <2>1, <2>2, <2>3 DEF Holds
  <2> QED
    BY <2>1, <2>2, <2>3, <2>4, OneMoves
<1>5. ASSUME NEW a \in Artifacts, NEW kind, quarantine_partial(kind, a) PROVE FilesMove
  <2>1. /\ quarantine' = Moved(a, "partial", partial[a]) /\ UNCHANGED final
        /\ partial' = [partial EXCEPT ![a] = "absent"] /\ partial[a] \in Contents /\ "partial" \in Places
    BY <1>0, <1>5 DEF quarantine_partial, Contents, Places
  <2> QED
    BY <1>4, <2>1
<1>6. ASSUME NEW a \in Artifacts, NEW kind, quarantine_final(kind, a) PROVE FilesMove
  <2>1. /\ quarantine' = Moved(a, "final", final[a]) /\ UNCHANGED partial
        /\ final' = [final EXCEPT ![a] = "absent"] /\ final[a] \in Contents /\ "final" \in Places
    BY <1>0, <1>6 DEF quarantine_final, Places
  <2> QED
    BY <1>4, <2>1
<1>7. ASSUME NEW a \in Artifacts, recover_orphan(a) PROVE FilesMove
  <2>1. /\ quarantine' = Moved(a, "orphan", final[a]) /\ UNCHANGED partial
        /\ final' = [final EXCEPT ![a] = "absent"] /\ final[a] \in Contents /\ "orphan" \in Places
    BY <1>0, <1>7 DEF recover_orphan, Places
  <2> QED
    BY <1>4, <2>1
<1>8. ASSUME NEW a \in Artifacts, Tamper(a) PROVE FilesMove
  <2>1. PICK content \in {"absent", "copy", "foreign"} : final' = [final EXCEPT ![a] = content]
    BY <1>8 DEF Tamper
  <2>2. UNCHANGED <<partial, quarantine>> /\ final'[a] \notin Bytes /\ \A b \in Artifacts \ {a} : final'[b] = final[b]
    BY <1>0, <1>8, <2>1 DEF Tamper, Bytes
  <2>3. Holds(a)' => Holds(a)
    BY <2>2 DEF Holds
  <2> QED
    BY <2>2, <2>3, OneMoves
<1>9. ASSUME NEW a \in Artifacts, NEW s, create_intent(a, s) PROVE FilesMove
  BY <1>1, <1>9 DEF create_intent, disk
<1>10. ASSUME NEW a \in Artifacts,
              \/ open_final_guard(a) \/ commit_sealed(a) \/ persist_raises(a) \/ quarantine_raises(a) \/ mark_failed(a)
              \/ recover_next(a) \/ terminalize_recovery(a)
       PROVE  FilesMove
  BY <1>1, <1>10 DEF open_final_guard, commit_sealed, persist_raises, quarantine_raises, mark_failed,
                     recover_next, terminalize_recovery, disk
<1>11. CASE recover_begin
  BY <1>1, <1>11 DEF recover_begin, disk
<1> QED
  BY <1>2, <1>3, <1>5, <1>6, <1>7, <1>8, <1>9, <1>10, <1>11 DEF Persist, Quarantine, Recover

-----------------------------------------------------------------------------
\* An external copy that is registered and that nobody attested.
CopyHeld(c) == copyOf[c] # None /\ (target[c] = None \/ ~ Terminal(c))

\* The step is one that the abstract specification allows.
Refined == [Promise!Next]_(Promise!promise)

\* No settled target changes.
Settled == \A t \in Mapped : Terminal(t) => target'[t] = target[t]

\* What the system holds is what artifacts and copies hold.
LEMMA HeldParts ==
  /\ Held = {a \in Artifacts : Holds(a)} \cup {c \in Copies : CopyHeld(c)}
  /\ Held' = {a \in Artifacts : Holds(a)'} \cup {c \in Copies : CopyHeld(c)'}
<1>1. Held = {a \in Artifacts : Holds(a)} \cup {c \in Copies : CopyHeld(c)}
  BY DEF Held, Holds, CopyHeld
<1>2. Held' = {a \in Artifacts : Holds(a)'} \cup {c \in Copies : CopyHeld(c)'}
  BY DEF Held, Holds, CopyHeld
<1> QED
  BY <1>1, <1>2

\* The three kinds of step that leave the withdrawal and the receipt alone.
LEMMA PromiseSteps ==
  ASSUME Withdrawn' <=> Withdrawn, receipt' = receipt,
         \/ Held' = Held
         \/ \E x \in Targets : Held' = Held \ {x}
         \/ ~ Withdrawn /\ \E x \in Targets : Held' = Held \cup {x}
  PROVE  Refined
<1>1. Withdrawn' = Withdrawn /\ (receipt # None)' = (receipt # None)
  BY DEF Withdrawn
<1> QED
  BY <1>1 DEF Refined, Promise!Next, Promise!Hold, Promise!Release, Promise!promise

\* Files move, copies stay.
LEMMA FilesRefine ==
  ASSUME FilesMove, \A c \in Copies : CopyHeld(c)' <=> CopyHeld(c),
         Withdrawn' <=> Withdrawn, receipt' = receipt
  PROVE  Refined
<1>1. CASE \A b \in Artifacts : Holds(b)' <=> Holds(b)
  BY <1>1, HeldParts, PromiseSteps
<1>2. CASE \E a \in Artifacts : /\ \A b \in Artifacts \ {a} : Holds(b)' <=> Holds(b)
                                /\ Holds(a)' => Holds(a) \/ ~ Withdrawn
  <2>1. PICK a \in Artifacts : /\ \A b \in Artifacts \ {a} : Holds(b)' <=> Holds(b)
                               /\ Holds(a)' => Holds(a) \/ ~ Withdrawn
    BY <1>2
  <2>2. a \in Targets /\ a \notin Copies
    BY ReconciliationBounds DEF Targets
  <2>3. CASE Holds(a)' <=> Holds(a)
    BY <2>1, <2>3, HeldParts, PromiseSteps
  <2>4. CASE Holds(a) /\ ~ Holds(a)'
    <3>1. Held' = Held \ {a}
      BY <2>1, <2>2, <2>4, HeldParts
    <3> QED
      BY <2>2, <3>1, PromiseSteps
  <2>5. CASE Holds(a)' /\ ~ Holds(a)
    <3>1. Held' = Held \cup {a} /\ ~ Withdrawn
      BY <2>1, <2>2, <2>5, HeldParts
    <3> QED
      BY <2>2, <3>1, PromiseSteps
  <2> QED
    BY <2>3, <2>4, <2>5
<1> QED
  BY <1>1, <1>2 DEF FilesMove

\* One copy is registered or attested, files stay.
LEMMA CopyRefine ==
  ASSUME UNCHANGED <<partial, final, quarantine>>, NEW c \in Copies,
         \A d \in Copies \ {c} : CopyHeld(d)' <=> CopyHeld(d),
         CopyHeld(c)' => CopyHeld(c) \/ ~ Withdrawn,
         Withdrawn' <=> Withdrawn, receipt' = receipt
  PROVE  Refined
<1>1. \A a \in Artifacts : Holds(a)' <=> Holds(a)
  BY DEF Holds
<1>2. c \in Targets /\ c \notin Artifacts
  BY ReconciliationBounds DEF Targets
<1>3. CASE CopyHeld(c)' <=> CopyHeld(c)
  BY <1>1, <1>3, HeldParts, PromiseSteps
<1>4. CASE CopyHeld(c) /\ ~ CopyHeld(c)'
  <2>1. Held' = Held \ {c}
    BY <1>1, <1>2, <1>4, HeldParts
  <2> QED
    BY <1>2, <2>1, PromiseSteps
<1>5. CASE CopyHeld(c)' /\ ~ CopyHeld(c)
  <2>1. Held' = Held \cup {c} /\ ~ Withdrawn
    BY <1>1, <1>2, <1>5, HeldParts
  <2> QED
    BY <1>2, <2>1, PromiseSteps
<1> QED
  BY <1>3, <1>4, <1>5

\* A step that changes no target and puts none in hand.
LEMMA TargetFrame ==
  ASSUME RecInv, StoreInv', UNCHANGED <<copyOf, target, receipt>>, Withdrawn' <=> Withdrawn,
         op'.kind = "run" => op.kind = "run" /\ InHand' \subseteq InHand, FilesMove
  PROVE  RecInv' /\ Settled /\ Refined
<1>0. TargetsSound
  BY DEF RecInv
<1>a. \A b \in Artifacts : b \in Targets
  BY DEF Targets
<1>b. ASSUME NEW b \in Artifacts, target[b] # None, target[b].state = "LOCAL_DELETION_VERIFIED"
      PROVE  final'[b] \notin Bytes
  BY <1>0, <1>a, <1>b DEF TargetsSound, FilesMove
<1>1. TargetsSound'
  BY <1>0, <1>b DEF TargetsSound
<1>2. \A c \in Copies : CopyHeld(c)' <=> CopyHeld(c)
  BY DEF CopyHeld, Terminal
<1> QED
  BY <1>1, <1>2, FilesRefine DEF RecInv, Settled

\* Nothing the store does for itself is a step of the run.
LEMMA StoreNotRun ==
  ASSUME StoreInv, Persist \/ Quarantine \/ Recover
  PROVE  op'.kind # "run"
<1>0. op \in Ops
  BY DEF StoreInv, StoreTypeOK
<1>1. CASE Persist
  <2>1. ASSUME NEW a \in Artifacts, NEW s, create_intent(a, s) PROVE op'.kind # "run"
    BY <2>1 DEF create_intent, Idle
  <2>2. ASSUME NEW a \in Artifacts, commit_sealed(a) \/ mark_failed(a) PROVE op'.kind # "run"
    BY <2>2, IdleOp DEF commit_sealed, mark_failed
  <2>3. ASSUME NEW a \in Artifacts, write_durable(a) \/ replace(a) \/ open_final_guard(a) \/ persist_raises(a)
        PROVE  op'.kind # "run"
    BY <1>0, <2>3 DEF write_durable, replace, open_final_guard, persist_raises, At, Goto, Ops
  <2>4. ASSUME NEW a \in Artifacts, quarantine_raises(a) PROVE op'.kind # "run"
    BY <1>0, <2>4 DEF quarantine_raises, At, Ops
  <2> QED
    BY <1>1, <2>1, <2>2, <2>3, <2>4 DEF Persist
<1>2. CASE Quarantine
  <2>1. ASSUME NEW a \in Artifacts, NEW kind \in {"persist", "recover"}, quarantine_partial(kind, a)
        PROVE  op'.kind # "run"
    BY <1>0, <2>1 DEF quarantine_partial, At, Ops
  <2>2. ASSUME NEW a \in Artifacts, NEW kind \in {"persist", "recover"}, quarantine_final(kind, a)
        PROVE  op'.kind # "run"
    BY <1>0, <2>2 DEF quarantine_final, At, Ops
  <2> QED
    BY <1>2, <2>1, <2>2 DEF Quarantine
<1>3. CASE Recover
  <2>1. CASE recover_begin
    BY <2>1 DEF recover_begin, Idle
  <2>2. ASSUME NEW a \in Artifacts, recover_next(a) \/ terminalize_recovery(a) \/ recover_orphan(a)
        PROVE  op'.kind # "run"
    BY <1>0, <2>2 DEF recover_next, terminalize_recovery, recover_orphan, At, Ops
  <2> QED
    BY <1>3, <2>1, <2>2 DEF Recover
<1> QED
  BY <1>1, <1>2, <1>3

\* A run under way goes on at the step where it was.
LEMMA StoreLeavesRun ==
  ASSUME StoreInv, Store, op'.kind = "run"
  PROVE  op' = op
BY StoreNotRun DEF Store, Tamper

\* The store's own steps.
LEMMA StoreSteps ==
  ASSUME RecInv, Store
  PROVE  RecInv' /\ Settled /\ Refined
<1>0. StoreInv
  BY DEF RecInv
<1>1. UNCHANGED <<copyOf, target, receipt>>
  BY DEF Store, journal
<1>2. StoreInv' /\ (Withdrawn' <=> Withdrawn)
  BY <1>0, PersistForward, PersistFails, QuarantineSteps, RecoverSteps, OutsideSteps
     DEF Store, Persist, Quarantine
<1>3. FilesMove
  BY <1>0, StoreMoves DEF Store
<1>4. op'.kind = "run" => op' = op
  BY <1>0, StoreLeavesRun
<1>5. op'.kind = "run" => op.kind = "run" /\ InHand' \subseteq InHand
  BY <1>4 DEF InHand
<1> QED
  BY <1>1, <1>2, <1>3, <1>5, TargetFrame

\* Nothing of the store changes.
LEMMA StoreRests ==
  ASSUME StoreInv, UNCHANGED storeVars
  PROVE  StoreInv' /\ (Withdrawn' <=> Withdrawn) /\ FilesMove /\ op' = op /\ InHand' = InHand
         /\ UNCHANGED <<partial, final, quarantine, status, session>>
<1>1. UNCHANGED <<session, intent, home, status, partial, final, quarantine, up, op, crashes, tampers, touched>>
  BY DEF storeVars, rows, disk, world
<1>2. Withdrawn' <=> Withdrawn
  BY <1>1 DEF Withdrawn
<1>3. FilesMove
  BY <1>1 DEF FilesMove, Holds
<1>4. StoreTypeOK' /\ Withdrawal' /\ Holder'
  BY <1>1, <1>2 DEF StoreInv, StoreTypeOK, Withdrawal, Holder, Unsettled
<1>5. \A b \in Artifacts : Kept(b)'
  BY <1>1, KeptAll DEF StoreInv, disk, At
<1> QED
  BY <1>1, <1>2, <1>3, <1>4, <1>5 DEF StoreInv, InHand

\* A target's row.
LEMMA RowTyped ==
  ASSUME NEW state \in Unsigned \cup {"IN_PROGRESS", "BLOCKED", "LOCAL_DELETION_VERIFIED", "EXTERNAL_DELETION_ATTESTED"},
         NEW old \in Rows
  PROVE  /\ Row(state, old.version + 1) \in Rows /\ Row(state, old.version + 1) # None
         /\ Row(state, old.version + 1).state = state
<1>1. old.version + 1 \in Nat
  BY DEF Rows
<1>2. Row(state, old.version + 1) \in Rows /\ Row(state, old.version + 1).state = state
  BY <1>1 DEF Row, Rows
<1> QED
  BY <1>2, ReconciliationNone

\* Registration, attestation, and what only touches sessions, challenges and the procedure.
LEMMA ConfirmSteps ==
  ASSUME RecInv, Confirm \/ \E c \in Copies, a \in Artifacts : register_external_target(c, a)
  PROVE  RecInv' /\ Settled /\ Refined
<1>0. StoreInv /\ TargetsSound
  BY DEF RecInv
<1>a. UNCHANGED storeVars
  BY DEF Confirm, register_external_target, invalidate_reviewer_session, issue_reviewer_token, create_challenge,
         consume_challenge, consume_rejected, attest_external_deletion, import_procedure_authority
<1>b. StoreInv' /\ (Withdrawn' <=> Withdrawn) /\ FilesMove /\ op' = op /\ InHand' = InHand
      /\ UNCHANGED <<partial, final, quarantine, status, session>>
  BY <1>0, <1>a, StoreRests
<1>1. CASE UNCHANGED <<copyOf, target, receipt>>
  BY <1>1, <1>b, TargetFrame
<1>2. ASSUME NEW c \in Copies, NEW a \in Artifacts, register_external_target(c, a)
      PROVE  RecInv' /\ Settled /\ Refined
  <2>1. /\ copyOf[c] = None /\ status[a] = "VALID" /\ copyOf' = [copyOf EXCEPT ![c] = a]
        /\ UNCHANGED <<target, receipt>>
    BY <1>2 DEF register_external_target
  <2>2. ~ Withdrawn /\ \A t \in Targets : target[t] = None
    BY <1>0, <2>1 DEF StoreInv, Withdrawal, TargetsSound
  <2>3. copyOf' \in [Copies -> Artifacts \cup {None}] /\ \A d \in Copies \ {c} : copyOf'[d] = copyOf[d]
    BY <1>0, <2>1 DEF TargetsSound
  <2>4. TargetsSound'
    BY <1>0, <1>b, <2>1, <2>2, <2>3 DEF TargetsSound
  <2>5. Refined
    BY <1>b, <2>1, <2>2, <2>3, CopyRefine DEF CopyHeld, Terminal
  <2> QED
    BY <1>b, <2>1, <2>4, <2>5 DEF RecInv, Settled
<1>3. ASSUME NEW d \in Challenges, attest_external_deletion(d)
      PROVE  RecInv' /\ Settled /\ Refined
  <2>1. PICK c \in Copies :
          /\ op = Idle /\ c \in In(Unsigned)
          /\ target' = [target EXCEPT ![c] = Row("EXTERNAL_DELETION_ATTESTED", @.version + 1)]
          /\ UNCHANGED <<copyOf, receipt>>
    BY <1>3 DEF attest_external_deletion, Presented
  <2>2. c \in Targets /\ c \notin Artifacts
    BY <2>1, ReconciliationBounds DEF Targets
  <2>3. target[c] # None /\ target[c] \in Rows /\ target[c].state \in Unsigned
    BY <1>0, <2>1, <2>2 DEF In, Mapped, TargetsSound
  <2>5. PICK new \in Rows : new = Row("EXTERNAL_DELETION_ATTESTED", target[c].version + 1)
                          /\ new.state = "EXTERNAL_DELETION_ATTESTED"
    BY <2>3, RowTyped
  <2>6. target' = [target EXCEPT ![c] = new]
    BY <2>1, <2>5
  <2>7. target' \in [Targets -> Rows \cup {None}] /\ target'[c] = new /\ \A t \in Targets \ {c} : target'[t] = target[t]
    BY <1>0, <2>2, <2>5, <2>6 DEF TargetsSound
  <2>8. new # None
    BY <2>5, ReconciliationNone
  <2>9. Withdrawn /\ op.kind = "idle"
    BY <1>0, <2>1, <2>2, <2>3, IdleOp DEF TargetsSound
  <2>10. Artifacts \subseteq Targets \ {c} /\ Copies \subseteq Targets
    BY <2>2 DEF Targets
  <2>11. TargetsSound'
    BY <1>0, <1>b, <2>1, <2>2, <2>7, <2>8, <2>9, <2>10 DEF TargetsSound
  <2>12. Settled
    <3>1. ~ Terminal(c)
      BY <2>1, <2>3 DEF Terminal, Unsigned
    <3> QED
      BY <2>7, <3>1 DEF Settled, Mapped
  <2>13. ~ CopyHeld(c)'
    BY <2>1, <2>5, <2>7, <2>8 DEF CopyHeld, Terminal
  <2>14. \A e \in Copies \ {c} : CopyHeld(e)' <=> CopyHeld(e)
    BY <2>1, <2>7, <2>10 DEF CopyHeld, Terminal
  <2>15. Refined
    BY <1>b, <2>1, <2>13, <2>14, CopyRefine
  <2> QED
    BY <1>b, <2>11, <2>12, <2>15 DEF RecInv
<1>4. ASSUME NEW d \in Challenges, consume_challenge(d) \/ consume_rejected(d)
      PROVE  RecInv' /\ Settled /\ Refined
  BY <1>1, <1>4 DEF consume_challenge, consume_rejected
<1>5. ASSUME NEW d \in Challenges, NEW action, create_challenge(d, action)
      PROVE  RecInv' /\ Settled /\ Refined
  BY <1>1, <1>5 DEF create_challenge
<1>6. CASE invalidate_reviewer_session \/ issue_reviewer_token \/ import_procedure_authority
  BY <1>1, <1>6 DEF invalidate_reviewer_session, issue_reviewer_token, import_procedure_authority
<1> QED
  BY <1>2, <1>3, <1>4, <1>5, <1>6 DEF Confirm

\* A step that moves open targets on, and removes at most one file.
LEMMA RunTargets ==
  ASSUME RecInv, StoreInv', Withdrawn' <=> Withdrawn, UNCHANGED <<copyOf, receipt, partial, quarantine>>,
         final' = final \/ \E a \in Artifacts : final' = [final EXCEPT ![a] = "absent"],
         target' \in [Targets -> Rows \cup {None}],
         \A t \in Targets : target'[t] = target[t] \/
                            /\ target[t] # None /\ target'[t] # None /\ ~ Terminal(t)
                            /\ t \in Copies => ~ Terminal(t)'
                            /\ t \in Artifacts /\ target'[t].state = "LOCAL_DELETION_VERIFIED" => final'[t] \notin Bytes,
         op'.kind = "run" => Withdrawn /\ \A a \in InHand' : target'[a] # None /\ target'[a].state = "IN_PROGRESS"
  PROVE  RecInv' /\ Settled /\ Refined
<1>0. StoreInv /\ TargetsSound /\ final \in [Artifacts -> Contents] /\ "absent" \notin Bytes
  BY DEF RecInv, StoreInv, StoreTypeOK, Bytes
<1>a. Artifacts \subseteq Targets /\ Copies \subseteq Targets /\ Artifacts \cap Copies = {}
  BY ReconciliationBounds DEF Targets
<1>1. \A b \in Artifacts : final'[b] = final[b] \/ final'[b] = "absent"
  BY <1>0
<1>2. FilesMove
  <2>1. CASE final' = final
    BY <2>1 DEF FilesMove, Holds
  <2>2. ASSUME NEW a \in Artifacts, final' = [final EXCEPT ![a] = "absent"] PROVE FilesMove
    <3>1. final'[a] \notin Bytes /\ \A b \in Artifacts \ {a} : final'[b] = final[b]
      BY <1>0, <2>2
    <3>2. Holds(a)' => Holds(a)
      BY <3>1 DEF Holds
    <3> QED
      BY <3>1, <3>2, OneMoves
  <2> QED
    BY <2>1, <2>2
<1>3. \A c \in Copies : CopyHeld(c)' <=> CopyHeld(c)
  <2> SUFFICES ASSUME NEW c \in Copies PROVE CopyHeld(c)' <=> CopyHeld(c)
    OBVIOUS
  <2>1. CASE target'[c] = target[c]
    BY <2>1 DEF CopyHeld, Terminal
  <2>2. CASE target'[c] # target[c]
    BY <1>a, <2>2 DEF CopyHeld
  <2> QED
    BY <2>1, <2>2
<1>4. Refined
  BY <1>2, <1>3, FilesRefine
<1>5. Settled
  BY DEF Settled, Mapped
<1>6. ASSUME NEW a \in Artifacts, target'[a] # None, target'[a].state = "LOCAL_DELETION_VERIFIED"
      PROVE  final'[a] \notin Bytes
  <2>1. CASE target'[a] = target[a]
    BY <1>0, <1>1, <1>6, <2>1 DEF TargetsSound
  <2>2. CASE target'[a] # target[a]
    BY <1>a, <1>6, <2>2
  <2> QED
    BY <2>1, <2>2
<1>7. \A t \in Targets : target'[t] # None <=> target[t] # None
  OBVIOUS
<1>8. TargetsSound'
  BY <1>0, <1>a, <1>6, <1>7 DEF TargetsSound
<1> QED
  BY <1>4, <1>5, <1>8 DEF RecInv

\* The local run.
LEMMA RunSteps ==
  ASSUME RecInv, Run
  PROVE  RecInv' /\ Settled /\ Refined
<1>0. /\ StoreInv /\ TargetsSound /\ op \in Ops /\ Holder /\ Withdrawal
      /\ final \in [Artifacts -> Contents] /\ target \in [Targets -> Rows \cup {None}]
  BY DEF RecInv, StoreInv, StoreTypeOK, TargetsSound
<1>a. Artifacts \subseteq Targets /\ Artifacts \cap Copies = {}
  BY ReconciliationBounds DEF Targets
<1>1. ASSUME NEW c \in Challenges, run_local(c) PROVE RecInv' /\ Settled /\ Refined
  <2>1. /\ op = Idle /\ authority_binding # {}
        /\ target' = [t \in Targets |-> IF t \in authority_binding
                                        THEN Row("IN_PROGRESS", target[t].version + 1) ELSE target[t]]
        /\ op' = [Idle EXCEPT !.kind = "run", !.step = "next", !.rest = authority_binding]
        /\ UNCHANGED <<session, intent, home, status, partial, final, quarantine, up, crashes, tampers, touched>>
        /\ UNCHANGED <<copyOf, receipt>>
    BY <1>1 DEF run_local, rows, disk, world
  <2>2. \A a \in authority_binding : a \in Artifacts /\ target[a] # None /\ target[a].state \in Unsigned
    BY DEF authority_binding, In, Mapped
  <2>3. op' \in Ops /\ op'.kind = "run" /\ op'.step = "next" /\ op'.rest = authority_binding
    BY <2>1, <2>2 DEF Ops, Idle
  <2>4. Withdrawn
    BY <1>0, <1>a, <2>1, <2>2 DEF TargetsSound
  <2>5. StoreInv' /\ (Withdrawn' <=> Withdrawn)
    BY <1>0, <2>1, <2>3, IdleOp, RunStore
  <2>6. \A a \in authority_binding : target[a] \in Rows
    BY <1>0, <1>a, <2>2
  <2>7. \A a \in authority_binding :
           target'[a] \in Rows /\ target'[a] # None /\ target'[a].state = "IN_PROGRESS"
    BY <1>a, <2>1, <2>2, <2>6, RowTyped
  <2>8. \A t \in Targets \ authority_binding : target'[t] = target[t]
    BY <2>1
  <2>9. target' \in [Targets -> Rows \cup {None}]
    BY <1>0, <2>1, <2>2, <2>6, RowTyped
  <2>10. \A t \in authority_binding : ~ Terminal(t)
    BY <1>a, <2>2 DEF Terminal, Unsigned
  <2>11. InHand' = authority_binding
    BY <2>3 DEF InHand
  <2> QED
    BY <1>a, <2>1, <2>2, <2>4, <2>5, <2>7, <2>8, <2>9, <2>10, <2>11, RunTargets
<1>b. op.kind = "run" => Withdrawn /\ \A a \in InHand : target[a] # None /\ target[a].state = "IN_PROGRESS"
  BY <1>0 DEF TargetsSound
<1>2. ASSUME NEW a \in Artifacts, run_target(a) PROVE RecInv' /\ Settled /\ Refined
  <2>1. /\ op.kind = "run" /\ op.step = "next" /\ a \in op.rest
        /\ op' = [op EXCEPT !.artifact = a, !.step = "open", !.rest = op.rest \ {a}]
        /\ UNCHANGED <<session, intent, home, status, partial, final, quarantine, up, crashes, tampers, touched>>
        /\ UNCHANGED <<copyOf, target, receipt>>
    BY <1>2 DEF run_target, rows, disk, world
  <2>2. op' \in Ops /\ op'.kind = "run" /\ op'.step = "open" /\ op'.artifact = a /\ op'.rest = op.rest \ {a}
    BY <1>0, <2>1 DEF Ops
  <2>3. StoreInv' /\ (Withdrawn' <=> Withdrawn)
    BY <1>0, <2>1, <2>2, RunStore
  <2>4. InHand' \subseteq InHand
    BY <2>1, <2>2 DEF InHand
  <2> QED
    BY <1>0, <1>b, <2>1, <2>3, <2>4, RunTargets
<1>3. ASSUME NEW a \in Artifacts, delete_verified(a) PROVE RecInv' /\ Settled /\ Refined
  <2>1. /\ op.kind = "run" /\ op.step = "open" /\ op.artifact = a
        /\ op' = [op EXCEPT !.step = "delete"]
        /\ UNCHANGED <<session, intent, home, status, partial, final, quarantine, up, crashes, tampers, touched>>
        /\ UNCHANGED <<copyOf, target, receipt>>
    BY <1>3 DEF delete_verified, rows, disk, world, At, Goto
  <2>2. op' \in Ops /\ op'.kind = "run" /\ op'.step = "delete" /\ op'.artifact = a /\ op'.rest = op.rest
    BY <1>0, <2>1 DEF Ops
  <2>a. a \notin op.rest
    BY <1>0, <2>1 DEF Holder
  <2>3. StoreInv' /\ (Withdrawn' <=> Withdrawn)
    BY <1>0, <2>1, <2>2, <2>a, RunStore
  <2>4. InHand' \subseteq InHand
    BY <2>1, <2>2 DEF InHand
  <2> QED
    BY <1>0, <1>b, <2>1, <2>3, <2>4, RunTargets
<1>4. ASSUME NEW a \in Artifacts, delete_file(a) PROVE RecInv' /\ Settled /\ Refined
  <2>1. /\ op.kind = "run" /\ op.step = "delete" /\ op.artifact = a
        /\ op' = [op EXCEPT !.step = "absence"] /\ final' = [final EXCEPT ![a] = "absent"]
        /\ UNCHANGED <<session, intent, home, status, partial, quarantine, up, crashes, tampers, touched>>
        /\ UNCHANGED <<copyOf, target, receipt>>
    BY <1>4 DEF delete_file, rows, journal, world, At, Goto
  <2>2. op' \in Ops /\ op'.kind = "run" /\ op'.step = "absence" /\ op'.artifact = a /\ op'.rest = op.rest
    BY <1>0, <2>1 DEF Ops
  <2>a. a \notin op.rest /\ status[a] # "VALID"
    BY <1>0, <1>b, <2>1 DEF Holder, Withdrawal
  <2>b. final' \in [Artifacts -> Contents] /\ final'[a] = "absent" /\ \A b \in Artifacts \ {a} : final'[b] = final[b]
    BY <1>0, <2>1 DEF Contents
  <2>3. StoreInv' /\ (Withdrawn' <=> Withdrawn)
    BY <1>0, <2>1, <2>2, <2>a, <2>b, RunStore
  <2>4. InHand' \subseteq InHand
    BY <2>1, <2>2 DEF InHand
  <2> QED
    BY <1>0, <1>b, <2>1, <2>3, <2>4, RunTargets
<1>5. ASSUME NEW a \in Artifacts, NEW result \in {"BLOCKED", "RECOVERY_REQUIRED"}, DeletionBlocked(a, result),
             op.kind = "run", op.artifact = a, op.step # "next"
      PROVE  RecInv' /\ Settled /\ Refined
  <2>1. /\ target' = [target EXCEPT ![a] = Row(result, @.version + 1)] /\ op' = Idle
        /\ UNCHANGED <<session, intent, home, status, partial, final, quarantine, up, crashes, tampers, touched>>
        /\ UNCHANGED <<copyOf, receipt>>
    BY <1>5 DEF DeletionBlocked, rows, disk, world
  <2>2. target[a] # None /\ target[a].state = "IN_PROGRESS" /\ target[a] \in Rows
    BY <1>0, <1>a, <1>b, <1>5 DEF InHand
  <2>3. PICK new \in Rows : new = Row(result, target[a].version + 1) /\ new # None /\ new.state = result
    BY <2>2, RowTyped DEF Unsigned
  <2>4. /\ target' \in [Targets -> Rows \cup {None}] /\ target'[a] = new
        /\ \A t \in Targets \ {a} : target'[t] = target[t]
    BY <1>0, <1>a, <2>1, <2>3
  <2>5. StoreInv' /\ (Withdrawn' <=> Withdrawn)
    BY <1>0, <1>5, <2>1, IdleOp, RunStore
  <2>6. ~ Terminal(a)
    BY <1>a, <2>2 DEF Terminal
  <2> QED
    BY <1>a, <2>1, <2>2, <2>3, <2>4, <2>5, <2>6, IdleOp, RunTargets
<1>6. ASSUME NEW a \in Artifacts, delete_blocked(a) \/ delete_unverified(a) PROVE RecInv' /\ Settled /\ Refined
  <2>1. op.kind = "run" /\ op.artifact = a /\ op.step # "next"
    BY <1>6 DEF delete_blocked, delete_unverified, At
  <2>2. DeletionBlocked(a, "BLOCKED") \/ DeletionBlocked(a, "RECOVERY_REQUIRED")
    BY <1>6 DEF delete_blocked, delete_unverified
  <2> QED
    BY <1>5, <2>1, <2>2
<1>7. ASSUME NEW a \in Artifacts, absence_verified(a) PROVE RecInv' /\ Settled /\ Refined
  <2>1. /\ op.kind = "run" /\ op.step = "absence" /\ op.artifact = a /\ final[a] = "absent"
        /\ target' = [target EXCEPT ![a] = Row("LOCAL_DELETION_VERIFIED", @.version + 1)]
        /\ op' = [op EXCEPT !.artifact = None, !.step = "next"]
        /\ UNCHANGED <<session, intent, home, status, partial, final, quarantine, up, crashes, tampers, touched>>
        /\ UNCHANGED <<copyOf, receipt>>
    BY <1>7 DEF absence_verified, rows, disk, world, At
  <2>2. target[a] # None /\ target[a].state = "IN_PROGRESS" /\ target[a] \in Rows
    BY <1>0, <1>a, <1>b, <2>1 DEF InHand
  <2>3. PICK new \in Rows : /\ new = Row("LOCAL_DELETION_VERIFIED", target[a].version + 1)
                          /\ new # None /\ new.state = "LOCAL_DELETION_VERIFIED"
    BY <2>2, RowTyped
  <2>4. /\ target' \in [Targets -> Rows \cup {None}] /\ target'[a] = new
        /\ \A t \in Targets \ {a} : target'[t] = target[t]
    BY <1>0, <1>a, <2>1, <2>3
  <2>5. op' \in Ops /\ op'.kind = "run" /\ op'.step = "next" /\ op'.rest = op.rest
    BY <1>0, <2>1 DEF Ops
  <2>6. StoreInv' /\ (Withdrawn' <=> Withdrawn)
    BY <1>0, <2>1, <2>5, RunStore
  <2>7. ~ Terminal(a) /\ final'[a] \notin Bytes
    BY <1>a, <2>1, <2>2 DEF Terminal, Bytes
  <2>8. a \notin InHand' /\ InHand' \subseteq InHand /\ InHand' \subseteq Targets
    BY <1>0, <1>a, <2>1, <2>5 DEF InHand, Holder, Ops
  <2>9. Withdrawn /\ \A b \in InHand' : target'[b] # None /\ target'[b].state = "IN_PROGRESS"
    BY <1>b, <2>1, <2>4, <2>8
  <2> QED
    BY <1>a, <2>1, <2>2, <2>3, <2>4, <2>6, <2>7, <2>9, RunTargets
<1>8. CASE run_completed \/ run_raises
  <2>1. /\ op.kind = "run" /\ op' = Idle
        /\ UNCHANGED <<session, intent, home, status, partial, final, quarantine, up, crashes, tampers, touched>>
        /\ UNCHANGED <<copyOf, target, receipt>>
    BY <1>8 DEF run_completed, run_raises, rows, disk, world, journal
  <2>2. StoreInv' /\ (Withdrawn' <=> Withdrawn)
    BY <1>0, <2>1, IdleOp, RunStore
  <2> QED
    BY <1>0, <2>1, <2>2, IdleOp, RunTargets
<1> QED
  BY <1>1, <1>2, <1>3, <1>4, <1>6, <1>7, <1>8 DEF Run
\* The withdrawal: every registered target is open, and as much is held as before.
LEMMA WithdrawSteps ==
  ASSUME RecInv, Withdraw
  PROVE  RecInv' /\ Settled /\ Refined
<1>0. /\ StoreInv /\ TargetsSound /\ copyOf \in [Copies -> Artifacts \cup {None}]
      /\ Copies \subseteq Targets /\ Artifacts \subseteq Targets
  BY DEF RecInv, TargetsSound, Targets
<1>1. /\ withdraw /\ op = Idle /\ UNCHANGED <<partial, final, quarantine, op, copyOf, receipt>>
      /\ target' = [t \in Targets |-> IF Registered(t) THEN Row("PENDING_CONFIRMATION", 0) ELSE None]
  BY DEF Withdraw, withdraw, after_withdrawal_receipt, disk
<1>2. StoreInv' /\ Withdrawn' /\ ~ Withdrawn
  BY <1>0, <1>1, WithdrawStep
<1>3. \A t \in Targets : target[t] = None
  BY <1>0, <1>2 DEF TargetsSound
<1>4. PICK new \in Rows : /\ new = Row("PENDING_CONFIRMATION", 0) /\ new # None
                          /\ new.state = "PENDING_CONFIRMATION"
  <2>1. Row("PENDING_CONFIRMATION", 0) \in Rows
    BY DEF Row, Rows, Unsigned
  <2> QED
    BY <2>1, ReconciliationNone DEF Row
<1>5. /\ target' \in [Targets -> Rows \cup {None}]
      /\ \A t \in Targets : target'[t] = IF Registered(t) THEN new ELSE None
  BY <1>1, <1>4
<1>6. \A c \in Copies : target'[c] = IF copyOf[c] # None THEN new ELSE None
  BY <1>0, <1>5 DEF Registered
<1>7. \A a \in Artifacts : target'[a] # None => target'[a].state # "LOCAL_DELETION_VERIFIED"
  BY <1>0, <1>4, <1>5
<1>8. TargetsSound'
  BY <1>0, <1>1, <1>2, <1>4, <1>5, <1>6, <1>7, IdleOp DEF TargetsSound
<1>9. Settled
  BY <1>3 DEF Settled, Mapped
<1>10. \A c \in Copies : CopyHeld(c)' <=> CopyHeld(c)
  BY <1>0, <1>1, <1>3, <1>4, <1>6 DEF CopyHeld, Terminal
<1>11. \A a \in Artifacts : Holds(a)' <=> Holds(a)
  BY <1>1 DEF Holds
<1>12. Held' = Held
  BY <1>10, <1>11, HeldParts
<1>13. Withdrawn = FALSE /\ Withdrawn' = TRUE /\ (receipt # None)' = (receipt # None)
  BY <1>1, <1>2 DEF Withdrawn
<1>14. Refined
  BY <1>12, <1>13 DEF Refined, Promise!Next, Promise!Withdraw
<1> QED
  BY <1>2, <1>8, <1>9, <1>14 DEF RecInv

\* What an empty list of blocker codes says.
LEMMA NoBlocker ==
  ASSUME blocker_codes = {}
  PROVE  /\ \A a \in Tasks : target[a] # None
         /\ \A a \in Artifacts : intent[a] \notin {"PENDING", "FAILED", "QUARANTINED"}
<1> DEFINE missing     == \E a \in Tasks : target[a] = None
           active      == \E a \in Artifacts : intent[a] = "PENDING"
           failed      == \E a \in Artifacts : intent[a] = "FAILED"
           quarantined == \E a \in Artifacts : intent[a] = "QUARANTINED"
           blocked     == In({"BLOCKED"}) # {}
           recovery    == In({"RECOVERY_REQUIRED"}) # {}
           valid       == \E a \in Artifacts \cap Mapped : status[a] # "INVALIDATED"
           found == [TARGET_BINDING_MISSING |-> missing,
                     ACTIVE_WRITE_INTENT |-> active,
                     FAILED_WRITE_INTENT_UNRESOLVED |-> failed,
                     QUARANTINED_WRITE_INTENT_UNRESOLVED |-> quarantined,
                     TARGET_BLOCKED |-> blocked,
                     RECOVERY_REQUIRED |-> recovery,
                     ARTIFACT_NOT_INVALIDATED |-> valid]
<1>1. blocker_codes = {code \in DOMAIN found : found[code]}
  BY Zenon DEF blocker_codes
<1> HIDE DEF missing, active, failed, quarantined, blocked, recovery, valid
<1>2. /\ {"TARGET_BINDING_MISSING", "ACTIVE_WRITE_INTENT", "FAILED_WRITE_INTENT_UNRESOLVED",
          "QUARANTINED_WRITE_INTENT_UNRESOLVED"} \subseteq DOMAIN found
      /\ found["TARGET_BINDING_MISSING"] = missing
      /\ found["ACTIVE_WRITE_INTENT"] = active
      /\ found["FAILED_WRITE_INTENT_UNRESOLVED"] = failed
      /\ found["QUARANTINED_WRITE_INTENT_UNRESOLVED"] = quarantined
  OBVIOUS
<1> HIDE DEF found
<1>3. ~ missing /\ ~ active /\ ~ failed /\ ~ quarantined
  BY <1>1, <1>2
<1> QED
  BY <1>3 DEF missing, active, failed, quarantined

\* When the plan is complete nothing of the participant is held.
LEMMA CompleteHoldsNothing ==
  ASSUME RecInv, Complete
  PROVE  Held = {} /\ Withdrawn
<1>0. /\ StoreTypeOK /\ Withdrawal /\ (\A a \in Artifacts : Kept(a)) /\ TargetsSound
      /\ intent \in [Artifacts -> IntentStates \cup {None}]
      /\ status \in [Artifacts -> StatusStates \cup {None}]
      /\ Copies \subseteq Targets /\ Artifacts \subseteq Targets /\ Artifacts \cap Copies = {}
  BY ReconciliationBounds DEF RecInv, StoreInv, StoreTypeOK, Targets
<1>1. blocker_codes = {} /\ Tasks # {} /\ \A t \in Mapped : Terminal(t)
  BY DEF Complete
<1>2. Withdrawn
  BY <1>0, <1>1 DEF Tasks, Withdrawal
<1>3. \A a \in Artifacts : intent[a] \notin {"PENDING", "FAILED", "QUARANTINED"}
  BY <1>1, NoBlocker
<1>4. \A a \in Tasks : target[a] # None
  BY <1>1, NoBlocker
<1>5. ASSUME NEW a \in Artifacts PROVE ~ Holds(a)
  <2>1. intent[a] \in {None, "SEALED"}
    BY <1>0, <1>3 DEF IntentStates
  <2>2. partial[a] \notin Bytes /\ \A place \in Places : quarantine[<<a, place>>] \notin Bytes
    BY <1>0, <2>1 DEF Kept
  <2>3. CASE intent[a] = None
    BY <1>0, <2>2, <2>3 DEF Kept, Holds
  <2>4. CASE intent[a] = "SEALED"
    <3>1. status[a] = "INVALIDATED"
      BY <1>0, <1>2, <2>4 DEF Kept, Withdrawal, StatusStates
    <3>2. target[a] # None /\ a \in Targets /\ a \notin Copies
      BY <1>0, <1>4, <3>1 DEF Tasks
    <3>3. target[a].state = "LOCAL_DELETION_VERIFIED"
      BY <1>1, <3>2 DEF Mapped, Terminal
    <3> QED
      BY <1>0, <2>2, <3>2, <3>3 DEF TargetsSound, Holds
  <2> QED
    BY <2>1, <2>3, <2>4
<1>6. \A c \in Copies : ~ CopyHeld(c)
  BY <1>0, <1>1, <1>2 DEF TargetsSound, CopyHeld, Mapped
<1> QED
  BY <1>2, <1>5, <1>6, HeldParts

\* The receipt.
LEMMA FinalizeSteps ==
  ASSUME RecInv, finalize
  PROVE  RecInv' /\ Settled /\ Refined
<1>0. StoreInv /\ TargetsSound
  BY DEF RecInv
<1>1. /\ Complete /\ receipt = None /\ receipt' = plan_for_session
      /\ UNCHANGED <<copyOf, target>> /\ UNCHANGED storeVars
  BY DEF finalize
<1>2. StoreInv' /\ (Withdrawn' <=> Withdrawn) /\ op' = op /\ InHand' = InHand
      /\ UNCHANGED <<partial, final, quarantine>>
  BY <1>0, <1>1, StoreRests
<1>3. TargetsSound'
  BY <1>0, <1>1, <1>2 DEF TargetsSound
<1>4. Held = {} /\ Withdrawn
  BY <1>1, CompleteHoldsNothing
<1>5. Held' = Held
  <2>1. (\A a \in Artifacts : Holds(a)' <=> Holds(a)) /\ (\A c \in Copies : CopyHeld(c)' <=> CopyHeld(c))
    BY <1>1, <1>2 DEF Holds, CopyHeld, Terminal
  <2> QED
    BY <2>1, HeldParts
<1>6. receipt' # None
  <2>1. blocker_codes \subseteq BlockerCodes
    BY DEF blocker_codes, BlockerCodes
  <2>2. plan_for_session \in Plans
    BY <1>0, <2>1 DEF plan_for_session, Plans, TargetsSound
  <2> QED
    BY <1>1, <2>2, ReconciliationNone
<1>7. (receipt # None) = FALSE /\ (receipt # None)' = TRUE /\ Withdrawn' = Withdrawn /\ Withdrawn = TRUE
  BY <1>1, <1>2, <1>4, <1>6 DEF Withdrawn
<1>8. Refined
  BY <1>4, <1>5, <1>7 DEF Refined, Promise!Next, Promise!IssueReceipt
<1> QED
  BY <1>1, <1>2, <1>3, <1>8 DEF RecInv, Settled

\* The end of the process.
LEMMA DieSteps ==
  ASSUME RecInv, Die
  PROVE  RecInv' /\ Settled /\ Refined
<1>0. StoreInv
  BY DEF RecInv
<1>1. Crash /\ op' = Idle /\ UNCHANGED <<partial, final, quarantine, copyOf, target, receipt>>
  BY DEF Die, Crash, disk, journal
<1>2. StoreInv' /\ (Withdrawn' <=> Withdrawn)
  BY <1>0, <1>1, OutsideSteps
<1>3. FilesMove
  BY <1>1 DEF FilesMove, Holds
<1> QED
  BY <1>1, <1>2, <1>3, IdleOp, TargetFrame

\* The last part of the next start.
LEMMA RecoverRunSteps ==
  ASSUME RecInv, recover_runs
  PROVE  RecInv' /\ Settled /\ Refined
<1>0. StoreInv /\ TargetsSound /\ target \in [Targets -> Rows \cup {None}]
  BY DEF RecInv, TargetsSound
<1>a. Artifacts \subseteq Targets /\ Artifacts \cap Copies = {}
  BY ReconciliationBounds DEF Targets
<1>1. /\ recover_end /\ op' = Idle /\ UNCHANGED <<partial, final, quarantine, copyOf, receipt>>
      /\ target' = [t \in Targets |-> IF t \in In({"IN_PROGRESS"})
                                      THEN Row("RECOVERY_REQUIRED", target[t].version + 1) ELSE target[t]]
  BY DEF recover_runs, recover_end, disk
<1>2. StoreInv' /\ (Withdrawn' <=> Withdrawn)
  BY <1>0, <1>1, RecoverSteps
<1>3. \A t \in In({"IN_PROGRESS"}) : t \in Targets /\ target[t] # None /\ target[t].state = "IN_PROGRESS"
  BY DEF In, Mapped
<1>4. \A t \in In({"IN_PROGRESS"}) : /\ target'[t] \in Rows /\ target'[t] # None
                                     /\ target'[t].state = "RECOVERY_REQUIRED"
  <2> SUFFICES ASSUME NEW t \in In({"IN_PROGRESS"})
               PROVE  target'[t] \in Rows /\ target'[t] # None /\ target'[t].state = "RECOVERY_REQUIRED"
    OBVIOUS
  <2>1. target[t] \in Rows /\ target'[t] = Row("RECOVERY_REQUIRED", target[t].version + 1)
    BY <1>0, <1>1, <1>3
  <2>2. "RECOVERY_REQUIRED" \in Unsigned
    BY DEF Unsigned
  <2>3. /\ Row("RECOVERY_REQUIRED", target[t].version + 1) \in Rows
        /\ Row("RECOVERY_REQUIRED", target[t].version + 1) # None
        /\ Row("RECOVERY_REQUIRED", target[t].version + 1).state = "RECOVERY_REQUIRED"
    BY <2>1, <2>2, RowTyped
  <2> QED
    BY <2>1, <2>3
<1>5. \A t \in Targets \ In({"IN_PROGRESS"}) : target'[t] = target[t]
  BY <1>1
<1>6. target' \in [Targets -> Rows \cup {None}]
  <2>1. target' = [t \in Targets |-> target'[t]]
    BY <1>1
  <2>2. \A t \in Targets : target'[t] \in Rows \cup {None}
    BY <1>0, <1>4, <1>5
  <2> QED
    BY <2>1, <2>2
<1>7. \A t \in In({"IN_PROGRESS"}) : ~ Terminal(t) /\ ~ Terminal(t)'
  BY <1>3, <1>4 DEF Terminal
<1> QED
  BY <1>1, <1>2, <1>3, <1>4, <1>5, <1>6, <1>7, IdleOp, RunTargets

\* Nothing changes.
LEMMA Stuttering ==
  ASSUME RecInv, UNCHANGED vars
  PROVE  RecInv' /\ Settled /\ Refined
<1>1. UNCHANGED storeVars /\ UNCHANGED <<copyOf, target, receipt>>
  BY DEF vars, journal
<1>2. StoreInv' /\ (Withdrawn' <=> Withdrawn) /\ FilesMove /\ op' = op /\ InHand' = InHand
  BY <1>1, StoreRests DEF RecInv
<1> QED
  BY <1>1, <1>2, TargetFrame

\* Every step keeps the invariant, touches no settled target, and is a step or a stutter
\* of WithdrawalPromise.
LEMMA RecStep ==
  ASSUME RecInv, [Next]_vars
  PROVE  RecInv' /\ Settled /\ Refined
BY StoreSteps, ConfirmSteps, RunSteps, WithdrawSteps, FinalizeSteps, DieSteps, RecoverRunSteps, Stuttering DEF Next

\* Before the first session ends and the first file is written.
LEMMA RecBegins ==
  ASSUME Init
  PROVE  RecInv /\ Promise!Init
<1>1. /\ StoreInit /\ copyOf = [c \in Copies |-> None] /\ target = [t \in Targets |-> None] /\ receipt = None
      /\ Copies \subseteq Targets /\ Artifacts \subseteq Targets
  BY DEF Init, Targets
<1>2. StoreTypeOK
  BY <1>1, IdleOp, StoreBounds DEF StoreInit, StoreTypeOK, Contents
<1>3. ~ Withdrawn
  BY <1>1 DEF StoreInit, Withdrawn
<1>4. Withdrawal /\ Holder
  BY <1>1, <1>3, IdleOp, StoreNone DEF StoreInit, Withdrawal, Holder, StatusStates
<1>5. ASSUME NEW a \in Artifacts PROVE Kept(a) /\ ~ Holds(a)
  <2>1. /\ intent[a] = None /\ status[a] = None /\ partial[a] = "absent" /\ final[a] = "absent"
        /\ \A place \in Places : quarantine[<<a, place>>] = "absent"
        /\ "absent" \notin Bytes
    BY <1>1 DEF StoreInit, Bytes
  <2>2. \A k \in {"persist", "recover"} : \A step : ~ At(k, a, step)
    BY <1>1, IdleOp DEF StoreInit, At
  <2> QED
    BY <2>1, <2>2, StoreNone DEF Kept, Holds, IntentStates, StatusStates
<1>6. TargetsSound
  BY <1>1, <1>3, IdleOp DEF StoreInit, TargetsSound
<1>7. Held = {}
  <2>1. \A c \in Copies : ~ CopyHeld(c)
    BY <1>1 DEF CopyHeld
  <2> QED
    BY <1>5, <2>1, HeldParts
<1>8. Withdrawn = FALSE /\ (receipt # None) = FALSE
  BY <1>1, <1>3 DEF Withdrawn
<1> QED
  BY <1>2, <1>4, <1>5, <1>6, <1>7, <1>8 DEF RecInv, StoreInv, Promise!Init

\* Rows and files agree as long as nobody else touched the file: what the registry calls
\* VALID is on disk as it was written, and a final file without a row belongs to an
\* intent that is still unsettled (m2_persistence.persist and recover).
THEOREM FilesMatchRowsInvariant == Spec => []FilesMatchRows
<1>1. Init => RecInv
  BY RecBegins
<1>2. RecInv /\ [Next]_vars => RecInv'
  BY RecStep
<1>3. RecInv => FilesMatchRows
  BY StoreNone DEF RecInv, StoreInv, FilesMatchRows, Kept, StatusStates
<1> QED
  BY <1>1, <1>2, <1>3, PTL DEF Spec

\* A verified deletion and an attestation are never changed again, whatever fails and
\* whatever the next start recovers (reconciliation_execution.recover_runs).
THEOREM TerminalImmutableHolds == Spec => TerminalImmutable
<1> DEFINE Step == \A t \in Mapped : Terminal(t) => target'[t] = target[t]
<1>1. Init => RecInv
  BY RecBegins
<1>2. RecInv /\ [Next]_vars => RecInv'
  BY RecStep
<1>3. RecInv /\ [Next]_vars => [Step]_vars
  BY RecStep DEF Settled
<1> QED
  BY <1>1, <1>2, <1>3, PTL DEF Spec, TerminalImmutable

\* The artifact store and the reconciliation implement WithdrawalPromise: data appear only
\* before the withdrawal, afterwards they only go, and the receipt is issued once, when
\* nothing is held (m2_persistence and reconciliation_execution.finalize together).
THEOREM PromiseKeptTheorem == Spec => PromiseKept
<1>1. Init => RecInv /\ Promise!Init
  BY RecBegins
<1>2. RecInv /\ [Next]_vars => RecInv'
  BY RecStep
<1>3. RecInv /\ [Next]_vars => [Promise!Next]_(Promise!promise)
  BY RecStep DEF Refined
<1> QED
  BY <1>1, <1>2, <1>3, PTL DEF Spec, PromiseKept, Promise!Spec

-----------------------------------------------------------------------------
(* What a run deletes.  The invariant adds to RecInv what the attempts in   *)
(* the journal say, and what the run under way may rely on.                 *)

Open     == {"PREDELETE_PENDING", "PREDELETE_VERIFIED"}
Stages   == Open \cup {"ABSENCE_VERIFIED", "BLOCKED", "RECOVERY_REQUIRED"}
Attempts == [run : Challenges, target : Artifacts, stage : Stages, snapshot : Contents \cup {None}, number : Nat]

\* What a run or its interruption may still compare a file with.
Evidence(x) == x.stage \in Open \cup {"RECOVERY_REQUIRED"} /\ x.snapshot # None

\* The attempts: one for each target of a run that began, of finitely many numbers; an open one
\* is the only open one at its target, and that is IN_PROGRESS; and all that recorded an object
\* at a target and did not settle it recorded the same.
AttemptsSound ==
  /\ run \in [Challenges -> RunStates \cup {None}]
  /\ attempts \subseteq Attempts /\ IsFiniteSet(attempts)
  /\ \E n \in Nat : \A x \in attempts : x.number <= n
  /\ \A x \in attempts : run[x.run] # None
  /\ \A x, y \in attempts : x.run = y.run /\ x.target = y.target => x = y
  /\ \A x \in attempts : x.stage \in Open => target[x.target] # None /\ target[x.target].state = "IN_PROGRESS"
  /\ \A x, y \in attempts : x.stage \in Open /\ y.stage \in Open /\ x.target = y.target => x = y
  /\ \A x, y \in attempts : x.target = y.target /\ Evidence(x) /\ Evidence(y) => x.snapshot = y.snapshot

\* The run's row of a target, in the plan that was confirmed.
Confirmed(a) ==
  /\ challenge[running].plan.targets[a].state \in Unsigned
  /\ target[a] = Row("IN_PROGRESS", challenge[running].plan.targets[a].version + 1)

\* The run under way: confirmed, not yet at what is left to do, and its attempt at the
\* artifact in hand says how far it is.
RunSound ==
  op.kind = "run" =>
    /\ running \in Challenges /\ run[running] # None /\ challenge[running].status = "CONSUMED"
    /\ \A a \in InHand : Confirmed(a)
    /\ \A a \in op.rest, x \in attempts : x.target = a => x.stage \notin Open /\ x.run # running
    /\ op.step # "next" =>
         \E x \in attempts : /\ x.run = running /\ x.target = op.artifact
                             /\ x.stage = IF op.step = "open" THEN "PREDELETE_PENDING" ELSE "PREDELETE_VERIFIED"
                             /\ op.step # "open" => x.snapshot # None
                             /\ op.step = "delete" => x.snapshot = final[op.artifact]

DelInv == RecInv /\ AttemptsSound /\ RunSound

\* Of attempts whose numbers are bounded there is a latest.
LEMMA LatestExists ==
  ASSUME NEW rs \in SUBSET Attempts, rs # {}, NEW n \in Nat, \A x \in rs : x.number <= n
  PROVE  Latest(rs) \in rs
<1> DEFINE R == OpToRel(<, Nat)
           T == {n - x.number : x \in rs}
<1>1. IsWellFoundedOn(R, Nat)
  BY NatLessThanWellFounded
<1>2. \A i, j \in Nat : i < j => <<i, j>> \in R
  BY DEF OpToRel
<1>3. \A x \in rs : x.number \in Nat /\ n - x.number \in Nat
  <2> SUFFICES ASSUME NEW x \in rs PROVE x.number \in Nat /\ n - x.number \in Nat
    OBVIOUS
  <2>1. x.number \in Nat /\ x.number <= n
    BY DEF Attempts
  <2> QED
    BY <2>1
<1>4. T \subseteq Nat /\ T # {}
  BY <1>3
<1> HIDE DEF R
<1>5. PICK m \in T : \A k \in T : ~ (<<k, m>> \in R)
  BY <1>1, <1>4, WFMin
<1>6. PICK x \in rs : m = n - x.number
  OBVIOUS
<1>7. \A y \in rs : y.number <= x.number
  <2> SUFFICES ASSUME NEW y \in rs PROVE y.number <= x.number
    OBVIOUS
  <2>1. n - y.number \in T
    OBVIOUS
  <2>2. ~ (n - y.number < n - x.number)
    BY <1>2, <1>3, <1>5, <1>6, <2>1
  <2>3. x.number \in Nat /\ y.number \in Nat
    BY <1>3
  <2> QED
    BY <2>2, <2>3
<1> QED
  BY <1>7 DEF Latest

\* No attempt and no run changes, and open attempts are at targets that stay IN_PROGRESS.
LEMMA AttemptsRest ==
  ASSUME AttemptsSound, UNCHANGED <<attempts, run>>,
         \A x \in attempts : x.stage \in Open => target'[x.target] = target[x.target]
  PROVE  AttemptsSound'
BY DEF AttemptsSound, Evidence

\* An attempt moves on.
LEMMA AttemptMoves ==
  ASSUME AttemptsSound, NEW x0 \in attempts, NEW x1 \in Attempts, attempts' = (attempts \ {x0}) \cup {x1},
         x1.run = x0.run, x1.target = x0.target, x1.number = x0.number, x0.stage \in Open,
         run' \in [Challenges -> RunStates \cup {None}], \A c \in Challenges : run[c] # None => run'[c] # None,
         x1.stage \in Open => target'[x0.target] = target[x0.target],
         \A x \in attempts : x.target # x0.target => target'[x.target] = target[x.target],
         Evidence(x1) => \A y \in attempts \ {x0} : y.target = x0.target /\ Evidence(y) => y.snapshot = x1.snapshot
  PROVE  AttemptsSound'
<1>1. attempts' \subseteq Attempts /\ \A x \in attempts' : x = x1 \/ (x \in attempts /\ x # x0)
  BY DEF AttemptsSound
<1>2. IsFiniteSet(attempts')
  <2>1. IsFiniteSet(attempts)
    BY DEF AttemptsSound
  <2>2. IsFiniteSet(attempts \ {x0})
    BY <2>1, FS_RemoveElement
  <2>3. IsFiniteSet((attempts \ {x0}) \cup {x1})
    BY <2>2, FS_AddElement
  <2> QED
    BY <2>3
<1>3. \E n \in Nat : \A x \in attempts' : x.number <= n
  BY <1>1 DEF AttemptsSound
<1>4. \A x \in attempts' : run'[x.run] # None
  <2>1. \A x \in attempts : run[x.run] # None /\ x.run \in Challenges
    BY DEF AttemptsSound, Attempts
  <2> QED
    BY <1>1, <2>1
<1>5. \A x, y \in attempts' : x.run = y.run /\ x.target = y.target => x = y
  <2>1. \A x, y \in attempts : x.run = y.run /\ x.target = y.target => x = y
    BY DEF AttemptsSound
  <2> QED
    BY <1>1, <2>1
<1>6. \A x \in attempts : x # x0 /\ x.stage \in Open => x.target # x0.target
  BY DEF AttemptsSound
<1>7. \A x \in attempts' : x.stage \in Open => target'[x.target] # None /\ target'[x.target].state = "IN_PROGRESS"
  <2>1. \A x \in attempts : x.stage \in Open => target[x.target] # None /\ target[x.target].state = "IN_PROGRESS"
    BY DEF AttemptsSound
  <2> QED
    BY <1>1, <1>6, <2>1
<1>8. \A x, y \in attempts' : x.stage \in Open /\ y.stage \in Open /\ x.target = y.target => x = y
  <2>1. \A x, y \in attempts : x.stage \in Open /\ y.stage \in Open /\ x.target = y.target => x = y
    BY DEF AttemptsSound
  <2> QED
    BY <1>1, <1>6, <2>1
<1>9. \A x, y \in attempts' : x.target = y.target /\ Evidence(x) /\ Evidence(y) => x.snapshot = y.snapshot
  <2>1. \A x, y \in attempts : x.target = y.target /\ Evidence(x) /\ Evidence(y) => x.snapshot = y.snapshot
    BY DEF AttemptsSound
  <2> QED
    BY <1>1, <2>1
<1> QED
  BY <1>1, <1>2, <1>3, <1>4, <1>5, <1>7, <1>8, <1>9 DEF AttemptsSound, Evidence

\* The attempt that Restage changes is the one of the run under way.
LEMMA RestageOne ==
  ASSUME AttemptsSound, NEW x0 \in attempts, x0.run = running, NEW stage \in Stages, NEW snapshot \in Contents \cup {None},
         Restage(x0.target, stage, snapshot)
  PROVE  \E x1 \in Attempts : /\ attempts' = (attempts \ {x0}) \cup {x1}
                              /\ x1.run = x0.run /\ x1.target = x0.target /\ x1.number = x0.number
                              /\ x1.stage = stage /\ x1.snapshot = snapshot
<1> DEFINE x1 == [x0 EXCEPT !.stage = stage, !.snapshot = snapshot]
<1>1. x0 \in Attempts
  BY DEF AttemptsSound
<1>2. x1 = [run |-> x0.run, target |-> x0.target, stage |-> stage, snapshot |-> snapshot, number |-> x0.number]
  <2> DEFINE staged == [x0 EXCEPT !.stage = stage]
  <2>1. staged = [run |-> x0.run, target |-> x0.target, stage |-> stage, snapshot |-> x0.snapshot, number |-> x0.number]
    BY <1>1 DEF Attempts
  <2>2. x1 = [staged EXCEPT !.snapshot = snapshot]
    BY Zenon
  <2> HIDE DEF staged, x1
  <2> QED
    BY <2>1, <2>2
<1>3. \A x \in attempts : x.run = running /\ x.target = x0.target => x = x0
  BY DEF AttemptsSound
<1>4. attempts' = {IF x.run = running /\ x.target = x0.target
                   THEN [x EXCEPT !.stage = stage, !.snapshot = snapshot] ELSE x : x \in attempts}
  BY Zenon DEF Restage
<1>5. \A y : y \in attempts' <=> \E x \in attempts : y = IF x = x0 THEN x1 ELSE x
  <2>1. \A x \in attempts : (IF x.run = running /\ x.target = x0.target
                             THEN [x EXCEPT !.stage = stage, !.snapshot = snapshot] ELSE x)
                            = IF x = x0 THEN x1 ELSE x
    <3> SUFFICES ASSUME NEW x \in attempts
                 PROVE  (IF x.run = running /\ x.target = x0.target
                         THEN [x EXCEPT !.stage = stage, !.snapshot = snapshot] ELSE x) = IF x = x0 THEN x1 ELSE x
      OBVIOUS
    <3>1. CASE x = x0
      BY <3>1, Zenon
    <3>2. CASE x # x0
      BY <1>3, <3>2, Zenon
    <3> QED
      BY <3>1, <3>2
  <2> QED
    BY <1>4, <2>1, Zenon
<1> HIDE DEF x1
<1>6. attempts' = (attempts \ {x0}) \cup {x1}
  BY <1>5
<1>7. x1 \in Attempts /\ x1.run = x0.run /\ x1.target = x0.target /\ x1.number = x0.number /\ x1.stage = stage /\ x1.snapshot = snapshot
  BY <1>1, <1>2 DEF Attempts
<1> QED
  BY <1>6, <1>7

\* The attempt at the artifact in hand.
LEMMA AttemptInHand ==
  ASSUME DelInv, op.kind = "run", op.step # "next"
  PROVE  \E x \in attempts : /\ x.run = running /\ x.target = op.artifact /\ x \in Attempts
                             /\ x.stage = IF op.step = "open" THEN "PREDELETE_PENDING" ELSE "PREDELETE_VERIFIED"
                             /\ op.step # "open" => x.snapshot # None
                             /\ op.step = "delete" => x.snapshot = final[op.artifact]
                             /\ Observed(op.artifact) = x.snapshot
<1>1. PICK x \in attempts : /\ x.run = running /\ x.target = op.artifact
                            /\ x.stage = IF op.step = "open" THEN "PREDELETE_PENDING" ELSE "PREDELETE_VERIFIED"
                            /\ op.step # "open" => x.snapshot # None
                            /\ op.step = "delete" => x.snapshot = final[op.artifact]
  BY DEF DelInv, RunSound
<1>2. \A y \in attempts : y.run = running /\ y.target = op.artifact => y = x
  BY <1>1 DEF DelInv, AttemptsSound
<1>3. (CHOOSE y \in attempts : y.run = running /\ y.target = op.artifact) = x
  BY <1>1, <1>2
<1>4. x \in Attempts
  BY DEF DelInv, AttemptsSound
<1> QED
  BY <1>1, <1>3, <1>4 DEF Observed

\* run_local
LEMMA RunBegins ==
  ASSUME DelInv, NEW c \in Challenges, run_local(c)
  PROVE  AttemptsSound' /\ RunSound'
<1>0. AttemptsSound /\ target \in [Targets -> Rows \cup {None}]
  BY DEF DelInv, RecInv, TargetsSound
<1>1. /\ challenge[c].status = "CONSUMED" /\ challenge[c].plan = plan_for_session /\ run[c] = None
      /\ run' = [run EXCEPT ![c] = "RUNNING"] /\ running' = c
      /\ target' = [t \in Targets |-> IF t \in authority_binding
                                      THEN Row("IN_PROGRESS", target[t].version + 1) ELSE target[t]]
      /\ op' = [Idle EXCEPT !.kind = "run", !.step = "next", !.rest = authority_binding]
      /\ UNCHANGED <<attempts, challenge>>
  BY DEF run_local
<1>2. op'.kind = "run" /\ op'.step = "next" /\ op'.rest = authority_binding /\ InHand' = authority_binding
  BY <1>1 DEF Idle, InHand
<1>3. \A a \in authority_binding : a \in Targets /\ a \in Artifacts /\ target[a] # None /\ target[a].state \in Unsigned
  BY DEF authority_binding, In, Mapped
<1>4. challenge[c].plan.targets = target
  BY <1>1 DEF plan_for_session
<1>5. /\ run' \in [Challenges -> RunStates \cup {None}] /\ run'[c] # None
      /\ \A d \in Challenges : run[d] # None => run'[d] # None
  BY <1>0, <1>1, ReconciliationNone DEF AttemptsSound, RunStates
<1>6. \A x \in attempts : /\ x.run \in Challenges /\ x.target \in Targets /\ run[x.run] # None
                          /\ x.stage \in Open => x.target \notin authority_binding
  <2>1. \A x \in attempts : x \in Attempts /\ run[x.run] # None
                            /\ (x.stage \in Open => target[x.target] # None /\ target[x.target].state = "IN_PROGRESS")
    BY <1>0 DEF AttemptsSound
  <2>2. "IN_PROGRESS" \notin Unsigned
    BY DEF Unsigned
  <2>3. \A x \in attempts : x.run \in Challenges /\ x.target \in Artifacts
    BY <2>1 DEF Attempts
  <2> QED
    BY <1>3, <2>1, <2>2, <2>3 DEF Targets
<1>7. AttemptsSound'
  <2>1. \A x \in attempts : x.stage \in Open => target'[x.target] = target[x.target]
    BY <1>1, <1>6
  <2>2. \A x \in attempts : run'[x.run] # None
    BY <1>5, <1>6
  <2> QED
    BY <1>0, <1>1, <1>5, <2>1, <2>2 DEF AttemptsSound, Evidence
<1>8. \A a \in authority_binding : Confirmed(a)'
  BY <1>1, <1>3, <1>4 DEF Confirmed
<1>9. \A a \in authority_binding, x \in attempts : x.target = a => x.stage \notin Open /\ x.run # c
  BY <1>1, <1>6
<1>10. RunSound'
  BY <1>1, <1>2, <1>5, <1>8, <1>9 DEF RunSound
<1> QED
  BY <1>7, <1>10

\* run_target
LEMMA RunTakes ==
  ASSUME DelInv, NEW a \in Artifacts, run_target(a)
  PROVE  AttemptsSound' /\ RunSound'
<1> DEFINE x1 == [run |-> running, target |-> a, stage |-> "PREDELETE_PENDING", snapshot |-> None,
                  number |-> Cardinality({x \in attempts : x.target = a}) + 1]
<1>0. AttemptsSound /\ RunSound /\ op \in Ops /\ Holder
  BY DEF DelInv, RecInv, StoreInv, StoreTypeOK
<1>1. /\ op.kind = "run" /\ op.step = "next" /\ a \in op.rest /\ attempts' = attempts \cup {x1}
      /\ op' = [op EXCEPT !.artifact = a, !.step = "open", !.rest = op.rest \ {a}]
      /\ UNCHANGED <<final, target, challenge, run, running>>
  BY DEF run_target, disk
<1>2. op'.kind = "run" /\ op'.step = "open" /\ op'.artifact = a /\ op'.rest = op.rest \ {a}
  BY <1>0, <1>1 DEF Ops
<1>3. InHand' = InHand /\ a \in InHand
  BY <1>1, <1>2 DEF InHand
<1>4. /\ running \in Challenges /\ run[running] # None /\ challenge[running].status = "CONSUMED"
      /\ \A b \in InHand : Confirmed(b)
      /\ \A b \in op.rest, x \in attempts : x.target = b => x.stage \notin Open /\ x.run # running
  BY <1>0, <1>1 DEF RunSound
<1>5. IsFiniteSet(attempts) /\ attempts \subseteq Attempts
  BY <1>0 DEF AttemptsSound
<1>6. x1 \in Attempts /\ x1.run = running /\ x1.target = a /\ x1.stage = "PREDELETE_PENDING" /\ x1.snapshot = None
  <2>1. IsFiniteSet({x \in attempts : x.target = a})
    BY <1>5, FS_Subset
  <2>2. Cardinality({x \in attempts : x.target = a}) + 1 \in Nat
    BY <2>1, FS_CardinalityType
  <2> QED
    BY <1>4, <2>2 DEF Attempts, Stages, Open
<1> HIDE DEF x1
<1>7. IsFiniteSet(attempts')
  BY <1>1, <1>5, FS_AddElement
<1>8. \E n \in Nat : \A x \in attempts' : x.number <= n
  <2>1. PICK n \in Nat : \A x \in attempts : x.number <= n
    BY <1>0 DEF AttemptsSound
  <2>2. x1.number \in Nat /\ \A x \in attempts : x.number \in Nat
    BY <1>5, <1>6 DEF Attempts
  <2>3. CASE x1.number <= n
    BY <1>1, <2>1, <2>3
  <2>4. CASE ~ (x1.number <= n)
    <3>1. \A x \in attempts' : x.number <= x1.number
      BY <1>1, <2>1, <2>2, <2>4
    <3> QED
      BY <2>2, <3>1
  <2> QED
    BY <2>3, <2>4
<1>9. Confirmed(a) /\ \A x \in attempts : x.target = a => x.stage \notin Open /\ x.run # running
  BY <1>1, <1>3, <1>4
<1>10. target[a] # None /\ target[a].state = "IN_PROGRESS"
  BY <1>1, <1>3 DEF DelInv, RecInv, TargetsSound
<1>11. AttemptsSound'
  <2>1. ~ Evidence(x1)
    BY <1>6 DEF Evidence
  <2>2. \A x, y \in attempts' : x.run = y.run /\ x.target = y.target => x = y
    <3>1. \A x, y \in attempts : x.run = y.run /\ x.target = y.target => x = y
      BY <1>0 DEF AttemptsSound
    <3> QED
      BY <1>1, <1>6, <1>9, <3>1
  <2>3. \A x, y \in attempts' : x.stage \in Open /\ y.stage \in Open /\ x.target = y.target => x = y
    <3>1. \A x, y \in attempts : x.stage \in Open /\ y.stage \in Open /\ x.target = y.target => x = y
      BY <1>0 DEF AttemptsSound
    <3> QED
      BY <1>1, <1>6, <1>9, <3>1
  <2>4. \A x, y \in attempts' : x.target = y.target /\ Evidence(x) /\ Evidence(y) => x.snapshot = y.snapshot
    <3>1. \A x, y \in attempts : x.target = y.target /\ Evidence(x) /\ Evidence(y) => x.snapshot = y.snapshot
      BY <1>0 DEF AttemptsSound
    <3> QED
      BY <1>1, <2>1, <3>1
  <2>5. \A x \in attempts' : run'[x.run] # None
    <3>1. \A x \in attempts : run[x.run] # None
      BY <1>0 DEF AttemptsSound
    <3> QED
      BY <1>1, <1>4, <1>6, <3>1
  <2>6. \A x \in attempts' : x.stage \in Open => target'[x.target] # None /\ target'[x.target].state = "IN_PROGRESS"
    <3>1. \A x \in attempts : x.stage \in Open => target[x.target] # None /\ target[x.target].state = "IN_PROGRESS"
      BY <1>0 DEF AttemptsSound
    <3> QED
      BY <1>1, <1>6, <1>10, <3>1
  <2>7. attempts' \subseteq Attempts /\ run' \in [Challenges -> RunStates \cup {None}]
    BY <1>0, <1>1, <1>5, <1>6 DEF AttemptsSound
  <2> QED
    BY <1>7, <1>8, <2>2, <2>3, <2>4, <2>5, <2>6, <2>7 DEF AttemptsSound, Evidence
<1>12. RunSound'
  <2>1. \A b \in InHand' : Confirmed(b)'
    BY <1>1, <1>3, <1>4 DEF Confirmed
  <2>2. \A b \in op'.rest, x \in attempts' : x.target = b => x.stage \notin Open /\ x.run # running
    BY <1>1, <1>2, <1>4, <1>6
  <2>3. x1 \in attempts'
    BY <1>1
  <2> QED
    BY <1>1, <1>2, <1>4, <1>6, <2>1, <2>2, <2>3 DEF RunSound
<1> QED
  BY <1>11, <1>12

\* delete_verified: what it records is what every interrupted attempt recorded.
LEMMA RunVerifies ==
  ASSUME DelInv, NEW a \in Artifacts, delete_verified(a)
  PROVE  AttemptsSound' /\ RunSound'
<1>0. /\ AttemptsSound /\ RunSound /\ op \in Ops /\ Holder /\ final \in [Artifacts -> Contents]
  BY DEF DelInv, RecInv, StoreInv, StoreTypeOK
<1>1. /\ op.kind = "run" /\ op.step = "open" /\ op.artifact = a /\ final[a] \in Matching
      /\ recovery_snapshots(a) # {} => final[a] = Latest(recovery_snapshots(a)).snapshot
      /\ Restage(a, "PREDELETE_VERIFIED", final[a]) /\ op' = [op EXCEPT !.step = "delete"]
      /\ UNCHANGED <<final, target, challenge, run, running>>
  BY DEF delete_verified, disk, At, Goto
<1>2. op'.kind = "run" /\ op'.step = "delete" /\ op'.artifact = a /\ op'.rest = op.rest /\ a \notin op.rest
  BY <1>0, <1>1 DEF Ops, Holder
<1>3. PICK x0 \in attempts : x0.run = running /\ x0.target = a /\ x0.stage = "PREDELETE_PENDING"
  BY <1>1, AttemptInHand
<1>4. PICK x1 \in Attempts : /\ attempts' = (attempts \ {x0}) \cup {x1}
                             /\ x1.run = x0.run /\ x1.target = x0.target /\ x1.number = x0.number
                             /\ x1.stage = "PREDELETE_VERIFIED" /\ x1.snapshot = final[a]
  <2>1. "PREDELETE_VERIFIED" \in Stages /\ final[a] \in Contents \cup {None}
    BY <1>0 DEF Stages, Open
  <2>2. Restage(x0.target, "PREDELETE_VERIFIED", final[a])
    BY <1>1, <1>3
  <2> QED
    BY <1>0, <1>3, <2>1, <2>2, RestageOne
<1>5. final[a] # None
  BY <1>0, ReconciliationNone
<1>6. \A y \in attempts \ {x0} : y.target = a /\ Evidence(y) => y.snapshot = final[a]
  <2> SUFFICES ASSUME NEW y \in attempts \ {x0}, y.target = a, Evidence(y) PROVE y.snapshot = final[a]
    OBVIOUS
  <2>1. y.stage \notin Open
    BY <1>0, <1>3 DEF AttemptsSound, Open
  <2>2. y \in recovery_snapshots(a)
    BY <2>1 DEF Evidence, recovery_snapshots
  <2>3. Latest(recovery_snapshots(a)) \in recovery_snapshots(a)
    <3>1. PICK n \in Nat : \A x \in attempts : x.number <= n
      BY <1>0 DEF AttemptsSound
    <3>2. recovery_snapshots(a) \in SUBSET Attempts /\ \A x \in recovery_snapshots(a) : x.number <= n
      BY <1>0, <3>1 DEF AttemptsSound, recovery_snapshots
    <3> QED
      BY <2>2, <3>2, LatestExists
  <2> DEFINE z == Latest(recovery_snapshots(a))
  <2> HIDE DEF z
  <2>4. z \in attempts /\ z.target = a /\ Evidence(z)
    BY <2>3 DEF recovery_snapshots, Evidence, z
  <2>5. z.snapshot = y.snapshot
    BY <1>0, <2>4 DEF AttemptsSound
  <2> QED
    BY <1>1, <2>2, <2>5 DEF z
<1>7. AttemptsSound'
  <2>1. x0.stage \in Open
    BY <1>3 DEF Open
  <2>2. run' \in [Challenges -> RunStates \cup {None}]
    BY <1>0, <1>1 DEF AttemptsSound
  <2> QED
    BY <1>0, <1>1, <1>3, <1>4, <1>6, <2>1, <2>2, AttemptMoves
<1>8. RunSound'
  <2>1. InHand' = InHand
    BY <1>1, <1>2 DEF InHand
  <2>2. /\ running \in Challenges /\ run[running] # None /\ challenge[running].status = "CONSUMED"
        /\ \A b \in InHand : Confirmed(b)
        /\ \A b \in op.rest, x \in attempts : x.target = b => x.stage \notin Open /\ x.run # running
    BY <1>0, <1>1 DEF RunSound
  <2>3. \A b \in InHand' : Confirmed(b)'
    BY <1>1, <2>1, <2>2 DEF Confirmed
  <2>4. \A b \in op'.rest, x \in attempts' : x.target = b => x.stage \notin Open /\ x.run # running
    BY <1>2, <1>3, <1>4, <2>2
  <2>5. x1 \in attempts' /\ x1.run = running /\ x1.target = a
    BY <1>3, <1>4
  <2> QED
    BY <1>1, <1>2, <1>4, <1>5, <2>2, <2>3, <2>4, <2>5 DEF RunSound
<1> QED
  BY <1>7, <1>8

\* delete_file
LEMMA RunDeletes ==
  ASSUME DelInv, NEW a \in Artifacts, delete_file(a)
  PROVE  AttemptsSound' /\ RunSound'
<1>0. AttemptsSound /\ RunSound /\ op \in Ops
  BY DEF DelInv, RecInv, StoreInv, StoreTypeOK
<1>1. /\ op.kind = "run" /\ op.step = "delete" /\ op.artifact = a /\ op' = [op EXCEPT !.step = "absence"]
      /\ UNCHANGED <<attempts, target, challenge, run, running>>
  BY DEF delete_file, journal, At, Goto
<1>2. op'.kind = "run" /\ op'.step = "absence" /\ op'.artifact = a /\ op'.rest = op.rest
  BY <1>0, <1>1 DEF Ops
<1>3. InHand' = InHand
  BY <1>1, <1>2 DEF InHand
<1>4. \A b : Confirmed(b)' = Confirmed(b)
  BY <1>1 DEF Confirmed
<1>5. RunSound'
  BY <1>0, <1>1, <1>2, <1>3, <1>4 DEF RunSound
<1> QED
  BY <1>0, <1>1, <1>5, AttemptsRest

\* The run leaves its target in another state than IN_PROGRESS: blocked, to be recovered, or
\* deleted for good.
LEMMA RunSettles ==
  ASSUME DelInv, NEW a \in Artifacts, op.kind = "run", op.artifact = a, op.step # "next",
         NEW stage \in {"BLOCKED", "RECOVERY_REQUIRED", "ABSENCE_VERIFIED"}, Restage(a, stage, Observed(a)),
         stage = "RECOVERY_REQUIRED" => op.step = "absence",
         NEW row, target' = [target EXCEPT ![a] = row],
         run' \in [Challenges -> RunStates \cup {None}], \A c \in Challenges : run[c] # None => run'[c] # None
  PROVE  /\ AttemptsSound'
         /\ \A x \in attempts' : x.target # a => x \in attempts
<1>0. AttemptsSound /\ target \in [Targets -> Rows \cup {None}]
  BY DEF DelInv, RecInv, TargetsSound
<1>1. PICK x0 \in attempts : /\ x0.run = running /\ x0.target = a /\ x0 \in Attempts
                             /\ x0.stage \in Open /\ Observed(a) = x0.snapshot
  BY AttemptInHand DEF Open
<1>2. x0.snapshot \in Contents \cup {None} /\ stage \in Stages
  BY <1>1 DEF Attempts, Stages
<1>3. PICK x1 \in Attempts : /\ attempts' = (attempts \ {x0}) \cup {x1}
                             /\ x1.run = x0.run /\ x1.target = x0.target /\ x1.number = x0.number
                             /\ x1.stage = stage /\ x1.snapshot = x0.snapshot
  <2>1. Restage(x0.target, stage, x0.snapshot)
    BY <1>1
  <2> QED
    BY <1>0, <1>1, <1>2, <2>1, RestageOne
<1>4. \A x \in attempts : x.target # a => target'[x.target] = target[x.target]
  <2>1. \A x \in attempts : x.target \in Targets
    BY <1>0 DEF AttemptsSound, Attempts, Targets
  <2> QED
    BY <1>0, <2>1
<1>5. x1.stage \notin Open /\ (Evidence(x1) => Evidence(x0))
  BY <1>1, <1>3 DEF Open, Evidence
<1>6. Evidence(x1) => \A y \in attempts \ {x0} : y.target = x0.target /\ Evidence(y) => y.snapshot = x1.snapshot
  BY <1>0, <1>3, <1>5 DEF AttemptsSound
<1>7. AttemptsSound'
  BY <1>0, <1>1, <1>3, <1>4, <1>5, <1>6, AttemptMoves
<1> QED
  BY <1>1, <1>3, <1>7

\* delete_blocked, delete_unverified and absence_verified
LEMMA RunEnds ==
  ASSUME DelInv, NEW a \in Artifacts, delete_blocked(a) \/ delete_unverified(a) \/ absence_verified(a)
  PROVE  AttemptsSound' /\ RunSound'
<1>0. /\ AttemptsSound /\ RunSound /\ op \in Ops /\ Holder /\ run \in [Challenges -> RunStates \cup {None}]
      /\ target \in [Targets -> Rows \cup {None}]
  BY DEF DelInv, RecInv, StoreInv, StoreTypeOK, TargetsSound, AttemptsSound
<1>1. op.kind = "run" /\ op.artifact = a /\ op.step # "next" /\ running \in Challenges /\ run[running] # None
  BY <1>0 DEF delete_blocked, delete_unverified, absence_verified, At, RunSound
<1>2. CASE delete_blocked(a) \/ delete_unverified(a)
  <2>1. PICK result \in {"BLOCKED", "RECOVERY_REQUIRED"} :
          /\ Restage(a, result, Observed(a)) /\ target' = [target EXCEPT ![a] = Row(result, target[a].version + 1)]
          /\ run' = [run EXCEPT ![running] = result] /\ op' = Idle
          /\ result = "RECOVERY_REQUIRED" => op.step = "absence"
    BY <1>2 DEF delete_blocked, delete_unverified, DeletionBlocked, At
  <2>2. run' \in [Challenges -> RunStates \cup {None}] /\ \A c \in Challenges : run[c] # None => run'[c] # None
    BY <1>0, <1>1, <2>1, ReconciliationNone DEF RunStates
  <2>3. AttemptsSound'
    BY <1>1, <2>1, <2>2, RunSettles
  <2>4. RunSound'
    BY <2>1, IdleOp DEF RunSound
  <2> QED
    BY <2>3, <2>4
<1>3. CASE absence_verified(a)
  <2>1. /\ Restage(a, "ABSENCE_VERIFIED", Observed(a))
        /\ target' = [target EXCEPT ![a] = Row("LOCAL_DELETION_VERIFIED", target[a].version + 1)]
        /\ op' = [op EXCEPT !.artifact = None, !.step = "next"]
        /\ UNCHANGED <<final, challenge, run, running>>
    BY <1>3 DEF absence_verified, disk
  <2>2. op'.kind = "run" /\ op'.step = "next" /\ op'.rest = op.rest /\ a \notin op.rest /\ op.rest \subseteq Artifacts
    BY <1>0, <1>1, <2>1 DEF Ops, Holder
  <2>3. AttemptsSound' /\ \A x \in attempts' : x.target # a => x \in attempts
    BY <1>0, <1>1, <2>1, RunSettles
  <2>4. InHand' = op.rest /\ InHand' \subseteq InHand
    BY <1>1, <2>2 DEF InHand
  <2>5. \A b \in InHand' : target'[b] = target[b]
    BY <1>0, <2>1, <2>2, <2>4 DEF Targets
  <2>6. \A b \in InHand' : Confirmed(b)'
    BY <1>0, <1>1, <2>1, <2>4, <2>5 DEF RunSound, Confirmed
  <2>7. \A b \in op'.rest, x \in attempts' : x.target = b => x.stage \notin Open /\ x.run # running
    BY <1>0, <1>1, <2>2, <2>3 DEF RunSound
  <2>8. RunSound'
    BY <1>0, <1>1, <2>1, <2>2, <2>6, <2>7 DEF RunSound
  <2> QED
    BY <2>3, <2>8
<1> QED
  BY <1>2, <1>3

\* run_completed and run_raises
LEMMA RunLeaves ==
  ASSUME DelInv, run_completed \/ run_raises
  PROVE  AttemptsSound' /\ RunSound'
<1>0. AttemptsSound /\ RunSound /\ run \in [Challenges -> RunStates \cup {None}]
  BY DEF DelInv, AttemptsSound
<1>1. op' = Idle /\ UNCHANGED <<attempts, target>> /\ (run' = run \/ run' = [run EXCEPT ![running] = "COMPLETED"])
  BY DEF run_completed, run_raises, journal
<1>2. run' \in [Challenges -> RunStates \cup {None}] /\ \A c \in Challenges : run[c] # None => run'[c] # None
  BY <1>0, <1>1, ReconciliationNone DEF RunStates
<1>3. \A x \in attempts : x.run \in Challenges
  BY <1>0 DEF AttemptsSound, Attempts
<1>4. AttemptsSound'
  BY <1>0, <1>1, <1>2, <1>3 DEF AttemptsSound, Evidence
<1> QED
  BY <1>1, <1>4, IdleOp DEF RunSound

\* Nothing of the run changes, or the run was not under way.
LEMMA RunRests ==
  ASSUME DelInv, UNCHANGED <<attempts, run, target>>,
         op'.kind = "run" => /\ op' = op /\ UNCHANGED <<challenge, running>>
                             /\ op.step = "delete" => final'[op.artifact] = final[op.artifact]
  PROVE  AttemptsSound' /\ RunSound'
<1>1. AttemptsSound'
  BY AttemptsRest DEF DelInv
<1>2. CASE op'.kind = "run"
  <2>1. InHand' = InHand /\ \A a : Confirmed(a)' = Confirmed(a)
    BY <1>2 DEF InHand, Confirmed
  <2> QED
    BY <1>1, <1>2, <2>1 DEF DelInv, RunSound
<1> QED
  BY <1>1, <1>2 DEF RunSound

\* The store's own steps, and somebody else's.
LEMMA StoreKeeps ==
  ASSUME DelInv, Store
  PROVE  AttemptsSound' /\ RunSound'
<1>0. StoreInv /\ final \in [Artifacts -> Contents] /\ Holder
  BY DEF DelInv, RecInv, StoreInv, StoreTypeOK
<1>1. UNCHANGED <<attempts, run, target, challenge, running>>
  BY DEF Store, journal
<1>2. op'.kind = "run" => op' = op
  BY <1>0, StoreLeavesRun
<1>3. CASE \E a \in Artifacts : Tamper(a)
  <2>1. PICK a \in Artifacts : ~ Guarded(a) /\ \A b \in Artifacts \ {a} : final'[b] = final[b]
    BY <1>0, <1>3 DEF Tamper
  <2>2. op.kind = "run" /\ op.step = "delete" => op.artifact \in Artifacts \ {a}
    BY <1>0, <2>1 DEF Guarded, At, Holder
  <2> QED
    BY <1>1, <1>2, <2>1, <2>2, RunRests
<1>4. CASE Persist \/ Quarantine \/ Recover
  <2>1. op'.kind # "run"
    BY <1>0, <1>4, StoreNotRun
  <2> QED
    BY <1>1, <2>1, RunRests
<1> QED
  BY <1>3, <1>4 DEF Store

\* What a reviewer does, the withdrawal, the receipt, the end of the process.
LEMMA OthersKeep ==
  ASSUME DelInv, Confirm \/ Withdraw \/ finalize \/ Die
                 \/ (\E c \in Copies, a \in Artifacts : register_external_target(c, a))
  PROVE  AttemptsSound' /\ RunSound'
<1>0. /\ AttemptsSound /\ TargetsSound /\ target \in [Targets -> Rows \cup {None}]
      /\ \A x \in attempts : x.target \in Targets /\ x.target \notin Copies
  BY ReconciliationBounds DEF DelInv, RecInv, TargetsSound, AttemptsSound, Attempts, Targets
<1>1. CASE Die
  BY <1>1, IdleOp, RunRests DEF Die, Crash, journal
<1>2. CASE Withdraw
  <2>1. op = Idle /\ op' = op /\ ~ Withdrawn /\ UNCHANGED <<attempts, run>>
    BY <1>2 DEF Withdraw, withdraw
  <2>2. \A x \in attempts : x.stage \notin Open
    BY <1>0, <2>1 DEF AttemptsSound, TargetsSound
  <2>3. AttemptsSound'
    BY <1>0, <2>1, <2>2, AttemptsRest
  <2> QED
    BY <2>1, <2>3, IdleOp DEF RunSound
<1>3. ASSUME NEW c \in Challenges, attest_external_deletion(c) PROVE AttemptsSound' /\ RunSound'
  <2>1. /\ op = Idle /\ op' = op /\ UNCHANGED <<attempts, run>> /\ challenge[c].action \in Copies
        /\ target' = [target EXCEPT ![challenge[c].action] =
                        Row("EXTERNAL_DELETION_ATTESTED", target[challenge[c].action].version + 1)]
    BY <1>3 DEF attest_external_deletion, Presented, storeVars
  <2>2. \A x \in attempts : target'[x.target] = target[x.target]
    BY <1>0, <2>1
  <2>3. AttemptsSound'
    BY <1>0, <2>1, <2>2, AttemptsRest
  <2> QED
    BY <2>1, <2>3, IdleOp DEF RunSound
<1>4. ASSUME op = Idle, UNCHANGED storeVars, UNCHANGED <<attempts, run, target>> PROVE AttemptsSound' /\ RunSound'
  <2>1. op'.kind # "run"
    BY <1>4, IdleOp DEF storeVars
  <2> QED
    BY <1>4, <2>1, RunRests
<1>5. CASE finalize \/ (\E c \in Copies, a \in Artifacts : register_external_target(c, a))
  BY <1>4, <1>5 DEF finalize, register_external_target
<1>6. CASE invalidate_reviewer_session \/ issue_reviewer_token \/ import_procedure_authority
  BY <1>4, <1>6 DEF invalidate_reviewer_session, issue_reviewer_token, import_procedure_authority
<1>7. ASSUME NEW c \in Challenges, (\E action \in Copies \cup {Local} : create_challenge(c, action))
                                   \/ consume_challenge(c) \/ consume_rejected(c)
      PROVE  AttemptsSound' /\ RunSound'
  <2>1. CASE \E action \in Copies \cup {Local} : create_challenge(c, action)
    BY <1>4, <2>1 DEF create_challenge
  <2>2. CASE consume_challenge(c)
    BY <1>4, <2>2 DEF consume_challenge, Presented
  <2>3. CASE consume_rejected(c)
    BY <1>4, <2>3 DEF consume_rejected
  <2> QED
    BY <1>7, <2>1, <2>2, <2>3
<1> QED
  BY <1>1, <1>2, <1>3, <1>5, <1>6, <1>7 DEF Confirm

\* recover_runs: what was under way is to be recovered, with the object it recorded.
LEMMA RecoveryKeeps ==
  ASSUME DelInv, recover_runs
  PROVE  AttemptsSound' /\ RunSound'
<1> DEFINE back(x) == IF x.stage \in Open THEN [x EXCEPT !.stage = "RECOVERY_REQUIRED"] ELSE x
<1>0. AttemptsSound /\ run \in [Challenges -> RunStates \cup {None}] /\ attempts \subseteq Attempts
  BY DEF DelInv, AttemptsSound
<1>1. /\ attempts' = {back(x) : x \in attempts} /\ op' = Idle
      /\ run' = [c \in Challenges |-> IF run[c] = "RUNNING" THEN "RECOVERY_REQUIRED" ELSE run[c]]
  BY DEF recover_runs, recover_end, Open
<1>2. \A x \in attempts : /\ back(x) \in Attempts /\ back(x).run = x.run /\ back(x).target = x.target
                          /\ back(x).number = x.number /\ back(x).snapshot = x.snapshot
                          /\ back(x).stage \notin Open
                          /\ back(x).stage = IF x.stage \in Open THEN "RECOVERY_REQUIRED" ELSE x.stage
  BY <1>0 DEF Attempts, Stages, Open
<1>3. \A y \in attempts' : \E x \in attempts : y = back(x)
  BY <1>1
<1>4. IsFiniteSet(attempts')
  <2> DEFINE f == [x \in attempts |-> back(x)]
  <2>1. f \in Surjection(attempts, attempts')
    BY <1>1 DEF Surjection
  <2>2. IsFiniteSet(attempts)
    BY <1>0 DEF AttemptsSound
  <2> HIDE DEF f
  <2> QED
    BY <2>1, <2>2, FS_Surjection
<1> HIDE DEF back
<1>5. attempts' \subseteq Attempts /\ \A y \in attempts' : y.stage \notin Open
  BY <1>2, <1>3
<1>6. \E n \in Nat : \A y \in attempts' : y.number <= n
  <2>1. PICK n \in Nat : \A x \in attempts : x.number <= n
    BY <1>0 DEF AttemptsSound
  <2>2. \A y \in attempts' : y.number <= n
    BY <1>2, <1>3, <2>1
  <2> QED
    BY <2>2
<1>7. /\ run' \in [Challenges -> RunStates \cup {None}] /\ \A c \in Challenges : run[c] # None => run'[c] # None
  BY <1>0, <1>1, ReconciliationNone DEF RunStates
<1>8. \A y \in attempts' : run'[y.run] # None
  <2>1. \A x \in attempts : run[x.run] # None /\ x.run \in Challenges
    BY <1>0 DEF AttemptsSound, Attempts
  <2> QED
    BY <1>2, <1>3, <1>7, <2>1
<1>9. \A y, z \in attempts' : y.run = z.run /\ y.target = z.target => y = z
  <2>1. \A y, z \in attempts : y.run = z.run /\ y.target = z.target => y = z
    BY <1>0 DEF AttemptsSound
  <2> SUFFICES ASSUME NEW y \in attempts', NEW z \in attempts', y.run = z.run, y.target = z.target PROVE y = z
    OBVIOUS
  <2>2. PICK u \in attempts : y = back(u)
    BY <1>3
  <2>3. PICK v \in attempts : z = back(v)
    BY <1>3
  <2>4. u = v
    BY <1>2, <2>1, <2>2, <2>3
  <2> QED
    BY <2>2, <2>3, <2>4
<1>10. \A y, z \in attempts' : y.target = z.target /\ Evidence(y) /\ Evidence(z) => y.snapshot = z.snapshot
  <2> SUFFICES ASSUME NEW y \in attempts', NEW z \in attempts', y.target = z.target, Evidence(y), Evidence(z)
               PROVE  y.snapshot = z.snapshot
    OBVIOUS
  <2>2. PICK u \in attempts : y = back(u)
    BY <1>3
  <2>3. PICK v \in attempts : z = back(v)
    BY <1>3
  <2>4. Evidence(u) /\ Evidence(v) /\ u.target = v.target
    BY <1>2, <2>2, <2>3 DEF Evidence
  <2>5. u.snapshot = v.snapshot
    BY <1>0, <2>4 DEF AttemptsSound
  <2> QED
    BY <1>2, <2>2, <2>3, <2>5
<1>11. AttemptsSound'
  BY <1>4, <1>5, <1>6, <1>7, <1>8, <1>9, <1>10 DEF AttemptsSound, Evidence
<1> QED
  BY <1>1, <1>11, IdleOp DEF RunSound

\* Every step keeps the invariant.
LEMMA DelStep == DelInv /\ [Next]_vars => DelInv'
<1> SUFFICES ASSUME DelInv, [Next]_vars PROVE DelInv'
  OBVIOUS
<1>1. RecInv'
  BY RecStep DEF DelInv
<1>2. CASE UNCHANGED vars
  <2>1. UNCHANGED <<attempts, run, target, challenge, running, op, final>>
    BY <1>2 DEF vars, storeVars, disk, journal
  <2> QED
    BY <1>1, <2>1, RunRests DEF DelInv
<1>3. CASE Next
  <2>1. CASE Run
    BY <1>1, <2>1, RunBegins, RunTakes, RunVerifies, RunDeletes, RunEnds, RunLeaves DEF Run, DelInv
  <2>2. CASE ~ Run
    BY <1>1, <1>3, <2>2, StoreKeeps, OthersKeep, RecoveryKeeps DEF Next, DelInv
  <2> QED
    BY <2>1, <2>2
<1> QED
  BY <1>2, <1>3

\* At first there is no attempt and no run.
LEMMA DelBegins == Init => DelInv
<1> SUFFICES ASSUME Init PROVE DelInv
  OBVIOUS
<1>1. attempts = {} /\ run = [c \in Challenges |-> None] /\ op.kind = "idle"
  BY IdleOp DEF Init, StoreInit
<1>2. AttemptsSound
  <2>1. IsFiniteSet({}) /\ 0 \in Nat
    BY FS_EmptySet
  <2> QED
    BY <1>1, <2>1 DEF AttemptsSound
<1>3. RunSound
  BY <1>1 DEF RunSound
<1> QED
  BY <1>2, <1>3, RecBegins DEF DelInv

\* A run removes a file only when the object at the leaf is the one its own attempt recorded
\* and, if attempts at the target were interrupted before, the one they recorded; and only under
\* a confirmation that was consumed for a plan with the target open, in the version it had when
\* the run began (reconciliation_execution.run_local, m2_deletion.delete_verified).
THEOREM DeletionJustifiedHolds == Spec => DeletionJustified
<1> DEFINE Justified ==
      \A a \in Artifacts : At("run", a, "delete") /\ final'[a] # final[a] =>
        LET row == challenge[running].plan.targets[a]
        IN /\ Observed(a) = final[a]
           /\ \A x \in recovery_snapshots(a) : x.snapshot = final[a]
           /\ challenge[running].status = "CONSUMED"
           /\ row.state \in Unsigned
           /\ target[a] = Row("IN_PROGRESS", row.version + 1)
<1>1. DelInv => Justified
  <2> SUFFICES ASSUME DelInv, NEW a \in Artifacts, At("run", a, "delete")
               PROVE  LET row == challenge[running].plan.targets[a]
                      IN /\ Observed(a) = final[a]
                         /\ \A x \in recovery_snapshots(a) : x.snapshot = final[a]
                         /\ challenge[running].status = "CONSUMED"
                         /\ row.state \in Unsigned
                         /\ target[a] = Row("IN_PROGRESS", row.version + 1)
    OBVIOUS
  <2>1. op.kind = "run" /\ op.step = "delete" /\ op.artifact = a
    BY DEF At
  <2>2. PICK x0 \in attempts : /\ x0.target = a /\ x0.stage = "PREDELETE_VERIFIED" /\ x0.snapshot # None
                               /\ x0.snapshot = final[a] /\ Observed(a) = x0.snapshot
    BY <2>1, AttemptInHand
  <2>3. \A x \in recovery_snapshots(a) : x.snapshot = final[a]
    BY <2>2 DEF DelInv, AttemptsSound, recovery_snapshots, Evidence, Open
  <2>4. challenge[running].status = "CONSUMED" /\ Confirmed(a)
    BY <2>1 DEF DelInv, RunSound, InHand
  <2> QED
    BY <2>2, <2>3, <2>4 DEF Confirmed
<1>2. DelInv /\ [Next]_vars => [Justified]_vars
  BY <1>1
<1> QED
  BY <1>2, DelBegins, DelStep, PTL DEF Spec, DeletionJustified
==============================================================================
