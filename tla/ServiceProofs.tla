---------------------------- MODULE ServiceProofs ----------------------------
(***************************************************************************)
(* Proofs about the services: the workspace that drives a runtime session  *)
(* and an exam as one, the access of the reviewer, the review of a sealed  *)
(* session, the events that the temporal rules report of a recording, the  *)
(* evidence of a synthetic run, and the registry that serves models.       *)
(***************************************************************************)
EXTENDS Workspace, ReviewerAccess, SessionReview, TemporalRules, SyntheticRun,
        ModelRegistry, FiniteSetTheorems, WellFoundedInduction, TLAPS

(* The workspace. *)

\* The types of the stores, of the request under way and of the loop's handler.
WorkSteps == {"none", "begin", "runtime", "exam", "link", "seal", "row"}
WorkOps == [key : Keys \cup {None}, action : Actions \cup {"create", None}, run : Runs \cup {None},
            exam : Exams \cup {None}, snapshot : ExamStates \cup {None}, step : WorkSteps]
WorkHandlers == [kind : LoopKinds \cup {None}, exam : Exams \cup {None}, seen : RtStates \cup {None},
                 step : {"none", "reconcile", "act"}, key : AnswerKeys \cup {None},
                 payload : Payloads \cup {None}]
WorkTypeOK ==
  /\ rt \in [Runs -> RtStates \cup {None}]
  /\ exam \in [Exams -> ExamStates \cup {None}]
  /\ submitted \in [Exams -> BOOLEAN]
  /\ answers \in [Exams -> [AnswerKeys -> Payloads \cup {None}]]
  /\ links \in [Runs -> Exams \cup {None}]
  /\ ledger \in [Keys -> [action : Actions \cup {"create"}, run : Runs] \cup {None}]
  /\ op \in WorkOps
  /\ loop \in WorkHandlers

\* A link ties one run to one exam that both exist; a run without one was never begun.
LinksSound ==
  /\ \A r \in Runs : links[r] # None => rt[r] # None /\ exam[links[r]] # None
  /\ \A r \in Runs : links[r] = None => rt[r] \in {None, "DRAFT"}
  /\ \A r, s \in Runs : links[r] # None /\ links[r] = links[s] => r = s

\* What the request that holds the workspace lock has done so far.
OpSound ==
  /\ op.step # "none" => op.key \in Keys /\ op.action \in Actions \cup {"create"}
  /\ op.step # "none" /\ op.action \in Actions =>
       /\ op.run \in Runs /\ op.step # "link"
       /\ op.step # "begin" => links[op.run] # None /\ op.exam = links[op.run]
       /\ op.step = "seal" => op.action = "seal"
  /\ op.step # "none" /\ op.action = "create" =>
       /\ op.step \in {"begin", "exam", "link", "row"}
       /\ op.step # "begin" => op.run \in Runs /\ rt[op.run] # None
       /\ op.step \in {"exam", "link"} => links[op.run] = None
       /\ op.step = "link" => /\ op.exam \in Exams /\ exam[op.exam] # None
                              /\ \A r \in Runs : links[r] # op.exam
       /\ op.step = "row" => links[op.run] # None
  /\ op.step \in {"exam", "row"} /\ op.action = "start" => rt[op.run] \in EndedStates \cup {"RECORDING"}
  /\ op.step = "row" /\ op.action = "start" => exam[op.exam] \in Started
  /\ op.step \in {"exam", "row"} /\ op.action = "withdraw" => rt[op.run] = "WITHDRAWN"

\* A handler that read an ended session: the session stays ended, is not being started,
\* and once the handler reconciled, its exam is not writable.
LoopSound ==
  loop.step # "none" /\ loop.seen \in EndedStates =>
    /\ \E r \in Runs : links[r] = loop.exam
    /\ \A r \in Runs : links[r] = loop.exam => rt[r] \in EndedStates /\ ~ (op.run = r /\ At("start", "exam"))
    /\ loop.step = "act" => exam[loop.exam] # "RECORDING"

WorkInv == WorkTypeOK /\ LinksSound /\ OpSound /\ LoopSound /\ LedgerTruthful /\ NoCaptureWithoutExam

\* No value of a store is None.
LEMMA WorkNone ==
  /\ None \notin RtStates /\ None \notin ExamStates /\ None \notin Runs /\ None \notin Exams
  /\ None \notin EndedStates /\ None \notin Started
BY WorkspaceNone DEF RtStates, ExamStates, EndedStates, Started

\* transition: a transition leads on, and only a start makes an exam writable.
LEMMA TransitionMoves ==
  ASSUME NEW s, NEW a, NEW t \in transition(s, a)
  PROVE  /\ s \in ExamStates /\ t \in ExamStates
         /\ s \in Started => t \in Started
         /\ t = "RECORDING" => s = "RECORDING" \/ a = "start"
         /\ a = "start" => t = "RECORDING"
BY DEF transition, transition_table, ExamStates, Started

\* _reconcile_runtime leads on, and leaves no exam of an ended session writable.
LEMMA ClosedMoves ==
  ASSUME NEW s \in ExamStates \cup {None}, NEW seen \in RtStates \cup {None}
  PROVE  /\ Closed(s, seen) \in ExamStates \cup {None}
         /\ s # None => Closed(s, seen) # None
         /\ s \in Started => Closed(s, seen) \in Started
         /\ Closed(s, seen) = "RECORDING" => s = "RECORDING" /\ seen \notin EndedStates
BY WorkNone DEF Closed, EndedStates, Started, ExamStates, RtStates

\* What any step may do to the exams and to the runtime sessions.
ExamsMove ==
  /\ exam' \in [Exams -> ExamStates \cup {None}]
  /\ \A e \in Exams : exam[e] # None => exam'[e] # None
  /\ \A e \in Exams : exam[e] \in Started => exam'[e] \in Started
  /\ \A e \in Exams : exam'[e] = "RECORDING" =>
       exam[e] = "RECORDING" \/ loop.step = "none" \/ (At("start", "exam") /\ e = op.exam)
RunsMove ==
  /\ rt' \in [Runs -> RtStates \cup {None}]
  /\ \A r \in Runs : rt[r] # None => rt'[r] # None
  /\ \A r \in Runs : rt[r] \in EndedStates => rt'[r] \in EndedStates
  /\ \A r \in Runs : rt[r] = "WITHDRAWN" => rt'[r] = "WITHDRAWN"
  /\ \A r \in Runs : rt[r] \in EndedStates \cup {"RECORDING"} => rt'[r] \in EndedStates \cup {"RECORDING"}
  /\ \A r \in Runs : links[r] = None => rt'[r] \in {None, "DRAFT"}

\* The exam changes in one place: created, moved by an action, or reconciled.
LEMMA ExamMovesAt ==
  ASSUME WorkTypeOK, NEW e \in Exams, NEW to \in ExamStates \cup {None},
         exam' = [exam EXCEPT ![e] = to],
         exam[e] # None => to # None,
         exam[e] \in Started => to \in Started,
         to = "RECORDING" =>
           exam[e] = "RECORDING" \/ loop.step = "none" \/ (At("start", "exam") /\ e = op.exam)
  PROVE  ExamsMove
<1>1. exam \in [Exams -> ExamStates \cup {None}]
  BY DEF WorkTypeOK
<1>2. /\ exam' \in [Exams -> ExamStates \cup {None}] /\ exam'[e] = to
      /\ \A f \in Exams : f # e => exam'[f] = exam[f]
  BY <1>1
<1> QED
  BY <1>2 DEF ExamsMove

\* Nothing happens to the exams.
LEMMA ExamsRest == ASSUME WorkTypeOK, exam' = exam PROVE ExamsMove
BY DEF WorkTypeOK, ExamsMove

\* Nothing happens to the runtime sessions.
LEMMA RunsRest == ASSUME WorkTypeOK, LinksSound, rt' = rt PROVE RunsMove
BY DEF WorkTypeOK, RunsMove, LinksSound

\* The runtime moves one session.
LEMMA RunMovesAt ==
  ASSUME WorkTypeOK, LinksSound, NEW r \in Runs, NEW to \in RtStates,
         rt' = [rt EXCEPT ![r] = to],
         rt[r] \in EndedStates => to \in EndedStates,
         rt[r] = "WITHDRAWN" => to = "WITHDRAWN",
         rt[r] = "RECORDING" => to \in EndedStates \cup {"RECORDING"},
         links[r] = None => to = "DRAFT"
  PROVE  RunsMove
<1>1. rt \in [Runs -> RtStates \cup {None}]
  BY DEF WorkTypeOK
<1>2. /\ rt' \in [Runs -> RtStates \cup {None}] /\ rt'[r] = to
      /\ \A s \in Runs : s # r => rt'[s] = rt[s]
  BY <1>1
<1>3. to # None
  BY WorkNone
<1> QED
  BY <1>2, <1>3 DEF RunsMove, LinksSound

\* apply_session_action as a move.
LEMMA ActionMoves ==
  ASSUME WorkTypeOK, NEW e \in Exams, NEW a, apply_session_action(e, a),
         a = "start" => loop.step = "none" \/ (At("start", "exam") /\ e = op.exam)
  PROVE  ExamsMove /\ exam' = [exam EXCEPT ![e] = exam'[e]] /\ (a = "start" => exam'[e] = "RECORDING")
<1>1. PICK next \in transition(exam[e], a) : exam' = [exam EXCEPT ![e] = next]
  BY DEF apply_session_action
<1>2. /\ exam[e] \in ExamStates /\ next \in ExamStates
      /\ exam[e] \in Started => next \in Started
      /\ next = "RECORDING" => exam[e] = "RECORDING" \/ a = "start"
      /\ a = "start" => next = "RECORDING"
  BY <1>1, TransitionMoves
<1>3. next # None
  BY <1>2, WorkNone
<1>4. ExamsMove
  BY <1>1, <1>2, <1>3, ExamMovesAt
<1>5. exam'[e] = next
  BY <1>1 DEF WorkTypeOK
<1> QED
  BY <1>1, <1>2, <1>4, <1>5

\* Reconcile as a move.
LEMMA ReconcileMoves ==
  ASSUME WorkTypeOK, NEW e \in Exams, NEW seen \in RtStates \cup {None}, Reconcile(e, seen)
  PROVE  ExamsMove /\ exam'[e] = Closed(exam[e], seen)
<1>1. exam' = [exam EXCEPT ![e] = Closed(exam[e], seen)] /\ exam[e] \in ExamStates \cup {None}
  BY DEF WorkTypeOK, Reconcile
<1>2. /\ Closed(exam[e], seen) \in ExamStates \cup {None}
      /\ exam[e] # None => Closed(exam[e], seen) # None
      /\ exam[e] \in Started => Closed(exam[e], seen) \in Started
      /\ Closed(exam[e], seen) = "RECORDING" => exam[e] = "RECORDING"
  BY <1>1, ClosedMoves
<1>3. ExamsMove
  BY <1>1, <1>2, ExamMovesAt
<1> QED
  BY <1>1, <1>3 DEF WorkTypeOK

\* Links and ledger rows survive every step that writes neither.
LEMMA RowsSteady ==
  ASSUME WorkInv, ExamsMove, RunsMove, UNCHANGED <<links, ledger>>
  PROVE  LinksSound' /\ LedgerTruthful'
<1>1. WorkTypeOK /\ LinksSound /\ LedgerTruthful
  BY DEF WorkInv
<1>2. \A r \in Runs : links[r] # None => links[r] \in Exams
  BY <1>1 DEF WorkTypeOK
<1>3. LinksSound'
  BY <1>1, <1>2 DEF LinksSound, ExamsMove, RunsMove
<1>4. ASSUME NEW k \in Keys, ledger[k] # None
      PROVE  LET r == ledger[k].run IN
               /\ links'[r] # None /\ exam'[links'[r]] # None
               /\ ledger[k].action = "start" =>
                    exam'[links'[r]] \in Started /\ rt'[r] \notin {"DRAFT", "PREFLIGHT_READY"}
               /\ ledger[k].action = "withdraw" => rt'[r] = "WITHDRAWN"
  <2> DEFINE r == ledger[k].run
  <2>1. r \in Runs
    BY <1>1, <1>4 DEF WorkTypeOK
  <2>2. links[r] \in Exams /\ links[r] # None /\ exam[links[r]] # None /\ rt[r] \in RtStates
    BY <1>1, <1>2, <1>4, <2>1 DEF LedgerTruthful, LinksSound, WorkTypeOK
  <2>3. ledger[k].action = "start" => exam[links[r]] \in Started /\ rt[r] \in EndedStates \cup {"RECORDING"}
    BY <1>1, <1>4, <2>2 DEF LedgerTruthful, RtStates, EndedStates
  <2>4. ledger[k].action = "withdraw" => rt[r] = "WITHDRAWN"
    BY <1>1, <1>4 DEF LedgerTruthful
  <2> HIDE DEF r
  <2>5. /\ exam'[links[r]] # None
        /\ ledger[k].action = "start" => exam'[links[r]] \in Started /\ rt'[r] \in EndedStates \cup {"RECORDING"}
        /\ ledger[k].action = "withdraw" => rt'[r] = "WITHDRAWN"
    BY <2>1, <2>2, <2>3, <2>4 DEF ExamsMove, RunsMove
  <2>6. rt'[r] \in EndedStates \cup {"RECORDING"} => rt'[r] \notin {"DRAFT", "PREFLIGHT_READY"}
    BY DEF EndedStates
  <2> QED
    BY <2>2, <2>5, <2>6 DEF r
<1> QED
  BY <1>3, <1>4 DEF LedgerTruthful

\* The handler of the loop keeps what it knows while others move, unless a start gets
\* past an ended session.
LEMMA LoopSteady ==
  ASSUME WorkInv, ExamsMove, RunsMove, UNCHANGED <<links, loop>>,
         op'.action = "start" /\ op'.step = "exam" => op' = op \/ rt[op'.run] \notin EndedStates
  PROVE  LoopSound'
<1>1. WorkTypeOK /\ LinksSound /\ OpSound /\ LoopSound
  BY DEF WorkInv
<1> SUFFICES ASSUME loop.step # "none", loop.seen \in EndedStates
             PROVE  /\ \E r \in Runs : links[r] = loop.exam
                    /\ \A r \in Runs : links[r] = loop.exam =>
                         rt'[r] \in EndedStates /\ ~ (op'.run = r /\ op'.action = "start" /\ op'.step = "exam")
                    /\ loop.step = "act" => exam'[loop.exam] # "RECORDING"
  BY DEF LoopSound, At
<1>2. PICK s \in Runs : links[s] = loop.exam
  BY <1>1 DEF LoopSound
<1>3. \A r \in Runs : links[r] = loop.exam => rt[r] \in EndedStates /\ ~ (op.run = r /\ At("start", "exam"))
  BY <1>1 DEF LoopSound
<1>4. \A r \in Runs : links[r] = loop.exam =>
        rt'[r] \in EndedStates /\ ~ (op'.run = r /\ op'.action = "start" /\ op'.step = "exam")
  BY <1>3 DEF RunsMove, At
<1>5. ASSUME loop.step = "act" PROVE exam'[loop.exam] # "RECORDING"
  <2>1. exam[loop.exam] # "RECORDING"
    BY <1>1, <1>5 DEF LoopSound
  <2>2. ~ (At("start", "exam") /\ loop.exam = op.exam)
    BY <1>1, <1>3 DEF OpSound, At, Actions
  <2>3. CASE loop.exam \in Exams
    BY <2>1, <2>2, <2>3 DEF ExamsMove
  <2>4. CASE loop.exam = None
    BY <1>1, <1>2, <1>3, <2>4, WorkNone DEF LinksSound, EndedStates
  <2> QED
    BY <1>1, <2>3, <2>4 DEF WorkTypeOK, WorkHandlers
<1> QED
  BY <1>2, <1>4, <1>5

\* A camera keeps its exam while others move, unless a start leaves it without one.
LEMMA CaptureSteady ==
  ASSUME WorkInv, ExamsMove, links' = links, stranded \subseteq stranded',
         \A r \in Runs : rt'[r] = "RECORDING" =>
           rt[r] = "RECORDING" \/ (op'.run = r /\ op'.action = "start" /\ op'.step = "exam"),
         At("start", "exam") =>
           \/ op' = op \/ rt'[op.run] # "RECORDING" \/ op.run \in stranded' \/ exam'[op.exam] \in Started
  PROVE  NoCaptureWithoutExam'
<1>1. WorkTypeOK /\ LinksSound /\ OpSound /\ NoCaptureWithoutExam
  BY DEF WorkInv
<1> SUFFICES ASSUME NEW r \in Runs, rt'[r] = "RECORDING",
                    ~ (op'.run = r /\ op'.action = "start" /\ op'.step = "exam")
             PROVE  r \in stranded' \/ exam'[links[r]] \in Started
  BY DEF NoCaptureWithoutExam, At
<1>2. rt[r] = "RECORDING"
  OBVIOUS
<1>3. links[r] \in Exams
  <2>1. links[r] # None
    BY <1>1, <1>2, WorkspaceNone DEF LinksSound, RtStates
  <2> QED
    BY <1>1, <2>1 DEF WorkTypeOK
<1>4. CASE op.run = r /\ At("start", "exam")
  <2>1. op' # op /\ op.exam = links[r]
    BY <1>1, <1>4 DEF At, OpSound, Actions
  <2> QED
    BY <1>4, <2>1
<1>5. CASE ~ (op.run = r /\ At("start", "exam"))
  <2>1. r \in stranded \/ exam[links[r]] \in Started
    BY <1>1, <1>2, <1>5 DEF NoCaptureWithoutExam
  <2> QED
    BY <1>3, <2>1 DEF ExamsMove
<1> QED
  BY <1>4, <1>5

\* A request under way keeps what it has done while others move.
LEMMA OpSteady ==
  ASSUME WorkInv, ExamsMove, RunsMove, UNCHANGED <<links, op>>
  PROVE  OpSound'
<1>1. WorkTypeOK /\ LinksSound /\ OpSound
  BY DEF WorkInv
<1>2. \A r \in Runs : links[r] # None => links[r] \in Exams
  BY <1>1 DEF WorkTypeOK
<1>3. op.step = "row" /\ op.action = "start" => exam'[op.exam] \in Started
  BY <1>1, <1>2 DEF OpSound, ExamsMove, Actions
<1>4. op.step \in {"exam", "row"} /\ op.action = "start" => rt'[op.run] \in EndedStates \cup {"RECORDING"}
  BY <1>1 DEF OpSound, RunsMove, Actions
<1>5. op.step \in {"exam", "row"} /\ op.action = "withdraw" => rt'[op.run] = "WITHDRAWN"
  BY <1>1 DEF OpSound, RunsMove, Actions
<1>6. op.step # "none" /\ op.action = "create" =>
       /\ op.step \in {"begin", "exam", "link", "row"}
       /\ op.step # "begin" => op.run \in Runs /\ rt'[op.run] # None
       /\ op.step = "link" => op.exam \in Exams /\ exam'[op.exam] # None
  BY <1>1 DEF OpSound, RunsMove, ExamsMove
<1> QED
  BY <1>1, <1>3, <1>4, <1>5, <1>6 DEF OpSound

\* A step of the event loop, or of the capture worker, leaves the request under way alone.
LEMMA BesideTheRequest ==
  ASSUME WorkInv, WorkTypeOK', ExamsMove, RunsMove, LoopSound', UNCHANGED <<links, ledger, op, stranded>>,
         \A r \in Runs : rt'[r] = "RECORDING" => rt[r] = "RECORDING"
  PROVE  WorkInv'
<1>1. LinksSound' /\ LedgerTruthful'
  BY RowsSteady
<1>2. OpSound'
  BY OpSteady
<1>3. NoCaptureWithoutExam'
  BY CaptureSteady
<1> QED
  BY <1>1, <1>2, <1>3 DEF WorkInv

\* Every step of the event loop keeps the invariant.
LEMMA WorkLoopStep ==
  ASSUME WorkInv, LoopStep
  PROVE  WorkInv'
<1>0. WorkTypeOK /\ LinksSound /\ OpSound /\ LoopSound
  BY DEF WorkInv
<1>q. loop = Quiet => loop.step = "none" /\ loop.seen = None
  BY DEF Quiet
<1>1. ASSUME NEW e \in Exams, candidate_pair(e)
      PROVE  WorkInv'
  <2>1. UNCHANGED <<rt, exam, submitted, answers, links, ledger, op, loop, stranded>>
    BY <1>1 DEF candidate_pair, stores
  <2>2. ExamsMove /\ RunsMove
    BY <1>0, <2>1, ExamsRest, RunsRest
  <2>3. LoopSound'
    BY <2>1, <2>2, LoopSteady
  <2>4. WorkTypeOK'
    BY <1>0, <2>1 DEF WorkTypeOK
  <2> QED
    BY <2>1, <2>2, <2>3, <2>4, BesideTheRequest
<1>2. ASSUME NEW e \in Exams, NEW a, \/ create_session(e)
                                     \/ act(e, a) \/ reviewer_session_action(e, a)
      PROVE  WorkInv'
  <2>1. UNCHANGED <<rt, submitted, answers, links, ledger, op, loop, stranded>> /\ loop.step = "none"
    BY <1>2, <1>q DEF create_session, act, reviewer_session_action, memory
  <2>2. ExamsMove
    <3>1. CASE create_session(e)
      <4>1. exam[e] = None /\ exam' = [exam EXCEPT ![e] = "DRAFT"]
        BY <3>1 DEF create_session
      <4> QED
        BY <1>0, <4>1, ExamMovesAt, WorkNone DEF ExamStates
    <3>2. CASE apply_session_action(e, a)
      BY <1>0, <2>1, <3>2, ActionMoves
    <3> QED
      BY <1>2, <3>1, <3>2 DEF act, reviewer_session_action
  <2>3. RunsMove
    BY <1>0, <2>1, RunsRest
  <2>4. WorkTypeOK'
    BY <1>0, <2>1, <2>2 DEF WorkTypeOK, ExamsMove
  <2>5. LoopSound'
    BY <2>1 DEF LoopSound
  <2> QED
    BY <2>1, <2>2, <2>3, <2>4, <2>5, BesideTheRequest
<1>3. ASSUME NEW e \in Exams, NEW kind \in LoopKinds, NEW k \in AnswerKeys \cup {None},
             NEW v \in Payloads \cup {None}, handler_begin(e, kind, k, v)
      PROVE  WorkInv'
  <2>1. /\ UNCHANGED <<rt, exam, submitted, answers, links, ledger, op, stranded>>
        /\ op = NoOp /\ exam[e] # None
        /\ loop' = [kind |-> kind, exam |-> e, seen |-> runtime_state(e), step |-> "reconcile",
                    key |-> k, payload |-> v]
    BY <1>3 DEF handler_begin, stores
  <2>2. runtime_state(e) \in RtStates \cup {None}
    BY <1>0 DEF runtime_state, LinkedRun, WorkTypeOK
  <2>3. loop' \in WorkHandlers /\ loop'.exam = e /\ loop'.seen = runtime_state(e) /\ loop'.step = "reconcile"
    BY <2>1, <2>2 DEF WorkHandlers
  <2>4. WorkTypeOK'
    BY <1>0, <2>1, <2>3 DEF WorkTypeOK
  <2>5. ASSUME runtime_state(e) \in EndedStates
        PROVE  /\ \E r \in Runs : links[r] = e
               /\ \A r \in Runs : links[r] = e => rt[r] \in EndedStates
    <3>1. LinkedRun(e) # {}
      BY <2>5, WorkNone DEF runtime_state
    <3>2. PICK s \in LinkedRun(e) : runtime_state(e) = rt[s]
      BY <3>1 DEF runtime_state
    <3>3. \A r \in Runs : links[r] = e => r = s
      BY <1>0, <3>2, WorkNone DEF LinkedRun, LinksSound
    <3> QED
      BY <2>5, <3>2, <3>3 DEF LinkedRun
  <2>6. op'.step = "none"
    BY <2>1 DEF NoOp
  <2>7. LoopSound'
    BY <2>1, <2>3, <2>5, <2>6 DEF LoopSound, At
  <2>8. ExamsMove /\ RunsMove
    BY <1>0, <2>1, ExamsRest, RunsRest
  <2> QED
    BY <2>1, <2>4, <2>7, <2>8, BesideTheRequest
<1>4. CASE handler_reconcile
  <2>1. /\ UNCHANGED <<rt, submitted, answers, links, ledger, op, stranded>>
        /\ loop.step = "reconcile" /\ Reconcile(loop.exam, loop.seen)
        /\ loop' = Quiet \/ loop' = [loop EXCEPT !.step = "act"]
    BY <1>4 DEF handler_reconcile, memory
  <2>2. loop.seen \in RtStates \cup {None} /\ loop.exam \in Exams \cup {None} /\ loop \in WorkHandlers
    BY <1>0 DEF WorkTypeOK, WorkHandlers
  <2>3. loop' \in WorkHandlers
    BY <2>1, <2>2 DEF WorkHandlers, Quiet
  <2>4. \/ loop'.step = "none"
        \/ loop'.step = "act" /\ loop'.exam = loop.exam /\ loop'.seen = loop.seen
    BY <2>1, <2>2 DEF WorkHandlers, Quiet
  <2>5. ExamsMove /\ (loop.exam \in Exams => exam'[loop.exam] = Closed(exam[loop.exam], loop.seen))
    <3>1. CASE loop.exam \in Exams
      BY <1>0, <2>1, <2>2, <3>1, ReconcileMoves
    <3>2. CASE loop.exam \notin Exams
      <4>1. exam' = exam
        BY <1>0, <2>1, <3>2 DEF Reconcile, WorkTypeOK
      <4> QED
        BY <1>0, <3>2, <4>1, ExamsRest
    <3> QED
      BY <3>1, <3>2
  <2>6. RunsMove
    BY <1>0, <2>1, RunsRest
  <2>7. WorkTypeOK'
    BY <1>0, <2>1, <2>3, <2>5 DEF WorkTypeOK, ExamsMove
  <2>8. LoopSound'
    <3> SUFFICES ASSUME loop'.step # "none", loop.seen \in EndedStates, loop'.exam = loop.exam
                 PROVE  /\ \E r \in Runs : links[r] = loop.exam
                        /\ \A r \in Runs : links[r] = loop.exam =>
                             rt[r] \in EndedStates /\ ~ (op.run = r /\ At("start", "exam"))
                        /\ exam'[loop.exam] # "RECORDING"
      BY <2>1, <2>4 DEF LoopSound, At
    <3>1. /\ \E r \in Runs : links[r] = loop.exam
          /\ \A r \in Runs : links[r] = loop.exam =>
               rt[r] \in EndedStates /\ ~ (op.run = r /\ At("start", "exam"))
      BY <1>0, <2>1 DEF LoopSound
    <3>2. loop.exam \in Exams
      <4> SUFFICES ASSUME loop.exam = None PROVE FALSE
        BY <2>2
      <4> QED
        BY <1>0, <3>1, WorkNone DEF LinksSound, EndedStates
    <3>3. exam[loop.exam] \in ExamStates \cup {None}
      BY <1>0, <3>2 DEF WorkTypeOK
    <3> QED
      BY <2>2, <2>5, <3>1, <3>2, <3>3, ClosedMoves
  <2> QED
    BY <2>1, <2>5, <2>6, <2>7, <2>8, BesideTheRequest
<1>5. CASE record_answer \/ submit_exam
  <2>1. /\ UNCHANGED <<rt, exam, links, ledger, op, stranded>>
        /\ loop' = Quiet /\ loop.step = "act" /\ (record_answer => loop.kind = "answer")
    BY <1>5 DEF record_answer, submit_exam, memory
  <2>2. answers' \in [Exams -> [AnswerKeys -> Payloads \cup {None}]]
    <3>1. loop.payload \in Payloads \cup {None}
      BY <1>0 DEF WorkTypeOK, WorkHandlers
    <3>2. CASE answers' = answers
      BY <1>0, <3>2 DEF WorkTypeOK
    <3>3. CASE answers' = [answers EXCEPT ![loop.exam][loop.key] = loop.payload]
      BY <1>0, <3>1, <3>3 DEF WorkTypeOK
    <3> QED
      BY <1>5, <3>2, <3>3 DEF record_answer, submit_exam
  <2>3. submitted' \in [Exams -> BOOLEAN]
    <3>1. CASE record_answer
      BY <1>0, <3>1 DEF WorkTypeOK, record_answer
    <3>2. CASE submit_exam
      <4>1. PICK b \in BOOLEAN : submitted' = [submitted EXCEPT ![loop.exam] = b]
        <5>1. submitted' = [submitted EXCEPT ![loop.exam] = submitted[loop.exam] \/ Writable(loop.exam)]
          BY <3>2 DEF submit_exam
        <5> QED
          BY <5>1
      <4> QED
        BY <1>0, <4>1 DEF WorkTypeOK
    <3> QED
      BY <1>5, <3>1, <3>2
  <2>4. loop' \in WorkHandlers /\ loop'.step = "none"
    BY <2>1 DEF WorkHandlers, Quiet
  <2>5. WorkTypeOK'
    BY <1>0, <2>1, <2>2, <2>3, <2>4 DEF WorkTypeOK
  <2>6. LoopSound'
    BY <2>4 DEF LoopSound
  <2>7. ExamsMove /\ RunsMove
    BY <1>0, <2>1, ExamsRest, RunsRest
  <2> QED
    BY <2>1, <2>5, <2>6, <2>7, BesideTheRequest
<1> QED
  BY <1>1, <1>2, <1>3, <1>4, <1>5 DEF LoopStep, LoopKinds

\* A step of the request under way that writes neither a link nor a row.
LEMMA RequestProceeds ==
  ASSUME WorkInv, ExamsMove, RunsMove, UNCHANGED <<submitted, answers, links, ledger, loop>>,
         op' \in WorkOps, OpSound', stranded \subseteq stranded',
         op'.action = "start" /\ op'.step = "exam" => op' = op \/ rt[op'.run] \notin EndedStates,
         \A r \in Runs : rt'[r] = "RECORDING" =>
           rt[r] = "RECORDING" \/ (op'.run = r /\ op'.action = "start" /\ op'.step = "exam"),
         At("start", "exam") =>
           \/ op' = op \/ rt'[op.run] # "RECORDING" \/ op.run \in stranded' \/ exam'[op.exam] \in Started
  PROVE  WorkInv'
<1>1. LinksSound' /\ LedgerTruthful'
  BY RowsSteady
<1>2. LoopSound'
  BY LoopSteady
<1>3. NoCaptureWithoutExam'
  BY CaptureSteady
<1>4. WorkTypeOK'
  BY DEF WorkInv, WorkTypeOK, ExamsMove, RunsMove
<1> QED
  BY <1>1, <1>2, <1>3, <1>4 DEF WorkInv

\* The request is over, by an exception or with nothing more to do.
LEMMA RequestEnds ==
  ASSUME WorkInv, ExamsMove, RunsMove, UNCHANGED <<submitted, answers, links, ledger, loop>>,
         op' = NoOp, stranded \subseteq stranded',
         \A r \in Runs : rt'[r] = "RECORDING" => rt[r] = "RECORDING",
         At("start", "exam") => rt'[op.run] # "RECORDING" \/ op.run \in stranded'
  PROVE  WorkInv'
<1>1. op' \in WorkOps /\ op'.step = "none"
  BY DEF NoOp, WorkOps, WorkSteps
<1>2. OpSound'
  BY <1>1 DEF OpSound
<1> QED
  BY <1>1, <1>2, RequestProceeds

\* Every step of the request under way keeps the invariant.
LEMMA WorkOpStep ==
  ASSUME WorkInv, OpStep
  PROVE  WorkInv'
<1>0. WorkTypeOK /\ LinksSound /\ OpSound /\ op \in WorkOps
  BY DEF WorkInv, WorkTypeOK
<1>1. ASSUME NEW r \in Runs, create_runtime(r)
      PROVE  WorkInv'
  <2>1. /\ UNCHANGED <<exam, submitted, answers, links, ledger, loop, stranded>>
        /\ op.action = "create" /\ op.step = "begin" /\ rt[r] = None /\ rt' = [rt EXCEPT ![r] = "DRAFT"]
        /\ op' = [op EXCEPT !.run = r, !.step = "exam"]
    BY <1>1 DEF create_runtime, At
  <2>2. /\ op' \in WorkOps /\ op'.action = "create" /\ op'.step = "exam" /\ op'.run = r /\ op'.key = op.key
        /\ op'.exam = op.exam
    BY <1>0, <2>1 DEF WorkOps, WorkSteps
  <2>3. links[r] = None
    BY <1>0, <2>1 DEF LinksSound
  <2>4. RunsMove
    BY <1>0, <2>1, WorkNone, RunMovesAt DEF RtStates
  <2>5. rt'[r] # None /\ \A s \in Runs : rt'[s] = "RECORDING" => rt[s] = "RECORDING"
    BY <1>0, <2>1, WorkNone DEF WorkTypeOK, RtStates
  <2>6. OpSound'
    BY <1>0, <2>1, <2>2, <2>3, <2>5 DEF OpSound, Actions
  <2>7. ExamsMove
    BY <1>0, <2>1, ExamsRest
  <2> QED
    BY <2>1, <2>2, <2>4, <2>5, <2>6, <2>7, RequestProceeds DEF At
<1>2. ASSUME NEW e \in Exams, create_exam(e)
      PROVE  WorkInv'
  <2>1. /\ UNCHANGED <<rt, submitted, answers, links, ledger, loop, stranded>>
        /\ op.action = "create" /\ op.step = "exam" /\ exam[e] = None /\ exam' = [exam EXCEPT ![e] = "DRAFT"]
        /\ op' = [op EXCEPT !.exam = e, !.step = "link"]
    BY <1>2 DEF create_exam, At
  <2>2. /\ op' \in WorkOps /\ op'.action = "create" /\ op'.step = "link" /\ op'.run = op.run
        /\ op'.key = op.key /\ op'.exam = e
    BY <1>0, <2>1 DEF WorkOps, WorkSteps
  <2>3. ExamsMove /\ exam'[e] # None
    BY <1>0, <2>1, WorkNone, ExamMovesAt DEF ExamStates, WorkTypeOK
  <2>4. \A r \in Runs : links[r] # e
    BY <1>0, <2>1, WorkNone DEF LinksSound
  <2>5. OpSound'
    BY <1>0, <2>1, <2>2, <2>3, <2>4 DEF OpSound, Actions
  <2>6. RunsMove
    BY <1>0, <2>1, RunsRest
  <2> QED
    BY <2>1, <2>2, <2>3, <2>5, <2>6, RequestProceeds DEF At
<1>3. CASE create_link
  <2>1. /\ UNCHANGED <<rt, exam, submitted, answers, ledger, loop, stranded>>
        /\ op.action = "create" /\ op.step = "link"
        /\ links' = [links EXCEPT ![op.run] = op.exam] /\ op' = [op EXCEPT !.step = "row"]
    BY <1>3 DEF create_link, At, Goto, memory
  <2>2. /\ op' \in WorkOps /\ op'.action = "create" /\ op'.step = "row" /\ op'.run = op.run
        /\ op'.key = op.key /\ op'.exam = op.exam
    BY <1>0, <2>1 DEF WorkOps, WorkSteps
  <2>3. /\ op.run \in Runs /\ rt[op.run] # None /\ links[op.run] = None /\ op.exam \in Exams
        /\ exam[op.exam] # None /\ (\A r \in Runs : links[r] # op.exam) /\ op.exam # None
    BY <1>0, <2>1, WorkNone DEF OpSound
  <2>4. /\ links' \in [Runs -> Exams \cup {None}] /\ links'[op.run] = op.exam
        /\ \A r \in Runs : r # op.run => links'[r] = links[r]
    BY <1>0, <2>1, <2>3 DEF WorkTypeOK
  <2>5. rt[op.run] = "DRAFT"
    BY <1>0, <2>3 DEF LinksSound
  <2>6. WorkTypeOK'
    BY <1>0, <2>1, <2>2, <2>4 DEF WorkTypeOK
  <2>7. LinksSound'
    BY <1>0, <2>1, <2>3, <2>4 DEF LinksSound
  <2>8. OpSound'
    BY <1>0, <2>1, <2>2, <2>3, <2>4 DEF OpSound, Actions
  <2>9. LoopSound'
    <3> SUFFICES ASSUME loop.step # "none", loop.seen \in EndedStates
                 PROVE  /\ \E r \in Runs : links'[r] = loop.exam
                        /\ \A r \in Runs : links'[r] = loop.exam => rt[r] \in EndedStates
                        /\ loop.step = "act" => exam[loop.exam] # "RECORDING"
      BY <2>1, <2>2 DEF LoopSound, At
    <3>1. /\ \E r \in Runs : links[r] = loop.exam
          /\ \A r \in Runs : links[r] = loop.exam => rt[r] \in EndedStates
          /\ loop.step = "act" => exam[loop.exam] # "RECORDING"
      BY DEF WorkInv, LoopSound
    <3>2. loop.exam # op.exam
      BY <2>3, <3>1
    <3>3. \A r \in Runs : links[r] = loop.exam => r # op.run
      BY <2>5, <3>1 DEF EndedStates
    <3> QED
      BY <2>4, <3>1, <3>2, <3>3
  <2>10. LedgerTruthful'
    <3>1. \A k \in Keys : ledger[k] # None => ledger[k].run \in Runs /\ ledger[k].run # op.run
      BY <1>0, <2>3 DEF WorkInv, LedgerTruthful, WorkTypeOK
    <3> QED
      BY <2>1, <2>4, <3>1 DEF WorkInv, LedgerTruthful
  <2>11. NoCaptureWithoutExam'
    BY <2>1, <2>2, <2>4, <2>5 DEF WorkInv, NoCaptureWithoutExam, At
  <2> QED
    BY <2>6, <2>7, <2>8, <2>9, <2>10, <2>11 DEF WorkInv
<1>4. CASE action_begin
  <2> DEFINE e == links[op.run]
  <2>1. /\ UNCHANGED <<rt, submitted, answers, links, ledger, loop, stranded>>
        /\ op.step = "begin" /\ op.action \in Actions /\ links[op.run] # None
        /\ Reconcile(e, rt[op.run])
        /\ op' = [op EXCEPT !.exam = e, !.snapshot = Closed(exam[e], rt[op.run]), !.step = "runtime"]
    BY <1>4 DEF action_begin, memory
  <2>2. op.run \in Runs /\ e \in Exams /\ exam[e] \in ExamStates \cup {None} /\ rt[op.run] \in RtStates \cup {None}
    BY <1>0, <2>1 DEF OpSound, WorkTypeOK
  <2>3. ExamsMove
    BY <1>0, <2>1, <2>2, ReconcileMoves
  <2>4. Closed(exam[e], rt[op.run]) \in ExamStates \cup {None}
    BY <2>2, ClosedMoves
  <2>5. /\ op' \in WorkOps /\ op'.action = op.action /\ op'.step = "runtime" /\ op'.run = op.run
        /\ op'.key = op.key /\ op'.exam = e
    BY <1>0, <2>1, <2>2, <2>4 DEF WorkOps, WorkSteps
  <2>6. OpSound'
    BY <1>0, <2>1, <2>2, <2>5 DEF OpSound, Actions
  <2>7. RunsMove
    BY <1>0, <2>1, RunsRest
  <2> QED
    BY <2>1, <2>3, <2>5, <2>6, <2>7, RequestProceeds DEF At
<1>5. CASE runtime_call
  <2>1. /\ UNCHANGED <<exam, submitted, answers, links, ledger, loop, stranded>> /\ op.step = "runtime"
    BY <1>5 DEF runtime_call, memory
  <2>2. PICK step \in {"exam", "row"} :
          /\ op' = [op EXCEPT !.step = step]
          /\ \/ /\ op.action = "preflight" /\ rt[op.run] = "DRAFT" /\ step = "row"
                /\ \E to \in {"PREFLIGHT_READY", "FAILED"} : Move(op.run, to)
             \/ /\ op.action = "start" /\ CanStart(op.run) /\ Move(op.run, "RECORDING") /\ step = "exam"
             \/ /\ op.action \in {"stop", "seal"} /\ step = "exam"
                /\ IF rt[op.run] = "RECORDING" THEN Move(op.run, "STOPPED") ELSE UNCHANGED rt
             \/ /\ op.action = "withdraw" /\ rt[op.run] \notin {"DRAFT", "WITHDRAWN"} /\ step = "exam"
                /\ Move(op.run, "WITHDRAWN")
    BY <1>5 DEF runtime_call, Goto
  <2>3. op.action \in Actions /\ op.run \in Runs /\ links[op.run] # None /\ op.exam = links[op.run]
    BY <1>0, <2>1, <2>2 DEF OpSound, Actions
  <2>4. /\ op' \in WorkOps /\ op'.action = op.action /\ op'.step = step /\ op'.run = op.run
        /\ op'.key = op.key /\ op'.exam = op.exam
    BY <1>0, <2>2 DEF WorkOps, WorkSteps
  <2>5. ExamsMove
    BY <1>0, <2>1, ExamsRest
  <2>6. CASE rt' = rt /\ op.action \in {"stop", "seal"} /\ step = "exam"
    <3>1. OpSound'
      BY <1>0, <2>1, <2>3, <2>4, <2>6 DEF OpSound, Actions
    <3> QED
      BY <1>0, <2>1, <2>4, <2>5, <2>6, <3>1, RunsRest, RequestProceeds DEF At
  <2>7. ASSUME NEW to \in RtStates, rt' = [rt EXCEPT ![op.run] = to],
               \/ op.action = "preflight" /\ rt[op.run] = "DRAFT" /\ step = "row" /\ to # "RECORDING"
               \/ op.action = "start" /\ rt[op.run] = "PREFLIGHT_READY" /\ to = "RECORDING" /\ step = "exam"
               \/ op.action \in {"stop", "seal"} /\ rt[op.run] = "RECORDING" /\ to = "STOPPED" /\ step = "exam"
               \/ op.action = "withdraw" /\ to = "WITHDRAWN" /\ step = "exam"
        PROVE  WorkInv'
    <3>1. RunsMove
      BY <1>0, <2>3, <2>7, RunMovesAt DEF EndedStates
    <3>2. rt'[op.run] = to /\ \A s \in Runs : s # op.run => rt'[s] = rt[s]
      BY <1>0, <2>3, <2>7 DEF WorkTypeOK
    <3>3. OpSound'
      BY <1>0, <2>1, <2>3, <2>4, <2>7, <3>2 DEF OpSound, Actions
    <3>4. op'.action = "start" /\ op'.step = "exam" => rt[op'.run] \notin EndedStates
      BY <2>4, <2>7 DEF EndedStates
    <3>5. \A r \in Runs : rt'[r] = "RECORDING" =>
            rt[r] = "RECORDING" \/ (op'.run = r /\ op'.action = "start" /\ op'.step = "exam")
      BY <2>4, <2>7, <3>2
    <3> QED
      BY <2>1, <2>4, <2>5, <3>1, <3>3, <3>4, <3>5, RequestProceeds DEF At
  <2> QED
    BY <2>2, <2>6, <2>7 DEF Move, CanStart, RtStates
<1>6. CASE runtime_raises
  <2>1. /\ UNCHANGED <<exam, submitted, answers, links, ledger, loop, stranded>> /\ op.step = "runtime"
        /\ op' = NoOp
        /\ \/ rt' = rt
           \/ op.action = "start" /\ rt[op.run] = "PREFLIGHT_READY" /\ rt' = [rt EXCEPT ![op.run] = "FAILED"]
           \/ /\ op.action \in {"stop", "seal", "withdraw"} /\ rt[op.run] = "RECORDING"
              /\ rt' = [rt EXCEPT ![op.run] = "FAILED"]
    BY <1>6 DEF runtime_raises, memory, Move, CanStart
  <2>2. ExamsMove
    BY <1>0, <2>1, ExamsRest
  <2>3. CASE rt' = rt
    BY <1>0, <2>1, <2>2, <2>3, RunsRest, RequestEnds DEF At
  <2>4. CASE rt[op.run] \in {"RECORDING", "PREFLIGHT_READY"} /\ rt' = [rt EXCEPT ![op.run] = "FAILED"]
             /\ op.action \in Actions
    <3>1. op.run \in Runs /\ links[op.run] # None
      BY <1>0, <2>1, <2>4 DEF OpSound
    <3>2. RunsMove
      BY <1>0, <2>4, <3>1, RunMovesAt DEF EndedStates, RtStates
    <3>3. rt'[op.run] = "FAILED" /\ \A s \in Runs : s # op.run => rt'[s] = rt[s]
      BY <1>0, <2>4, <3>1 DEF WorkTypeOK
    <3> QED
      BY <2>1, <2>2, <3>2, <3>3, RequestEnds DEF At
  <2> QED
    BY <2>1, <2>3, <2>4 DEF Actions
<1>7. CASE exam_step
  <2>1. /\ UNCHANGED <<rt, submitted, answers, links, ledger, loop, stranded>>
        /\ op.step = "exam" /\ op.action \in Actions
    BY <1>7 DEF exam_step, memory
  <2>2. PICK step \in {"seal", "row"} :
          op' = [op EXCEPT !.step = step] /\ (step = "seal" <=> op.action = "seal")
    BY <1>7 DEF exam_step, Goto
  <2>3. op.run \in Runs /\ links[op.run] # None /\ op.exam = links[op.run] /\ op.exam \in Exams
    BY <1>0, <2>1 DEF OpSound, WorkTypeOK
  <2>4. /\ op' \in WorkOps /\ op'.action = op.action /\ op'.step = step /\ op'.run = op.run
        /\ op'.key = op.key /\ op'.exam = op.exam
    BY <1>0, <2>2 DEF WorkOps, WorkSteps
  <2>5. ExamsMove /\ (op.action = "start" => exam'[op.exam] = "RECORDING")
    <3>1. CASE op.action = "start" /\ apply_session_action(op.exam, "start")
      BY <1>0, <2>1, <2>3, <3>1, ActionMoves DEF At
    <3>2. CASE op.action # "start" /\ apply_session_action(op.exam, "stop")
      BY <1>0, <2>3, <3>2, ActionMoves
    <3>3. CASE op.action # "start" /\ exam' = exam
      BY <1>0, <3>3, ExamsRest
    <3> QED
      BY <1>7, <3>1, <3>2, <3>3 DEF exam_step
  <2>6. RunsMove
    BY <1>0, <2>1, RunsRest
  <2>7. OpSound'
    BY <1>0, <2>1, <2>2, <2>3, <2>4, <2>5 DEF OpSound, Actions, Started
  <2>8. At("start", "exam") => exam'[op.exam] \in Started
    BY <2>5 DEF At, Started
  <2> QED
    BY <2>1, <2>4, <2>5, <2>6, <2>7, <2>8, RequestProceeds
<1>8. CASE start_compensates
  <2>1. /\ UNCHANGED <<exam, submitted, answers, links, ledger, loop>> /\ op' = NoOp
        /\ op.action = "start" /\ op.step = "exam"
    BY <1>8 DEF start_compensates, memory, At
  <2>2. op.run \in Runs /\ links[op.run] # None
    BY <1>0, <2>1 DEF OpSound, Actions
  <2>3. ExamsMove
    BY <1>0, <2>1, ExamsRest
  <2>4. ASSUME NEW to \in {"STOPPED", "FAILED"}, rt[op.run] = "RECORDING",
               rt' = [rt EXCEPT ![op.run] = to], stranded' = stranded
        PROVE  WorkInv'
    <3>1. RunsMove
      BY <1>0, <2>2, <2>4, RunMovesAt DEF EndedStates, RtStates
    <3>2. rt'[op.run] = to /\ \A s \in Runs : s # op.run => rt'[s] = rt[s]
      BY <1>0, <2>2, <2>4 DEF WorkTypeOK
    <3> QED
      BY <2>1, <2>3, <2>4, <3>1, <3>2, RequestEnds
  <2>5. CASE rt' = rt /\ stranded \subseteq stranded' /\ (rt[op.run] = "RECORDING" => op.run \in stranded')
    BY <1>0, <2>1, <2>3, <2>5, RunsRest, RequestEnds
  <2> QED
    BY <1>8, <2>4, <2>5 DEF start_compensates, Move
<1>9. CASE exam_raises \/ request_raises
  <2>1. /\ UNCHANGED <<rt, exam, submitted, answers, links, ledger, loop, stranded>> /\ op' = NoOp
        /\ ~ At("start", "exam")
    BY <1>9 DEF exam_raises, request_raises, stores, At
  <2> QED
    BY <1>0, <2>1, ExamsRest, RunsRest, RequestEnds
<1>10. CASE seal_step
  <2>1. /\ UNCHANGED <<exam, submitted, answers, links, ledger, loop, stranded>> /\ op.step = "seal"
    BY <1>10 DEF seal_step, memory
  <2>2. ExamsMove
    BY <1>0, <2>1, ExamsRest
  <2>3. CASE rt' = rt /\ op' = NoOp
    BY <1>0, <2>1, <2>2, <2>3, RunsRest, RequestEnds DEF At
  <2>4. CASE rt[op.run] = "STOPPED" /\ rt' = [rt EXCEPT ![op.run] = "SEALED"] /\ op' = [op EXCEPT !.step = "row"]
    <3>1. op.action = "seal" /\ op.run \in Runs /\ links[op.run] # None /\ op.exam = links[op.run]
      BY <1>0, <2>1 DEF OpSound, Actions
    <3>2. /\ op' \in WorkOps /\ op'.action = op.action /\ op'.step = "row" /\ op'.run = op.run
          /\ op'.key = op.key /\ op'.exam = op.exam
      BY <1>0, <2>4 DEF WorkOps, WorkSteps
    <3>3. RunsMove
      BY <1>0, <2>4, <3>1, RunMovesAt DEF EndedStates, RtStates
    <3>4. rt'[op.run] = "SEALED" /\ \A s \in Runs : s # op.run => rt'[s] = rt[s]
      BY <1>0, <2>4, <3>1 DEF WorkTypeOK
    <3>5. OpSound'
      BY <1>0, <2>1, <3>1, <3>2 DEF OpSound, Actions
    <3> QED
      BY <2>1, <2>2, <3>1, <3>2, <3>3, <3>4, <3>5, RequestProceeds DEF At
  <2> QED
    BY <1>10, <2>3, <2>4 DEF seal_step, Move, Goto
<1>11. CASE row_step
  <2>1. /\ UNCHANGED <<rt, submitted, answers, links, loop, stranded>> /\ op.step = "row"
        /\ Reconcile(links[op.run], rt[op.run])
        /\ ledger' = [ledger EXCEPT ![op.key] = Request(op.action, op.run)] /\ op' = NoOp
    BY <1>11 DEF row_step, memory
  <2>2. /\ op.run \in Runs /\ op.key \in Keys /\ op.action \in Actions \cup {"create"}
        /\ links[op.run] # None /\ links[op.run] \in Exams
    BY <1>0, <2>1 DEF OpSound, WorkTypeOK
  <2>3. rt[op.run] \in RtStates \cup {None}
    BY <1>0, <2>2 DEF WorkTypeOK
  <2>4. ExamsMove /\ RunsMove
    BY <1>0, <2>1, <2>2, <2>3, ReconcileMoves, RunsRest
  <2>5. op' \in WorkOps /\ op'.step = "none"
    BY <2>1 DEF NoOp, WorkOps, WorkSteps
  <2>6. /\ ledger' \in [Keys -> [action : Actions \cup {"create"}, run : Runs] \cup {None}]
        /\ ledger'[op.key].action = op.action /\ ledger'[op.key].run = op.run
        /\ \A k \in Keys : k # op.key => ledger'[k] = ledger[k]
    BY <1>0, <2>1, <2>2 DEF WorkTypeOK, Request
  <2>7. WorkTypeOK'
    BY <1>0, <2>1, <2>4, <2>5, <2>6 DEF WorkTypeOK, ExamsMove, RunsMove
  <2>8. LinksSound'
    BY <1>0, <2>1, <2>4 DEF WorkTypeOK, LinksSound, ExamsMove, RunsMove
  <2>9. OpSound'
    BY <2>5 DEF OpSound
  <2>10. LoopSound'
    BY <2>1, <2>4, <2>5, LoopSteady
  <2>11. NoCaptureWithoutExam'
    BY <2>1, <2>4, <2>5, CaptureSteady DEF At
  <2>12. LedgerTruthful'
    <3>1. ASSUME NEW k \in Keys, k # op.key, ledger[k] # None
          PROVE  LET r == ledger[k].run IN
                   /\ links[r] # None /\ exam'[links[r]] # None
                   /\ ledger[k].action = "start" =>
                        exam'[links[r]] \in Started /\ rt[r] \notin {"DRAFT", "PREFLIGHT_READY"}
                   /\ ledger[k].action = "withdraw" => rt[r] = "WITHDRAWN"
      <4>1. ledger[k].run \in Runs
        BY <1>0, <3>1 DEF WorkTypeOK
      <4>2. links[ledger[k].run] # None
        BY <3>1 DEF WorkInv, LedgerTruthful
      <4>3. links[ledger[k].run] \in Exams
        BY <1>0, <4>1, <4>2 DEF WorkTypeOK
      <4> QED
        BY <2>4, <3>1, <4>2, <4>3 DEF WorkInv, LedgerTruthful, ExamsMove
    <3>2. /\ exam'[links[op.run]] # None
          /\ op.action = "start" =>
               exam'[links[op.run]] \in Started /\ rt[op.run] \notin {"DRAFT", "PREFLIGHT_READY"}
          /\ op.action = "withdraw" => rt[op.run] = "WITHDRAWN"
      <4>1. exam[links[op.run]] # None
        BY <1>0, <2>2 DEF LinksSound
      <4>2. op.action = "start" => op.exam = links[op.run] /\ exam[op.exam] \in Started
                                   /\ rt[op.run] \in EndedStates \cup {"RECORDING"}
        BY <1>0, <2>1 DEF OpSound, Actions
      <4>3. op.action = "withdraw" => rt[op.run] = "WITHDRAWN"
        BY <1>0, <2>1 DEF OpSound
      <4> QED
        BY <2>2, <2>4, <4>1, <4>2, <4>3 DEF ExamsMove, EndedStates
    <3> QED
      BY <2>1, <2>2, <2>6, <3>1, <3>2 DEF LedgerTruthful
  <2> QED
    BY <2>7, <2>8, <2>9, <2>10, <2>11, <2>12 DEF WorkInv
<1> QED
  BY <1>1, <1>2, <1>3, <1>4, <1>5, <1>6, <1>7, <1>8, <1>9, <1>10, <1>11 DEF OpStep

\* Every step of the workspace keeps the invariant.
LEMMA WorkInvStep == WorkInv /\ [WorkNext]_wsVars => WorkInv'
<1> SUFFICES ASSUME WorkInv, [WorkNext]_wsVars PROVE WorkInv'
  OBVIOUS
<1>0. WorkTypeOK /\ LinksSound /\ OpSound /\ op \in WorkOps
  BY DEF WorkInv, WorkTypeOK
<1>1. ASSUME NEW k \in Keys, NEW action \in Actions \cup {"create"}, NEW r \in Runs \cup {None},
             action \in Actions => r \in Runs, Begin(k, action, r)
      PROVE  WorkInv'
  <2>1. /\ UNCHANGED <<rt, exam, submitted, answers, links, ledger, loop, stranded>> /\ op = NoOp
        /\ op' = [NoOp EXCEPT !.key = k, !.action = action, !.run = r, !.step = "begin"]
    BY <1>1 DEF Begin, stores
  <2>2. /\ op' \in WorkOps /\ op'.action = action /\ op'.step = "begin" /\ op'.run = r /\ op'.key = k
        /\ op.step = "none"
    BY <2>1 DEF WorkOps, WorkSteps, NoOp
  <2>3. OpSound'
    BY <1>1, <2>2 DEF OpSound, Actions
  <2> QED
    BY <1>0, <2>1, <2>2, <2>3, ExamsRest, RunsRest, RequestProceeds DEF At
<1>2. ASSUME NEW r \in Runs, worker_fails(r)
      PROVE  WorkInv'
  <2>1. /\ UNCHANGED <<exam, submitted, answers, links, ledger, op, loop, stranded>>
        /\ rt[r] = "RECORDING" /\ rt' = [rt EXCEPT ![r] = "FAILED"]
    BY <1>2 DEF worker_fails, memory, Move
  <2>2. links[r] # None
    BY <1>0, <2>1, WorkspaceNone DEF LinksSound, RtStates
  <2>3. RunsMove /\ ExamsMove
    BY <1>0, <2>1, <2>2, RunMovesAt, ExamsRest DEF EndedStates, RtStates
  <2>4. rt'[r] = "FAILED" /\ \A s \in Runs : s # r => rt'[s] = rt[s]
    BY <1>0, <2>1 DEF WorkTypeOK
  <2>5. WorkTypeOK'
    BY <1>0, <2>1, <2>3 DEF WorkTypeOK, RunsMove
  <2>6. LoopSound'
    BY <2>1, <2>3, LoopSteady
  <2> QED
    BY <2>1, <2>3, <2>4, <2>5, <2>6, BesideTheRequest
<1>3. CASE Crash
  <2>1. /\ UNCHANGED <<exam, submitted, answers, links, ledger, stranded>> /\ op' = NoOp /\ loop' = Quiet
        /\ rt' = [r \in Runs |-> IF rt[r] = "RECORDING" THEN "FAILED" ELSE rt[r]]
    BY <1>3 DEF Crash
  <2>2. ExamsMove
    BY <1>0, <2>1, ExamsRest
  <2>3. rt' \in [Runs -> RtStates \cup {None}] /\ \A r \in Runs : rt'[r] # "RECORDING"
    BY <1>0, <2>1 DEF WorkTypeOK, RtStates
  <2>4. RunsMove
    BY <1>0, <2>1, <2>3, WorkspaceNone DEF RunsMove, EndedStates, LinksSound, RtStates
  <2>5. LinksSound' /\ LedgerTruthful'
    BY <2>1, <2>2, <2>4, RowsSteady
  <2>6. op' \in WorkOps /\ op'.step = "none" /\ loop' \in WorkHandlers /\ loop'.step = "none"
    BY <2>1 DEF NoOp, Quiet, WorkOps, WorkSteps, WorkHandlers
  <2>7. WorkTypeOK'
    BY <1>0, <2>1, <2>3, <2>6 DEF WorkTypeOK
  <2>8. OpSound' /\ LoopSound'
    BY <2>6 DEF OpSound, LoopSound
  <2>9. NoCaptureWithoutExam'
    BY <2>3 DEF NoCaptureWithoutExam
  <2> QED
    BY <2>5, <2>7, <2>8, <2>9 DEF WorkInv
<1>4. CASE UNCHANGED wsVars
  <2>1. UNCHANGED <<rt, exam, submitted, answers, links, ledger, op, loop, stranded>>
    BY <1>4 DEF wsVars, stores, memory
  <2> QED
    BY <2>1 DEF WorkInv, WorkTypeOK, LinksSound, OpSound, LoopSound, LedgerTruthful, NoCaptureWithoutExam, At
<1>5. CASE \E k \in Keys : Begin(k, "create", None)
  <2>1. "create" \notin Actions
    BY DEF Actions
  <2> QED
    BY <1>1, <1>5, <2>1
<1>6. CASE \E k \in Keys, r \in Runs, a \in Actions : rt[r] # None /\ Begin(k, a, r)
  BY <1>1, <1>6
<1> QED
  BY <1>2, <1>3, <1>4, <1>5, <1>6, WorkOpStep, WorkLoopStep DEF WorkNext

\* At first there is nothing.
LEMMA WorkInvInit == WorkInit => WorkInv
<1> SUFFICES ASSUME WorkInit PROVE WorkInv
  OBVIOUS
<1>1. WorkTypeOK
  BY DEF WorkInit, WorkTypeOK, NoOp, Quiet, WorkOps, WorkSteps, WorkHandlers
<1>2. op.step = "none" /\ loop.step = "none"
  BY DEF WorkInit, NoOp, Quiet
<1>3. LinksSound /\ LedgerTruthful
  BY DEF WorkInit, LinksSound, LedgerTruthful
<1>4. NoCaptureWithoutExam
  BY WorkspaceNone DEF WorkInit, NoCaptureWithoutExam, RtStates
<1> QED
  BY <1>1, <1>2, <1>3, <1>4 DEF WorkInv, OpSound, LoopSound

\* However requests, the loop, the worker and crashes interleave, a ledger row never
\* promises what did not happen (_once).
THEOREM LedgerTruthfulInvariant == WorkSpec => []LedgerTruthful
<1>1. WorkInv => LedgerTruthful
  BY DEF WorkInv
<1> QED
  BY <1>1, WorkInvInit, WorkInvStep, PTL DEF WorkSpec

\* Once a start request is over, no camera runs without an exam that was started, unless
\* the compensating stop failed as well (action "start").
THEOREM NoCaptureWithoutExamInvariant == WorkSpec => []NoCaptureWithoutExam
<1>1. WorkInv => NoCaptureWithoutExam
  BY DEF WorkInv
<1> QED
  BY <1>1, WorkInvInit, WorkInvStep, PTL DEF WorkSpec

\* No answer and no submission is accepted by a handler that read an ended session,
\* although a start, a stop or the worker may run between its read and its write
\* (_reconcile_runtime, record_answer, submit_exam).
THEOREM NoLateAnswers == WorkSpec => NoAnswerAfterCapture
<1> DEFINE Kept == \A e \in Exams :
             answers'[e] # answers[e] \/ submitted'[e] # submitted[e] => loop.seen \notin EndedStates
<1>1. WorkInv /\ [WorkNext]_wsVars => [Kept]_wsVars
  <2> SUFFICES ASSUME WorkInv, [WorkNext]_wsVars PROVE Kept \/ UNCHANGED wsVars
    OBVIOUS
  <2>1. CASE answers' = answers /\ submitted' = submitted
    BY <2>1
  <2>2. CASE record_answer \/ submit_exam
    <3>1. /\ loop.step = "act"
          /\ Writable(loop.exam) \/ (answers' = answers /\ submitted' = submitted)
          /\ record_answer => submitted' = submitted
          /\ submit_exam => answers' = answers
      <4>1. CASE record_answer
        BY <4>1 DEF record_answer, submit_exam
      <4>2. CASE submit_exam
        <5>1. submitted' = [submitted EXCEPT ![loop.exam] = submitted[loop.exam] \/ Writable(loop.exam)]
              /\ answers' = answers /\ loop.step = "act" /\ loop.kind = "submit"
          BY <4>2 DEF submit_exam
        <5>2. submitted \in [Exams -> BOOLEAN]
          BY DEF WorkInv, WorkTypeOK
        <5>3. ~ Writable(loop.exam) => submitted' = submitted
          BY <5>1, <5>2
        <5> QED
          BY <4>2, <5>1, <5>3 DEF record_answer
      <4> QED
        BY <2>2, <4>1, <4>2
    <3>2. Writable(loop.exam) => exam[loop.exam] = "RECORDING"
      BY DEF Writable
    <3>3. Writable(loop.exam) => loop.seen \notin EndedStates
      BY <3>1, <3>2 DEF WorkInv, LoopSound
    <3> QED
      BY <3>1, <3>3
  <2>3. CASE WorkNext /\ ~ (record_answer \/ submit_exam)
    <3>1. answers' = answers /\ submitted' = submitted
      <4>1. CASE \/ \E k \in Keys : Begin(k, "create", None)
                 \/ \E k \in Keys, r \in Runs, a \in Actions : rt[r] # None /\ Begin(k, a, r)
                 \/ \E r \in Runs : worker_fails(r)
                 \/ Crash
        BY <4>1 DEF Begin, worker_fails, Crash, stores
      <4>2. CASE OpStep
        BY <4>2 DEF OpStep, create_runtime, create_exam, create_link, action_begin, runtime_call,
             runtime_raises, exam_step, start_compensates, exam_raises, seal_step, row_step,
             request_raises, stores
      <4>3. CASE LoopStep
        BY <2>3, <4>3 DEF LoopStep, candidate_pair, create_session, act, reviewer_session_action,
             handler_begin, handler_reconcile, stores
      <4> QED
        BY <2>3, <4>1, <4>2, <4>3 DEF WorkNext
    <3> QED
      BY <2>1, <3>1
  <2>4. CASE UNCHANGED wsVars
    BY <2>4
  <2> QED
    BY <2>2, <2>3, <2>4
<1> QED
  BY <1>1, WorkInvInit, WorkInvStep, PTL DEF WorkSpec, NoAnswerAfterCapture

------------------------------------------------------------------------------
(* The access of the reviewer. *)

\* What fits n times into a span of time is at most the quotient.
LEMMA FitsInto ==
  ASSUME NEW n \in Int, NEW m \in Nat, NEW d \in Nat \ {0}, n * d <= m
  PROVE  n <= m \div d
<1> DEFINE q == m \div d
<1>1. q \in Int /\ m < d * (q + 1)
  OBVIOUS
<1> HIDE DEF q
<1>2. n * d < (q + 1) * d
  BY <1>1
<1>3. n < q + 1
  BY <1>1, <1>2
<1> QED
  BY <1>1, <1>3 DEF q

\* The counter of failures is the number of guesses, and from the last allowed guess on
\* a whole cooldown lies between one guess and the next.
PinInv ==
  /\ failures \in [Clients -> Nat] /\ blocked \in [Clients -> Nat] /\ wrong \in [Clients -> Nat]
  /\ mono \in Nat
  /\ \A c \in Clients :
       /\ failures[c] = wrong[c]
       /\ \/ wrong[c] < MaxFailures
          \/ /\ Cooldown <= blocked[c] /\ blocked[c] - Cooldown <= mono
             /\ (wrong[c] - MaxFailures) * Cooldown <= blocked[c] - Cooldown

\* The tokens are numbered as they are issued, and a check decides on one of them.
TokenInv ==
  /\ \E n \in Nat : grants \in [1 .. n -> [wall : Nat, mono : Nat]]
  /\ wall \in Nat /\ bearer \in {0} \cup DOMAIN grants
  /\ check \in [Checkers -> [step : {"idle", "rest", "decide", "served"}, token : Nat, expiry : Nat, current : Nat]]
  /\ \A k \in Checkers : check[k].step = "decide" => check[k].current \in DOMAIN grants

AccessInv == PinInv /\ TokenInv

\* A wrong PIN that is compared.
LEMMA PinRefused ==
  ASSUME PinInv, NEW c \in Clients, login_refused(c)
  PROVE  PinInv'
<1> USE AccessAssumption
<1>1. /\ blocked[c] <= mono /\ mono' = mono
      /\ wrong' = [wrong EXCEPT ![c] = wrong[c] + 1] /\ failures' = [failures EXCEPT ![c] = failures[c] + 1]
      /\ blocked' = [blocked EXCEPT ![c] = IF failures[c] + 1 >= MaxFailures THEN mono + Cooldown ELSE 0]
  BY DEF login_refused, refuse, Compared, PinInv
<1>2. /\ wrong[c] \in Nat /\ failures[c] = wrong[c] /\ blocked[c] \in Nat /\ mono \in Nat
      /\ \/ wrong[c] < MaxFailures
         \/ /\ Cooldown <= blocked[c] /\ blocked[c] - Cooldown <= mono
            /\ (wrong[c] - MaxFailures) * Cooldown <= blocked[c] - Cooldown
  BY DEF PinInv
<1>3. PICK until \in Nat :
        /\ blocked' = [blocked EXCEPT ![c] = until]
        /\ wrong[c] + 1 >= MaxFailures => until = mono + Cooldown
  <2>1. CASE failures[c] + 1 >= MaxFailures
    <3>1. mono \in Nat /\ Cooldown \in Nat
      BY <1>2
    <3>2. mono + Cooldown \in Nat
      BY <3>1
    <3>3. blocked' = [blocked EXCEPT ![c] = mono + Cooldown]
      BY <1>1, <2>1
    <3> QED
      BY <3>2, <3>3
  <2>2. CASE ~ (failures[c] + 1 >= MaxFailures)
    <3>1. blocked' = [blocked EXCEPT ![c] = 0] /\ ~ (wrong[c] + 1 >= MaxFailures)
      BY <1>1, <1>2, <2>2
    <3> QED
      BY <3>1
  <2> QED
    BY <2>1, <2>2
<1>4. /\ wrong' \in [Clients -> Nat] /\ failures' \in [Clients -> Nat] /\ blocked' \in [Clients -> Nat]
      /\ wrong'[c] = wrong[c] + 1 /\ failures'[c] = wrong[c] + 1 /\ blocked'[c] = until
      /\ \A d \in Clients : d # c => wrong'[d] = wrong[d] /\ failures'[d] = failures[d] /\ blocked'[d] = blocked[d]
  BY <1>1, <1>2, <1>3 DEF PinInv
<1>5. \/ wrong[c] + 1 < MaxFailures
      \/ /\ Cooldown <= until /\ until - Cooldown <= mono
         /\ (wrong[c] + 1 - MaxFailures) * Cooldown <= until - Cooldown
  <2>1. CASE wrong[c] + 1 < MaxFailures
    BY <2>1
  <2>2. CASE wrong[c] + 1 = MaxFailures
    <3>1. until = mono + Cooldown /\ wrong[c] + 1 - MaxFailures = 0
      BY <1>2, <1>3, <2>2
    <3> QED
      BY <1>2, <3>1
  <2>3. CASE wrong[c] >= MaxFailures
    <3>1. until = mono + Cooldown /\ until - Cooldown = mono
      BY <1>2, <1>3, <2>3
    <3> DEFINE over == wrong[c] - MaxFailures
    <3>2. over \in Int /\ wrong[c] + 1 - MaxFailures = over + 1 /\ over * Cooldown <= blocked[c] - Cooldown
      BY <1>2, <2>3
    <3> HIDE DEF over
    <3>3. (over + 1) * Cooldown = over * Cooldown + Cooldown
      BY <3>2
    <3>4. over * Cooldown \in Int
      BY <3>2
    <3> QED
      BY <1>1, <1>2, <3>1, <3>2, <3>3, <3>4
  <2> QED
    BY <1>2, <2>1, <2>2, <2>3
<1> QED
  BY <1>1, <1>4, <1>5 DEF PinInv

\* Every step keeps what is known of the guesses.
LEMMA PinStep == ASSUME PinInv, [AccessNext]_accessVars PROVE PinInv'
<1> USE AccessAssumption
<1>1. ASSUME NEW c \in Clients, login_refused(c) PROVE PinInv'
  BY <1>1, PinRefused
<1>2. ASSUME NEW c \in Clients, login_accepted(c) PROVE PinInv'
  <2>1. /\ mono' = mono /\ failures' = [failures EXCEPT ![c] = 0]
        /\ wrong' = [wrong EXCEPT ![c] = 0] /\ blocked' = [blocked EXCEPT ![c] = 0]
    BY <1>2 DEF login_accepted
  <2>2. /\ wrong' \in [Clients -> Nat] /\ failures' \in [Clients -> Nat] /\ blocked' \in [Clients -> Nat]
        /\ wrong'[c] = 0 /\ failures'[c] = 0
        /\ \A d \in Clients : d # c => wrong'[d] = wrong[d] /\ failures'[d] = failures[d] /\ blocked'[d] = blocked[d]
    BY <2>1 DEF PinInv
  <2> QED
    BY <2>1, <2>2 DEF PinInv
<1>3. CASE Tick
  BY <1>3 DEF Tick, PinInv, pinVars
<1>4. CASE UNCHANGED <<pinVars, mono>>
  BY <1>4 DEF PinInv, pinVars
<1> QED
  BY <1>1, <1>2, <1>3, <1>4 DEF AccessNext, check_begin, check_reads, check_lapsed, check_answers,
     request_ends, reviewer_logout, SetWall, accessVars, pinVars

\* At first nobody has guessed and no token was issued.
LEMMA AccessInvInit == AccessInit => AccessInv
<1> SUFFICES ASSUME AccessInit PROVE AccessInv
  OBVIOUS
<1>1. PinInv
  BY AccessAssumption DEF AccessInit, PinInv
<1>2. TokenInv
  <2>1. grants \in [1 .. 0 -> [wall : Nat, mono : Nat]] /\ DOMAIN grants = {}
    BY DEF AccessInit
  <2> QED
    BY <2>1 DEF AccessInit, TokenInv, Resting
<1> QED
  BY <1>1, <1>2 DEF AccessInv

\* A client has MaxFailures guesses at the PIN, and one more for every whole cooldown
\* that has passed, for ever (authenticate).
THEOREM GuessesBoundedInvariant == AccessSpec => []GuessesBounded
<1>1. PinInv => GuessesBounded
  <2> SUFFICES ASSUME PinInv, NEW c \in Clients PROVE wrong[c] <= MaxFailures + mono \div Cooldown
    BY DEF GuessesBounded
  <2> USE AccessAssumption
  <2>1. wrong[c] \in Nat /\ mono \in Nat /\ blocked[c] \in Nat
    BY DEF PinInv
  <2>2. mono \div Cooldown \in Nat
    BY <2>1
  <2>3. CASE wrong[c] < MaxFailures
    BY <2>1, <2>2, <2>3
  <2>4. CASE ~ (wrong[c] < MaxFailures)
    <3> DEFINE over == wrong[c] - MaxFailures
    <3>1. over \in Int /\ over * Cooldown <= blocked[c] - Cooldown /\ blocked[c] - Cooldown <= mono
      BY <2>1, <2>4 DEF PinInv
    <3> HIDE DEF over
    <3>2. over * Cooldown \in Int
      BY <3>1
    <3>3. over * Cooldown <= mono
      BY <2>1, <3>1, <3>2
    <3>4. over <= mono \div Cooldown
      BY <2>1, <3>1, <3>3, FitsInto
    <3> QED
      BY <2>1, <2>2, <3>4 DEF over
  <2> QED
    BY <2>3, <2>4
<1>2. AccessInit => PinInv
  BY AccessInvInit DEF AccessInv
<1> QED
  BY <1>1, <1>2, PinStep, PTL DEF AccessSpec

\* Every step keeps what is known of the tokens and of the checks.
LEMMA TokenStep == ASSUME PinInv, TokenInv, [AccessNext]_accessVars PROVE TokenInv'
<1> USE AccessAssumption
<1> DEFINE Check == [step : {"idle", "rest", "decide", "served"}, token : Nat, expiry : Nat, current : Nat]
           Grant == [wall : Nat, mono : Nat]
<1>0. PICK n \in Nat : grants \in [1 .. n -> Grant]
  BY DEF TokenInv
<1>a. /\ DOMAIN grants = 1 .. n /\ wall \in Nat /\ mono \in Nat /\ bearer \in {0} \cup 1 .. n
      /\ check \in [Checkers -> Check]
      /\ \A k \in Checkers : check[k].step = "decide" => check[k].current \in 1 .. n
  BY <1>0 DEF TokenInv, PinInv
<1>b. Resting \in Check /\ Resting.step = "idle"
  BY DEF Resting
<1>1. ASSUME NEW c \in Clients, login_accepted(c) PROVE TokenInv'
  <2>1. wall' = wall /\ check' = check
    BY <1>1 DEF login_accepted
  <2>2. CASE grants' = grants /\ bearer' = 0
    BY <1>0, <1>a, <2>1, <2>2 DEF TokenInv
  <2>3. CASE LET t == Cardinality(DOMAIN grants) + 1 IN
               /\ bearer' = t
               /\ grants' = [u \in 1 .. t |-> IF u = t THEN [wall |-> wall, mono |-> mono] ELSE grants[u]]
    <3>1. Cardinality(DOMAIN grants) = n
      BY <1>a, FS_Interval
    <3>2. /\ bearer' = n + 1
          /\ grants' = [u \in 1 .. n + 1 |-> IF u = n + 1 THEN [wall |-> wall, mono |-> mono] ELSE grants[u]]
      BY <2>3, <3>1
    <3>3. n + 1 \in Nat /\ grants' \in [1 .. n + 1 -> Grant] /\ DOMAIN grants' = 1 .. n + 1
      BY <1>0, <1>a, <3>2
    <3>4. bearer' \in DOMAIN grants' /\ 1 .. n \subseteq DOMAIN grants'
      BY <3>2, <3>3
    <3> QED
      BY <1>a, <2>1, <3>3, <3>4 DEF TokenInv
  <2> QED
    BY <1>1, <2>2, <2>3 DEF login_accepted
<1>2. ASSUME NEW k \in Checkers, NEW now \in Check, check' = [check EXCEPT ![k] = now],
             now.step = "decide" => now.current \in 1 .. n,
             UNCHANGED <<wall, grants>>, bearer' \in {0, bearer}
      PROVE  TokenInv'
  <2>1. check' \in [Checkers -> Check] /\ check'[k] = now /\ \A j \in Checkers : j # k => check'[j] = check[j]
    BY <1>2, <1>a
  <2>2. \A j \in Checkers : check'[j].step = "decide" => check'[j].current \in 1 .. n
    BY <1>2, <1>a, <2>1
  <2> QED
    BY <1>0, <1>2, <1>a, <2>1, <2>2 DEF TokenInv
<1>3. ASSUME NEW k \in Checkers, NEW t \in DOMAIN grants, check_begin(k, t) PROVE TokenInv'
  <2> DEFINE now == [Resting EXCEPT !.step = "rest", !.token = t, !.expiry = grants[bearer].wall + Ttl]
  <2>1. check' = [check EXCEPT ![k] = now] /\ UNCHANGED <<wall, grants, bearer>> /\ bearer # 0
    BY <1>3 DEF check_begin
  <2>2. grants[bearer].wall + Ttl \in Nat /\ t \in Nat
    BY <1>0, <1>a, <2>1
  <2>3. now \in Check /\ now.step = "rest"
    BY <2>2 DEF Resting
  <2> HIDE DEF now
  <2> QED
    BY <1>2, <2>1, <2>3
<1>4. ASSUME NEW k \in Checkers, check_reads(k) PROVE TokenInv'
  <2>1. UNCHANGED <<wall, grants, bearer>> /\ check[k] \in Check
    BY <1>4, <1>a DEF check_reads
  <2>2. CASE bearer = 0
    BY <1>2, <1>4, <1>b, <2>1, <2>2 DEF check_reads
  <2>3. CASE bearer # 0
    <3> DEFINE now == [check[k] EXCEPT !.step = "decide", !.current = bearer]
    <3>1. check' = [check EXCEPT ![k] = now]
      BY <1>4, <2>3 DEF check_reads
    <3>2. bearer \in 1 .. n /\ bearer \in Nat
      BY <1>a, <2>3
    <3>3. now \in Check /\ now.current = bearer
      BY <2>1, <3>2
    <3> HIDE DEF now
    <3> QED
      BY <1>2, <2>1, <3>1, <3>2, <3>3
  <2> QED
    BY <2>2, <2>3
<1>5. ASSUME NEW k \in Checkers, check_lapsed(k) \/ request_ends(k) \/ reviewer_logout(k) PROVE TokenInv'
  <2>1. check' = [check EXCEPT ![k] = Resting] /\ UNCHANGED <<wall, grants>> /\ bearer' \in {0, bearer}
    BY <1>5 DEF check_lapsed, request_ends, reviewer_logout
  <2> QED
    BY <1>2, <1>b, <2>1
<1>6. ASSUME NEW k \in Checkers, check_answers(k) PROVE TokenInv'
  <2>1. UNCHANGED <<wall, grants, bearer>> /\ check[k] \in Check
    BY <1>6, <1>a DEF check_answers
  <2>2. CASE check[k].token # check[k].current
    BY <1>2, <1>6, <1>b, <2>1, <2>2 DEF check_answers
  <2>3. CASE check[k].token = check[k].current
    <3> DEFINE now == [check[k] EXCEPT !.step = "served"]
    <3>1. check' = [check EXCEPT ![k] = now]
      BY <1>6, <2>3 DEF check_answers
    <3>2. now \in Check /\ now.step = "served"
      BY <2>1
    <3> HIDE DEF now
    <3> QED
      BY <1>2, <2>1, <3>1, <3>2
  <2> QED
    BY <2>2, <2>3
<1>7. CASE Tick \/ SetWall
  <2>1. UNCHANGED <<grants, bearer, check>> /\ wall' \in Nat
    BY <1>7, <1>a DEF Tick, SetWall
  <2> QED
    BY <1>0, <1>a, <2>1 DEF TokenInv
<1>8. CASE UNCHANGED <<wall, grants, bearer, check>>
  BY <1>8 DEF TokenInv
<1> QED
  BY <1>1, <1>3, <1>4, <1>5, <1>6, <1>7, <1>8 DEF AccessNext, accessVars, login_refused

\* No request is newly served with a token older than its lifetime on the monotonic
\* clock, wherever the wall clock is set between the reads of a check; and a token that
\* has not lapsed ends only by its own logout, by a login, or by a check that saw
\* another token or another time (reviewer_expiry, require_reviewer).
THEOREM TokenLifetimeHolds == AccessSpec => TokenLifetime
<1> USE AccessAssumption
<1>1. AccessInv /\ [AccessNext]_accessVars => AccessInv'
  BY PinStep, TokenStep DEF AccessInv
<1>2. ASSUME AccessInv, [AccessNext]_accessVars, NEW k \in Checkers,
             check[k].step # "served", check'[k].step = "served"
      PROVE  mono < grants[check[k].token].mono + Ttl
  <2>1. TokenInv /\ mono \in Nat
    BY <1>2 DEF AccessInv, PinInv
  <2>2. check_answers(k)
    <3>1. ASSUME NEW j \in Checkers, NEW now, check' = [check EXCEPT ![j] = now], now.step # "served"
          PROVE  FALSE
      BY <1>2, <2>1, <3>1 DEF TokenInv
    <3>2. Resting.step # "served"
      BY DEF Resting
    <3>3. ~ \E j \in Checkers : check_lapsed(j) \/ request_ends(j) \/ reviewer_logout(j)
      BY <3>1, <3>2 DEF check_lapsed, request_ends, reviewer_logout
    <3>4. ~ \E j \in Checkers, t \in DOMAIN grants : check_begin(j, t)
      <4> SUFFICES ASSUME NEW j \in Checkers, NEW t \in DOMAIN grants, check_begin(j, t) PROVE FALSE
        OBVIOUS
      <4> DEFINE now == [Resting EXCEPT !.step = "rest", !.token = t, !.expiry = grants[bearer].wall + Ttl]
      <4>1. check' = [check EXCEPT ![j] = now]
        BY DEF check_begin
      <4>2. now.step = "rest"
        BY DEF Resting
      <4> HIDE DEF now
      <4> QED
        BY <3>1, <4>1, <4>2
    <3>5. ~ \E j \in Checkers : check_reads(j)
      <4> SUFFICES ASSUME NEW j \in Checkers, check_reads(j) PROVE FALSE
        OBVIOUS
      <4> DEFINE now == IF bearer = 0 THEN Resting ELSE [check[j] EXCEPT !.step = "decide", !.current = bearer]
      <4>1. check' = [check EXCEPT ![j] = now]
        BY DEF check_reads
      <4>2. now.step # "served"
        BY <2>1 DEF Resting, TokenInv
      <4> HIDE DEF now
      <4> QED
        BY <3>1, <4>1, <4>2
    <3>6. \A j \in Checkers : check_answers(j) => j = k
      BY <1>2, <2>1 DEF check_answers, TokenInv
    <3> QED
      BY <1>2, <3>3, <3>4, <3>5, <3>6 DEF AccessNext, accessVars, login_refused, login_accepted, Tick, SetWall
  <2>3. check[k].token = check[k].current
    BY <1>2, <2>1, <2>2 DEF check_answers, TokenInv, Resting
  <2>4. ~ lapsed(check[k].current, check[k].expiry) /\ check[k].step = "decide"
    BY <2>2 DEF check_answers, Lapsed
  <2>5. grants[check[k].current].mono \in Nat
    BY <2>1, <2>4 DEF TokenInv
  <2> QED
    BY <2>1, <2>3, <2>4, <2>5 DEF lapsed
<1>3. ASSUME AccessInv, [AccessNext]_accessVars, bearer # 0, bearer' = 0
      PROVE  \/ \E c \in Clients : login_accepted(c)
             \/ \E k \in Checkers : check[k].step = "served" /\ check[k].token = bearer
             \/ \E k \in Checkers : check[k].step = "decide" /\ Lapsed(k)
  BY <1>3 DEF AccessNext, accessVars, login_refused, check_begin, check_reads, check_lapsed, check_answers,
     request_ends, reviewer_logout, Tick, SetWall
<1> DEFINE Lives ==
             /\ \A k \in Checkers :
                  check[k].step # "served" /\ check'[k].step = "served" =>
                    mono < grants[check[k].token].mono + Ttl
             /\ bearer # 0 /\ bearer' = 0 /\ ~ lapsed(bearer, grants[bearer].wall + Ttl) =>
                  \/ \E c \in Clients : login_accepted(c)
                  \/ \E k \in Checkers : check[k].step = "served" /\ check[k].token = bearer
                  \/ \E k \in Checkers : check[k].step = "decide" /\ Lapsed(k)
<1>4. AccessInv /\ [AccessNext]_accessVars => [Lives]_accessVars
  BY <1>2, <1>3
<1> QED
  BY <1>1, <1>4, AccessInvInit, PTL DEF AccessSpec, TokenLifetime

------------------------------------------------------------------------------
(* The review of a sealed session. *)

\* The least-number principle, for sets.
LEMMA LeastNatural ==
  ASSUME NEW S \in SUBSET Nat, S # {}
  PROVE  \E m \in S : \A n \in S : m <= n
<1> DEFINE R == OpToRel(<, Nat)
<1>1. IsWellFoundedOn(R, Nat)
  BY NatLessThanWellFounded
<1>2. \A a, b \in Nat : a < b => <<a, b>> \in R
  BY DEF OpToRel
<1>3. \E m \in S : \A n \in S : ~ (n < m)
  <2> HIDE DEF R
  <2>1. PICK m \in S : \A n \in S : ~ (<<n, m>> \in R)
    BY <1>1, WFMin
  <2>2. \A n \in S : ~ (n < m)
    BY <1>2, <2>1
  <2> QED
    BY <2>2
<1> QED
  BY <1>3

\* A bounded set of naturals has a greatest element.
LEMMA GreatestNatural ==
  ASSUME NEW b \in Nat, NEW S \in SUBSET (0 .. b), S # {}
  PROVE  \E m \in S : \A n \in S : m >= n
<1> DEFINE T == {b - s : s \in S}
<1>1. T \in SUBSET Nat /\ T # {}
  <2>1. \A s \in S : s \in 0 .. b
    OBVIOUS
  <2>2. \A s \in S : b - s \in Nat
    BY <2>1
  <2> QED
    BY <2>2
<1>2. PICK t \in T : \A u \in T : t <= u
  BY <1>1, LeastNatural
<1>3. PICK m \in S : t = b - m
  BY <1>2
<1>4. \A n \in S : b - n \in T
  OBVIOUS
<1>5. \A n \in S : b - m <= b - n
  BY <1>2, <1>3, <1>4
<1>6. \A n \in S : m >= n
  BY <1>5
<1> QED
  BY <1>6

\* Decisions have an interval of frames, and are numbered in their order.
ReviewRows == [event : Nat, label : ReviewLabels, status : ReviewStatuses, start : Nat, end : Nat]
ReviewTypeOK == wEvents \in Nat /\ wReviews \in Seq(ReviewRows) /\ wLocked \in BOOLEAN

\* What is locked is free of conflicts, and what is exported was computed after that.
ReviewInv ==
  /\ ReviewTypeOK
  /\ wLocked => ~ conflicts
  /\ wExport # <<>> => wLocked
  /\ ExportUnambiguous

\* The first and the last review of an event that was reviewed.
LEMMA ReviewsOf ==
  ASSUME ReviewTypeOK, NEW ev \in Reviewed
  PROVE  FirstReview(ev) \in Nat /\ latest(ev) \in ReviewRows
<1> DEFINE S == {i \in 1 .. Revision : wReviews[i].event = ev}
<1>1. Revision \in Nat /\ \A i \in 1 .. Revision : wReviews[i] \in ReviewRows
  BY DEF ReviewTypeOK, Revision
<1>2. S # {} /\ S \in SUBSET Nat /\ S \in SUBSET (0 .. Revision) /\ \A i \in S : i \in 1 .. Revision
  BY <1>1 DEF Reviewed
<1>3. FirstReview(ev) = Min(S) /\ latest(ev) = wReviews[Max(S)]
  BY DEF FirstReview, latest
<1> HIDE DEF S
<1>4. Min(S) \in S
  BY <1>2, LeastNatural DEF Min
<1>5. Max(S) \in S
  BY <1>1, <1>2, GreatestNatural DEF Max
<1> QED
  BY <1>1, <1>2, <1>3, <1>4, <1>5

\* A step that writes no decision changes no opinion.
LEMMA OpinionsSteady ==
  ASSUME wReviews' = wReviews
  PROVE  /\ conflicts' <=> conflicts
         /\ Standing' = Standing
         /\ \A ev : latest(ev)' = latest(ev)
<1>1. Revision' = Revision
  BY DEF Revision
<1>2. \A ev : latest(ev)' = latest(ev)
  BY <1>1 DEF latest
<1>3. Reviewed' = Reviewed
  BY <1>1 DEF Reviewed
<1>4. Standing' = Standing
  BY <1>2, <1>3 DEF Standing
<1> QED
  BY <1>2, <1>4 DEF conflicts

\* The events that cover a frame of the timeline.
Covering(offset) == {ev \in Standing : latest(ev).start <= offset /\ offset < latest(ev).end}

\* The label an export gives to a frame of a session without conflicts.
LEMMA LabelUnambiguous ==
  ASSUME ReviewTypeOK, ~ conflicts, NEW offset \in Nat, exported_label(offset) # "UNCERTAIN"
  PROVE  /\ \E ev \in Covering(offset) : latest(ev).status = "CONFIRMED" /\ latest(ev).label = exported_label(offset)
         /\ \A ev \in Covering(offset) : latest(ev).label = exported_label(offset)
<1> DEFINE first == CHOOSE ev \in Covering(offset) :
                      \A other \in Covering(offset) : FirstReview(ev) <= FirstReview(other)
<1>1. \A ev \in Covering(offset) :
        /\ FirstReview(ev) \in Nat /\ latest(ev) \in ReviewRows /\ ev \in Standing
        /\ latest(ev).start <= offset /\ offset < latest(ev).end
  BY ReviewsOf DEF Covering, Standing
<1>2. exported_label(offset) = IF Covering(offset) # {} /\ latest(first).status = "CONFIRMED"
                               THEN latest(first).label ELSE "UNCERTAIN"
  BY DEF exported_label, Covering
<1>3. Covering(offset) # {} /\ latest(first).status = "CONFIRMED" /\ latest(first).label = exported_label(offset)
  BY <1>2
<1>4. first \in Covering(offset)
  <2> DEFINE P == {FirstReview(ev) : ev \in Covering(offset)}
  <2>1. P \in SUBSET Nat /\ P # {}
    BY <1>1, <1>3
  <2>2. PICK m \in P : \A n \in P : m <= n
    BY <2>1, LeastNatural
  <2>3. PICK ev \in Covering(offset) : m = FirstReview(ev)
    BY <2>2
  <2>4. \A other \in Covering(offset) : FirstReview(ev) <= FirstReview(other)
    BY <2>2, <2>3
  <2> QED
    BY <2>3, <2>4
<1> HIDE DEF first
<1>5. ASSUME NEW ev \in Covering(offset) PROVE latest(ev).label = latest(first).label
  <2>1. /\ latest(ev).start \in Nat /\ latest(ev).end \in Nat
        /\ latest(first).start \in Nat /\ latest(first).end \in Nat
        /\ latest(ev).start <= offset /\ offset < latest(ev).end
        /\ latest(first).start <= offset /\ offset < latest(first).end
    BY <1>1, <1>4 DEF ReviewRows
  <2>2. Overlapping(latest(ev), latest(first))
    BY <2>1 DEF Overlapping
  <2> QED
    BY <1>1, <1>4, <2>2 DEF conflicts
<1> QED
  BY <1>3, <1>4, <1>5

\* Every step of the review keeps the invariant.
LEMMA ReviewInvStep == ReviewInv /\ [ReviewNext]_reviewVars => ReviewInv'
<1> SUFFICES ASSUME ReviewInv, [ReviewNext]_reviewVars PROVE ReviewInv'
  OBVIOUS
<1> USE ReviewAssumption
<1>0. ReviewTypeOK /\ ReviewFrames \in Nat
  BY DEF ReviewInv
<1>1. ASSUME NEW start \in 0 .. ReviewFrames - 1, NEW end \in start + 1 .. ReviewFrames,
             NEW about \in 0 .. ReviewEvents, NEW label \in ReviewLabels, NEW status \in ReviewStatuses,
             review(about, label, status, start, end)
      PROVE  ReviewInv'
  <2>1. ~ wLocked /\ wLocked' = wLocked /\ wExport' = wExport
    BY <1>1 DEF review
  <2>2. PICK t \in Nat :
          /\ wEvents' = Max({wEvents, t})
          /\ wReviews' = Append(wReviews, [event |-> t, label |-> label, status |-> status,
                                           start |-> start, end |-> end])
    <3>1. wEvents + 1 \in Nat /\ about \in Nat
      BY <1>0 DEF ReviewTypeOK
    <3> QED
      BY <1>1, <3>1 DEF review
  <2>3. wReviews' \in Seq(ReviewRows)
    <3>1. start \in Nat /\ end \in Nat
      BY <1>0
    <3>2. [event |-> t, label |-> label, status |-> status, start |-> start, end |-> end] \in ReviewRows
      BY <3>1 DEF ReviewRows
    <3> QED
      BY <1>0, <2>2, <3>2 DEF ReviewTypeOK
  <2>4. wEvents' \in Nat
    <3>1. \E x \in {wEvents, t} : \A y \in {wEvents, t} : x >= y
      BY <1>0 DEF ReviewTypeOK
    <3>2. Max({wEvents, t}) \in {wEvents, t}
      BY <3>1 DEF Max
    <3> QED
      BY <1>0, <2>2, <3>2 DEF ReviewTypeOK
  <2>5. wExport = <<>>
    BY <2>1 DEF ReviewInv
  <2>6. ExportUnambiguous'
    BY <2>1, <2>5 DEF ExportUnambiguous
  <2> QED
    BY <1>0, <2>1, <2>3, <2>4, <2>5, <2>6 DEF ReviewInv, ReviewTypeOK
<1>2. ASSUME UNCHANGED <<wEvents, wReviews, wExport>>, wLocked' \in BOOLEAN,
             wLocked' => ~ conflicts, wExport # <<>> => wLocked'
      PROVE  ReviewInv'
  <2>1. conflicts' <=> conflicts
    BY <1>2, OpinionsSteady
  <2>2. Standing' = Standing /\ \A ev : latest(ev)' = latest(ev)
    BY <1>2, OpinionsSteady
  <2>3. ExportUnambiguous'
    BY <1>2, <2>2 DEF ReviewInv, ExportUnambiguous
  <2> QED
    BY <1>0, <1>2, <2>1, <2>3 DEF ReviewInv, ReviewTypeOK
<1>3. CASE lock
  BY <1>2, <1>3 DEF lock, ReviewInv
<1>4. CASE export_records
  <2>1. /\ wLocked /\ ~ conflicts /\ UNCHANGED <<wEvents, wReviews, wLocked>>
        /\ wExport' = [i \in 1 .. ReviewFrames |-> exported_label(i - 1)]
    BY <1>4 DEF export_records, ReviewInv
  <2>2. Standing' = Standing /\ (\A ev : latest(ev)' = latest(ev)) /\ (conflicts' <=> conflicts)
    BY <2>1, OpinionsSteady
  <2>3. Len(wExport') = ReviewFrames
    BY <1>0, <2>1
  <2>4. ASSUME NEW i \in 1 .. ReviewFrames, wExport'[i] # "UNCERTAIN"
        PROVE  /\ \E ev \in Covering(i - 1) : latest(ev).status = "CONFIRMED" /\ latest(ev).label = wExport'[i]
               /\ \A ev \in Covering(i - 1) : latest(ev).label = wExport'[i]
    <3>1. i - 1 \in Nat
      BY <1>0
    <3>2. wExport'[i] = exported_label(i - 1)
      BY <2>1
    <3> QED
      BY <1>0, <2>1, <2>4, <3>1, <3>2, LabelUnambiguous
  <2>5. ExportUnambiguous'
    BY <2>2, <2>3, <2>4 DEF ExportUnambiguous, Covering
  <2> QED
    BY <1>0, <2>1, <2>2, <2>5 DEF ReviewInv, ReviewTypeOK
<1>5. CASE UNCHANGED reviewVars
  BY <1>0, <1>2, <1>5 DEF reviewVars, ReviewInv, ReviewTypeOK
<1> QED
  BY <1>1, <1>3, <1>4, <1>5 DEF ReviewNext

\* A frame is exported under a label only when a standing decision confirms it and no
\* standing decision that covers it has another label, whatever the order in which
\* events were reviewed, revised and annotated (review, lock, _export_records).
THEOREM ExportUnambiguousInvariant == ReviewSpec => []ExportUnambiguous
<1>1. ReviewInit => ReviewInv
  <2> SUFFICES ASSUME ReviewInit PROVE ReviewInv
    OBVIOUS
  <2>a. wEvents \in Nat
    <3>1. ReviewEvents \in Nat
      BY ReviewAssumption
    <3> QED
      BY <3>1 DEF ReviewInit
  <2>b. wReviews \in Seq(ReviewRows)
    BY DEF ReviewInit
  <2>1. ReviewTypeOK /\ ~ wLocked /\ wExport = <<>>
    BY <2>a, <2>b DEF ReviewInit, ReviewTypeOK
  <2>2. ExportUnambiguous
    BY <2>1 DEF ExportUnambiguous
  <2> QED
    BY <2>1, <2>2 DEF ReviewInv
<1>2. ReviewInv => ExportUnambiguous
  BY DEF ReviewInv
<1> QED
  BY <1>1, <1>2, ReviewInvStep, PTL DEF ReviewSpec

-----------------------------------------------------------------------------
(* The temporal rules. *)

\* What the frames, the rows and the engines hold.
Seen == {"NO_PERSON", "MULTIPLE_PEOPLE"} \cup Motions
Said == {Nothing, "NORMAL", "UNCERTAIN"} \cup Motions
Angles == [down : Nat, side : Nat]
Stamps == [t : Nat, count : Nat, angles : Angles, ok : BOOLEAN, judged : BOOLEAN, said : Said]
EventRows == [kind : {"START", "UPDATE", "END"}, label : Seen, start : Nat, end : Nat, onset : Nat]
Engines == [pending : Seen \cup {Nothing}, pendingStart : Nat, active : Seen \cup {Nothing}, start : Nat,
            onset : Nat, support : Nat, emission : Nat, cooldown : Nat]

Engine(s) == IF s = Rules THEN vRule ELSE vModel

\* The frames are in the order of their times.
Timeline ==
  /\ vState \in {"RECORDING", "STOPPED", "FAILED"}
  /\ vFrames \in Seq(Stamps)
  /\ \A i, j \in 1 .. Len(vFrames) : i < j => vFrames[i].t < vFrames[j].t

\* What the frames say of one event, wherever its row is in its life.
Backed(s, ev) ==
  /\ \A i \in Inside(s, ev) : Shows(s, i, ev.label) # "UNUSABLE"
  /\ \A i \in Inside(s, ev) : vFrames[i].t <= ev.onset => Shows(s, i, Nothing) = ev.label
  /\ \E i \in Inside(s, ev) : vFrames[i].t = ev.start
  /\ \E i \in Inside(s, ev) : vFrames[i].t >= ev.onset
  /\ ev.kind = "END" => \E i \in Inside(s, ev) : /\ vFrames[i].t + 1 = ev.end
                                                 /\ Shows(s, i, ev.label) = ev.label
  /\ ev.end <= Elapsed + 1

\* An engine with an event under way: its row is the last one, and the frames since its
\* start bear it out.
Running(s, a) ==
  /\ Len(vEvents[s]) > 0
  /\ LET ev == vEvents[s][Len(vEvents[s])]
     IN /\ ev.kind # "END" /\ ev.label = a /\ ev.start = Engine(s).start /\ ev.onset = Engine(s).onset
        /\ ev.end <= Engine(s).support
  /\ \A n \in 1 .. Len(vEvents[s]) - 1 : vEvents[s][n].kind = "END"
  /\ \A i \in Told(s) : vFrames[i].t >= Engine(s).start =>
       /\ Shows(s, i, a) # "UNUSABLE"
       /\ vFrames[i].t <= Engine(s).onset => Shows(s, i, Nothing) = a
  /\ \E i \in Told(s) : vFrames[i].t + 1 = Engine(s).support /\ Shows(s, i, a) = a

\* An engine without one: every row has ended.
Waiting(s) ==
  \A n \in 1 .. Len(vEvents[s]) :
    vEvents[s][n].kind = "END" /\ (vState = "RECORDING" => vEvents[s][n].end <= Elapsed)

\* The frames since the start of a pending label show it.
Pending(s, p) ==
  /\ \A n \in 1 .. Len(vEvents[s]) : vEvents[s][n].end < Engine(s).pendingStart
  /\ \A i \in Told(s) : vFrames[i].t >= Engine(s).pendingStart => Shows(s, i, Nothing) = p
  /\ \E i \in Told(s) : vFrames[i].t = Engine(s).pendingStart

EngineSound(s) ==
  /\ Engine(s) \in Engines
  /\ vEvents[s] \in Seq(EventRows)
  /\ \A n \in 1 .. Len(vEvents[s]) : \A ev \in EventRows : vEvents[s][n] = ev => Backed(s, ev)
  /\ \A n, m \in 1 .. Len(vEvents[s]) : n < m => vEvents[s][n].end < vEvents[s][m].start
  /\ \A a \in Seen : Engine(s).active = a => vState # "STOPPED" /\ Running(s, a)
  /\ Engine(s).active = Nothing => Waiting(s)
  /\ \A p \in Seen : Engine(s).active = Nothing /\ Engine(s).pending = p => Pending(s, p)

RuleInv ==
  /\ Timeline
  /\ vEvents \in [Signals -> Seq(EventRows)]
  /\ \A s \in Signals : EngineSound(s)

-----------------------------------------------------------------------------
\* What a frame shows is a label or nothing, and what begins an event also keeps it.
LEMMA ObservedFacts ==
  ASSUME NEW a \in Seen \cup {Nothing}, NEW c \in Nat, NEW g \in Angles, NEW p \in Said
  PROVE  /\ observed(a, c, g, p) \in Seen \cup {Nothing}
         /\ observed(Nothing, c, g, p) = a => observed(a, c, g, p) = a
         /\ (Seen \cup {Nothing}) \cap {"UNUSABLE"} = {}
BY DEF observed, Seen, Motions, Nothing, Angles, Said

\* The greater of two numbers.
LEMMA MaxOfTwo ==
  ASSUME NEW x \in Int, NEW y \in Int
  PROVE  Max({x, y}) = IF x >= y THEN x ELSE y
BY DEF Max

\* The only element is the greatest.
LEMMA MaxOfOne ==
  ASSUME NEW x \in Int
  PROVE  Max({x}) = x
BY DEF Max

\* The outcomes of a frame for an engine that waits.
LEMMA AdvanceWaiting ==
  ASSUME NEW e \in Engines, NEW t \in Nat, NEW c \in Nat, NEW g \in Angles, NEW ok \in BOOLEAN, NEW p \in Said,
         e.active = Nothing
  PROVE  LET after == advance(e, t, c, g, ok, p).engine
             out == advance(e, t, c, g, ok, p).out
             seen == observed(Nothing, c, g, p)
             since == IF seen = e.pending THEN e.pendingStart ELSE t
         IN /\ after \in Engines
            /\ \/ after.active = Nothing /\ after.pending = Nothing /\ out = <<>>
               \/ /\ ok /\ seen \in Seen /\ out = <<>>
                  /\ after.active = Nothing /\ after.pending = seen /\ after.pendingStart = since
               \/ /\ ok /\ seen \in Seen /\ after.active = seen
                  /\ after.start = since /\ after.support = t + 1 /\ after.onset <= t /\ since < after.onset
                  /\ out = <<[kind |-> "START", label |-> seen, start |-> since, end |-> t + 1, onset |-> after.onset]>>
<1> DEFINE after == advance(e, t, c, g, ok, p).engine
           out == advance(e, t, c, g, ok, p).out
           seen == observed(Nothing, c, g, p)
           since == IF seen = e.pending THEN e.pendingStart ELSE t
           d == IF c # 1 THEN PresenceDuration ELSE MotionDuration
<1>1. seen \in Seen \cup {Nothing} /\ since \in Nat /\ d \in Nat \ {0} /\ Nothing \notin Seen
  BY ObservedFacts, RuleAssumption DEF Engines, Seen, Motions, Nothing
<1>2. CASE ~ ok
  <2>1. after = [e EXCEPT !.pending = Nothing] /\ out = <<>>
    BY <1>2 DEF advance, close_engine, Engines
  <2> QED
    BY <2>1, <1>1 DEF Engines
<1>3. CASE ok /\ (seen = Nothing \/ t < e.cooldown)
  <2>1. after = [e EXCEPT !.pending = Nothing] /\ out = <<>>
    BY <1>3 DEF advance, advance_pending
  <2> QED
    BY <2>1, <1>1 DEF Engines
<1>4. CASE ok /\ ~ (seen = Nothing \/ t < e.cooldown) /\ t - since < d
  <2>1. after = [e EXCEPT !.pending = seen, !.pendingStart = since] /\ out = <<>>
    BY <1>4 DEF advance, advance_pending
  <2> HIDE DEF seen, since, after, out
  <2>2. after \in Engines /\ after.active = Nothing /\ after.pending = seen /\ after.pendingStart = since
    BY <2>1, <1>1 DEF Engines
  <2> QED
    BY <2>1, <2>2, <1>4, <1>1 DEF seen, since, after, out
<1>5. CASE ok /\ ~ (seen = Nothing \/ t < e.cooldown) /\ ~ (t - since < d)
  <2> DEFINE started == [e EXCEPT !.active = seen, !.start = since, !.onset = since + d,
                                  !.support = t + 1, !.emission = t, !.pending = Nothing]
  <2>1. after = started /\ out = <<event(started, "START", t + 1)>>
    BY <1>5 DEF advance, advance_pending
  <2> HIDE DEF seen, since, after, out, d
  <2>2. /\ started \in Engines /\ started.active = seen /\ started.start = since /\ started.onset = since + d
        /\ started.support = t + 1
    <3>1. PICK a \in Seen \cup {Nothing}, x \in Nat, y \in Nat, u \in Nat : a = seen /\ x = since /\ y = since + d /\ u = t + 1
      BY <1>1
    <3> HIDE DEF started
    <3>2. started = [e EXCEPT !.active = a, !.start = x, !.onset = y, !.support = u, !.emission = t, !.pending = Nothing]
      BY <3>1 DEF started
    <3> DEFINE half == [e EXCEPT !.active = a, !.start = x, !.onset = y]
               f == [half EXCEPT !.support = u, !.emission = t, !.pending = Nothing]
    <3>3. half \in Engines /\ half.active = a /\ half.start = x /\ half.onset = y
      BY DEF Engines
    <3>4. started = f
      BY <3>2
    <3> HIDE DEF half
    <3>5. f \in Engines
      BY <3>3 DEF Engines
    <3>6. f.active = a /\ f.start = x /\ f.onset = y
      BY <3>3 DEF Engines
    <3>7. f.support = u
      BY <3>3 DEF Engines
    <3> HIDE DEF f
    <3> QED
      BY <3>1, <3>4, <3>5, <3>6, <3>7
  <2>3. since + d <= t /\ since < since + d
    BY <1>1, <1>5
  <2>4. Max({since + 1, t + 1}) = t + 1
    BY MaxOfTwo, <2>3, <1>1
  <2>5. event(started, "START", t + 1)
          = [kind |-> "START", label |-> seen, start |-> since, end |-> t + 1, onset |-> since + d]
    BY <2>2, <2>4 DEF event
  <2> HIDE DEF started
  <2> QED
    BY <2>1, <2>2, <2>3, <2>5, <1>5, <1>1 DEF seen, since, after, out
<1> QED
  BY <1>2, <1>3, <1>4, <1>5

\* The outcomes of a frame for an engine with an event under way.
LEMMA AdvanceRunning ==
  ASSUME NEW e \in Engines, NEW t \in Nat, NEW c \in Nat, NEW g \in Angles, NEW ok \in BOOLEAN, NEW p \in Said,
         e.active # Nothing, e.start < e.support, e.start <= t
  PROVE  LET after == advance(e, t, c, g, ok, p).engine
             out == advance(e, t, c, g, ok, p).out
             seen == observed(e.active, c, g, p)
         IN /\ after \in Engines
            /\ \/ after = e /\ out = <<>> /\ ok
               \/ /\ ok /\ seen = e.active
                  /\ after.active = e.active /\ after.start = e.start /\ after.onset = e.onset /\ after.support = t + 1
                  /\ \/ out = <<>>
                     \/ out = <<[kind |-> "UPDATE", label |-> e.active, start |-> e.start, end |-> t + 1,
                                 onset |-> e.onset]>>
               \/ /\ after.active = Nothing /\ after.pending = Nothing
                  /\ out = <<[kind |-> "END", label |-> e.active, start |-> e.start, end |-> e.support,
                              onset |-> e.onset]>>
<1> DEFINE after == advance(e, t, c, g, ok, p).engine
           out == advance(e, t, c, g, ok, p).out
           seen == observed(e.active, c, g, p)
           closed == [e EXCEPT !.active = Nothing, !.pending = Nothing, !.cooldown = t + CooldownTicks]
           ended == [kind |-> "END", label |-> e.active, start |-> e.start, end |-> e.support, onset |-> e.onset]
<1>a. t + CooldownTicks \in Nat
  BY RuleAssumption
<1>1. closed \in Engines /\ closed.active = Nothing /\ closed.pending = Nothing
  BY <1>a DEF Engines
<1>2. Max({e.start + 1, e.support}) = e.support /\ Max({e.start + 1, t + 1}) = t + 1
  BY MaxOfTwo DEF Engines
<1>3. event(e, "END", e.support) = ended
  BY <1>2 DEF event
<1>4. CASE ~ ok
  <2> DEFINE f == [e EXCEPT !.pending = Nothing]
  <2>1. f \in Engines /\ f.active = e.active /\ f.start = e.start /\ f.onset = e.onset /\ f.support = e.support
    BY DEF Engines
  <2>2. after = [f EXCEPT !.active = Nothing, !.pending = Nothing, !.cooldown = t + CooldownTicks]
        /\ out = <<event(f, "END", f.support)>>
    BY <1>4, <2>1 DEF advance, close_engine
  <2>3. event(f, "END", f.support) = ended
    BY <2>1, <1>2 DEF event
  <2>4. after \in Engines /\ after.active = Nothing /\ after.pending = Nothing
    BY <2>2, <2>1, <1>a DEF Engines
  <2> QED
    BY <2>2, <2>3, <2>4
<1>5. CASE ok /\ seen = e.active
  <2> DEFINE held == [e EXCEPT !.support = t + 1]
             told == [held EXCEPT !.emission = t]
  <2>1. \/ after = told /\ out = <<event(e, "UPDATE", t + 1)>>
        \/ after = held /\ out = <<>>
    BY <1>5 DEF advance, advance_active
  <2>2. held \in Engines /\ held.active = e.active /\ held.start = e.start /\ held.onset = e.onset /\ held.support = t + 1
    BY DEF Engines
  <2> HIDE DEF held
  <2>4. told \in Engines /\ told.active = e.active /\ told.start = e.start /\ told.onset = e.onset /\ told.support = t + 1
    BY <2>2 DEF Engines
  <2>3. event(e, "UPDATE", t + 1) = [kind |-> "UPDATE", label |-> e.active, start |-> e.start, end |-> t + 1, onset |-> e.onset]
    BY <1>2 DEF event
  <2> HIDE DEF told, after, out, seen
  <2> QED
    BY <2>1, <2>2, <2>3, <2>4, <1>5 DEF after, out, seen
<1>6. CASE ok /\ seen # e.active
  <2>1. \/ after = closed /\ out = <<event(e, "END", e.support)>>
        \/ after = e /\ out = <<>>
    BY <1>6 DEF advance, advance_active, close_engine
  <2> QED
    BY <2>1, <1>1, <1>3, <1>6
<1> QED
  BY <1>4, <1>5, <1>6

-----------------------------------------------------------------------------
\* The timeline of s is as before but for a frame n at t, if that is one of those s is told of.
Grows(s, t, n) ==
  /\ vState = "RECORDING" /\ vState' = vState
  /\ t \in Nat /\ Elapsed' = t
  /\ Told(s) \subseteq Told(s)' /\ Told(s)' \subseteq Told(s) \cup {n}
  /\ n \notin Told(s) /\ vFrames'[n].t = t
  /\ Elapsed \in Nat /\ Elapsed <= t
  /\ \A i \in Told(s) :
       /\ vFrames'[i] = vFrames[i] /\ vFrames[i].t \in Nat /\ vFrames[i].t <= Elapsed /\ Elapsed < t
       /\ \A a \in Seen \cup {Nothing} : Shows(s, i, a)' = Shows(s, i, a)
       /\ \A a \in Seen : Shows(s, i, Nothing) = a => Shows(s, i, a) = a

\* The new frame is one of them, and this is what it shows.
Hears(s, t, n, c, g, ok, p) ==
  /\ Grows(s, t, n)
  /\ n \in Told(s)'
  /\ \A a \in Seen \cup {Nothing} : Shows(s, n, a)' = IF ok THEN observed(a, c, g, p) ELSE "UNUSABLE"

\* Appending a frame that is later than the others.
LEMMA FrameFacts ==
  ASSUME Timeline, NEW f \in Stamps, vFrames = <<>> \/ Elapsed < f.t,
         vState' = vState, vFrames' = Append(vFrames, f)
  PROVE  /\ Timeline'
         /\ Elapsed' = f.t /\ Elapsed \in Nat /\ Elapsed <= f.t
         /\ Len(vFrames') = Len(vFrames) + 1 /\ Len(vFrames) \in Nat
         /\ vFrames'[Len(vFrames) + 1] = f
         /\ \A i \in 1 .. Len(vFrames) :
              vFrames'[i] = vFrames[i] /\ vFrames[i].t \in Nat /\ vFrames[i].t <= Elapsed /\ Elapsed < f.t
<1>1. /\ vFrames \in Seq(Stamps) /\ vFrames' \in Seq(Stamps) /\ Len(vFrames) \in Nat
      /\ Len(vFrames') = Len(vFrames) + 1 /\ vFrames'[Len(vFrames) + 1] = f
      /\ \A i \in 1 .. Len(vFrames) : vFrames'[i] = vFrames[i] /\ vFrames[i] \in Stamps
  BY DEF Timeline
<1>2. \A x \in Stamps : x.t \in Nat
  BY DEF Stamps
<1>3. Elapsed' = f.t
  BY <1>1 DEF Elapsed, Last
<1>4. CASE vFrames = <<>>
  <2>1. Len(vFrames) = 0 /\ Elapsed = 0
    BY <1>4 DEF Elapsed
  <2>2. Timeline'
    BY <1>1, <2>1 DEF Timeline
  <2> QED
    BY <1>1, <1>2, <1>3, <2>1, <2>2
<1>5. CASE vFrames # <<>>
  <2>1. Len(vFrames) \in 1 .. Len(vFrames) /\ Elapsed = vFrames[Len(vFrames)].t
    BY <1>1, <1>5 DEF Elapsed, Last
  <2>2. \A i \in 1 .. Len(vFrames) : vFrames[i].t <= Elapsed /\ vFrames[i].t \in Nat
    BY <1>1, <1>2, <2>1 DEF Timeline
  <2>3. Elapsed \in Nat /\ Elapsed < f.t
    BY <1>1, <1>2, <1>5, <2>1
  <2>4. \A i, j \in 1 .. Len(vFrames') : i < j => vFrames'[i].t < vFrames'[j].t
    BY <1>1, <1>2, <2>2, <2>3 DEF Timeline
  <2>5. Timeline'
    BY <1>1, <2>4 DEF Timeline
  <2> QED
    BY <1>1, <1>2, <1>3, <2>2, <2>3, <2>5
<1> QED
  BY <1>4, <1>5

\* What bears out an event is not changed by a later frame.
LEMMA BackedStays ==
  ASSUME NEW s, NEW t, NEW n, Grows(s, t, n), NEW ev \in EventRows, Backed(s, ev)
  PROVE  Backed(s, ev)'
<1>1. ev.start \in Nat /\ ev.end \in Nat /\ ev.onset \in Nat /\ ev.label \in Seen
  BY DEF EventRows
<1>2. PICK i0 \in Inside(s, ev) : TRUE
  BY DEF Backed
<1>3. ev.end <= t
  BY <1>1, <1>2 DEF Backed, Grows, Inside
<1>4. Inside(s, ev)' = Inside(s, ev)
  BY <1>1, <1>3 DEF Grows, Inside
<1>5. \A i \in Inside(s, ev) :
        /\ vFrames'[i] = vFrames[i]
        /\ Shows(s, i, ev.label)' = Shows(s, i, ev.label) /\ Shows(s, i, Nothing)' = Shows(s, i, Nothing)
  BY <1>1 DEF Grows, Inside
<1>6. ev.end <= Elapsed' + 1
  BY <1>3, <1>1 DEF Grows
<1> QED
  BY <1>4, <1>5, <1>6 DEF Backed

\* The rows of an engine, without what it says of itself.
RowsSound(s) ==
  /\ vEvents[s] \in Seq(EventRows)
  /\ \A n \in 1 .. Len(vEvents[s]) : \A ev \in EventRows : vEvents[s][n] = ev => Backed(s, ev)
  /\ \A n, m \in 1 .. Len(vEvents[s]) : n < m => vEvents[s][n].end < vEvents[s][m].start

\* A frame leaves the rows as sound as they were, if nothing is written.
LEMMA RowsStay ==
  ASSUME NEW s, NEW t, NEW n, Grows(s, t, n), RowsSound(s), (vEvents[s])' = vEvents[s]
  PROVE  /\ RowsSound(s)'
         /\ \A k \in 1 .. Len(vEvents[s]) : vEvents[s][k] \in EventRows /\ vEvents[s][k].end <= Elapsed'
<1>1. \A k \in 1 .. Len(vEvents[s]) : vEvents[s][k] \in EventRows
  BY DEF RowsSound
<1>2. RowsSound(s)'
  BY BackedStays DEF RowsSound
<1>3. ASSUME NEW ev \in EventRows, Backed(s, ev) PROVE ev.end <= Elapsed'
  <2>1. PICK i0 \in Inside(s, ev) : TRUE
    BY <1>3 DEF Backed
  <2>2. ev.end \in Nat /\ ev.end <= Elapsed + 1
    BY <1>3 DEF EventRows, Backed
  <2> QED
    BY <2>1, <2>2 DEF Grows, Inside
<1> QED
  BY <1>1, <1>2, <1>3 DEF RowsSound

\* A frame that s is not told of changes nothing for it.
LEMMA Unheard ==
  ASSUME NEW s, NEW t, NEW n, Grows(s, t, n), n \notin Told(s)', EngineSound(s),
         (vEvents[s])' = vEvents[s], Engine(s)' = Engine(s)
  PROVE  EngineSound(s)'
<1>1. RowsSound(s)' /\ \A k \in 1 .. Len(vEvents[s]) : vEvents[s][k].end <= Elapsed'
  BY RowsStay DEF EngineSound, RowsSound
<1>2. Told(s)' = Told(s)
  BY DEF Grows
<1>3. ASSUME NEW a \in Seen, Engine(s).active = a PROVE Running(s, a)'
  BY <1>2, <1>3 DEF EngineSound, Running, Grows
<1>4. Engine(s).active = Nothing => Waiting(s)'
  BY <1>1 DEF EngineSound, Waiting
<1>5. ASSUME NEW p \in Seen, Engine(s).active = Nothing, Engine(s).pending = p PROVE Pending(s, p)'
  BY <1>2, <1>5 DEF EngineSound, Pending, Grows
<1> QED
  BY <1>1, <1>3, <1>4, <1>5 DEF EngineSound, RowsSound, Grows

\* What is written of the events of one call.
LEMMA PersistNone ==
  ASSUME NEW rows
  PROVE  persist_rule_events(rows, <<>>) = rows
BY DEF persist_rule_events

\* A START is a row of its own.
LEMMA PersistStart ==
  ASSUME NEW rows, NEW ev, ev.kind = "START"
  PROVE  persist_rule_events(rows, <<ev>>) = Append(rows, ev)
BY DEF persist_rule_events

\* An UPDATE and an END rewrite the row that has not ended.
LEMMA PersistOpen ==
  ASSUME NEW rows \in Seq(EventRows), NEW ev, ev.kind # "START", Len(rows) > 0,
         rows[Len(rows)].kind # "END", \A k \in 1 .. Len(rows) - 1 : rows[k].kind = "END"
  PROVE  persist_rule_events(rows, <<ev>>) = [rows EXCEPT ![Len(rows)] = ev]
<1>1. {i \in 1 .. Len(rows) : rows[i].kind # "END"} = {Len(rows)} /\ Len(rows) \in Int
  OBVIOUS
<1>2. Max({Len(rows)}) = Len(rows)
  BY <1>1, MaxOfOne
<1>3. <<ev>> # <<>> /\ <<ev>>[1] = ev
  OBVIOUS
<1> QED
  BY <1>1, <1>2, <1>3 DEF persist_rule_events

\* A frame for an engine that waits.
LEMMA HearsWaiting ==
  ASSUME NEW s, NEW t, NEW n, NEW c \in Nat, NEW g \in Angles, NEW ok \in BOOLEAN, NEW p \in Said,
         Hears(s, t, n, c, g, ok, p), EngineSound(s), Engine(s).active = Nothing,
         Engine(s)' = advance(Engine(s), t, c, g, ok, p).engine,
         (vEvents[s])' = persist_rule_events(vEvents[s], advance(Engine(s), t, c, g, ok, p).out)
  PROVE  EngineSound(s)'
<1> DEFINE seen == observed(Nothing, c, g, p)
           since == IF seen = Engine(s).pending THEN Engine(s).pendingStart ELSE t
           out == advance(Engine(s), t, c, g, ok, p).out
<1>1. /\ Engine(s)' \in Engines
      /\ \/ Engine(s)'.active = Nothing /\ Engine(s)'.pending = Nothing /\ out = <<>>
         \/ /\ ok /\ seen \in Seen /\ out = <<>>
            /\ Engine(s)'.active = Nothing /\ Engine(s)'.pending = seen /\ Engine(s)'.pendingStart = since
         \/ /\ ok /\ seen \in Seen /\ Engine(s)'.active = seen
            /\ Engine(s)'.start = since /\ Engine(s)'.support = t + 1 /\ Engine(s)'.onset <= t /\ since < Engine(s)'.onset
            /\ out = <<[kind |-> "START", label |-> seen, start |-> since, end |-> t + 1, onset |-> Engine(s)'.onset]>>
  BY AdvanceWaiting DEF Hears, Grows, EngineSound
<1>2. Nothing \notin Seen /\ "UNUSABLE" \notin Seen
  BY DEF Seen, Motions, Nothing
<1>3. /\ Grows(s, t, n) /\ t \in Nat /\ n \in Told(s)' /\ RowsSound(s)
      /\ ok => Shows(s, n, Nothing)' = seen
      /\ Told(s)' = Told(s) \cup {n}
      /\ Engine(s).pendingStart \in Nat /\ Engine(s) \in Engines
  BY DEF Hears, Grows, EngineSound, RowsSound, Engines
\* The frames since the start of the run.
<1>4. ASSUME ok, seen \in Seen
      PROVE  /\ since \in Nat /\ since <= t
             /\ \A i \in Told(s)' : vFrames'[i].t >= since => Shows(s, i, Nothing)' = seen
             /\ \E i \in Told(s)' : vFrames'[i].t = since
             /\ \A k \in 1 .. Len(vEvents[s]) : vEvents[s][k].end < since
  <2>1. CASE seen = Engine(s).pending
    <3>1. Pending(s, seen) /\ since = Engine(s).pendingStart
      BY <1>4, <2>1 DEF EngineSound
    <3> HIDE DEF seen, since
    <3>2. \A i \in Told(s)' : vFrames'[i].t >= since => Shows(s, i, Nothing)' = seen
      BY <1>3, <1>4, <3>1 DEF Pending, Grows
    <3>3. \E i \in Told(s)' : vFrames'[i].t = since
      BY <1>3, <3>1 DEF Pending, Grows
    <3>4. since <= t
      BY <1>3, <3>1 DEF Pending, Grows
    <3> QED
      BY <1>3, <3>1, <3>2, <3>3, <3>4 DEF Pending
  <2>2. CASE seen # Engine(s).pending
    <3>1. since = t
      BY <2>2
    <3> HIDE DEF seen, since
    <3>2. \A i \in Told(s)' : vFrames'[i].t >= since => Shows(s, i, Nothing)' = seen
      BY <1>3, <1>4, <3>1 DEF Grows
    <3>3. \E i \in Told(s)' : vFrames'[i].t = since
      BY <1>3, <3>1 DEF Grows
    <3>4. ASSUME NEW k \in 1 .. Len(vEvents[s]) PROVE vEvents[s][k].end < since
      <4>1. vEvents[s][k] \in EventRows /\ Backed(s, vEvents[s][k])
        BY <1>3 DEF RowsSound
      <4>2. PICK i0 \in Told(s) : TRUE
        BY <4>1 DEF Backed, Inside
      <4>3. vEvents[s][k].end <= Elapsed /\ vEvents[s][k].end \in Nat
        BY <4>1, <1>3 DEF EngineSound, Waiting, Grows, EventRows
      <4> QED
        BY <4>2, <4>3, <3>1, <1>3 DEF Grows
    <3> QED
      BY <1>3, <3>1, <3>2, <3>3, <3>4
  <2> QED
    BY <2>1, <2>2
<1> HIDE DEF since
<1>5. CASE out = <<>> /\ Engine(s)'.active = Nothing /\ (Engine(s)'.pending = Nothing \/ (ok /\ seen \in Seen /\ Engine(s)'.pending = seen /\ Engine(s)'.pendingStart = since))
  <2>1. (vEvents[s])' = vEvents[s]
    BY <1>5, PersistNone
  <2>2. RowsSound(s)' /\ \A k \in 1 .. Len(vEvents[s]) : vEvents[s][k].end <= Elapsed'
    BY <1>3, <2>1, RowsStay
  <2>3. Waiting(s)'
    BY <2>1, <2>2 DEF EngineSound, Waiting
  <2>4. ASSUME NEW q \in Seen, Engine(s)'.pending = q PROVE Pending(s, q)'
    <3>1. ok /\ seen \in Seen /\ q = seen /\ Engine(s)'.pendingStart = since
      BY <1>5, <1>2, <2>4
    <3> HIDE DEF seen
    <3> QED
      BY <3>1, <1>4, <2>1 DEF Pending
  <2> QED
    BY <1>1, <1>2, <1>5, <2>2, <2>3, <2>4 DEF EngineSound, RowsSound
<1>6. CASE /\ ok /\ seen \in Seen /\ Engine(s)'.active = seen
           /\ Engine(s)'.start = since /\ Engine(s)'.support = t + 1 /\ Engine(s)'.onset <= t /\ since < Engine(s)'.onset
           /\ out = <<[kind |-> "START", label |-> seen, start |-> since, end |-> t + 1, onset |-> Engine(s)'.onset]>>
  <2>1. PICK o \in Nat : o = Engine(s)'.onset
    BY <1>1 DEF Engines
  <2>2. PICK x \in Nat : x = since
    BY <1>4, <1>6
  <2>3. PICK a \in Seen : a = seen
    BY <1>6
  <2> DEFINE row == [kind |-> "START", label |-> a, start |-> x, end |-> t + 1, onset |-> o]
  <2>4. row \in EventRows /\ row.kind = "START" /\ row.label = a /\ row.start = x /\ row.end = t + 1 /\ row.onset = o
    BY <1>3 DEF EventRows
  <2>5. (vEvents[s])' = Append(vEvents[s], row)
    <3>1. out = <<row>>
      BY <1>6, <2>1, <2>2, <2>3
    <3> HIDE DEF out, row
    <3> QED
      BY <3>1, <2>4, PersistStart DEF out
  <2>6. ok => observed(a, c, g, p) = a
    BY <2>3, ObservedFacts
  <2> HIDE DEF row, seen, out
  <2>7. /\ x <= t /\ o <= t /\ x < o
        /\ \A i \in Told(s)' : vFrames'[i].t >= x => Shows(s, i, Nothing)' = a
        /\ \E i \in Told(s)' : vFrames'[i].t = x
        /\ \A k \in 1 .. Len(vEvents[s]) : vEvents[s][k].end < x
    BY <1>4, <1>6, <2>1, <2>2, <2>3
  <2>8. Shows(s, n, a)' = a /\ vFrames'[n].t = t
    BY <1>3, <1>6, <2>3, <2>6 DEF Hears, Grows
  <2>9. \A i \in Told(s)' : vFrames'[i].t \in Nat /\ vFrames'[i].t <= t /\ (vFrames'[i].t >= x => Shows(s, i, a)' # "UNUSABLE")
    <3> SUFFICES ASSUME NEW i \in Told(s)' PROVE vFrames'[i].t \in Nat /\ vFrames'[i].t <= t /\ (vFrames'[i].t >= x => Shows(s, i, a)' # "UNUSABLE")
      OBVIOUS
    <3>1. CASE i = n
      BY <3>1, <2>8, <1>2, <1>3
    <3>2. CASE i \in Told(s)
      <4>1. vFrames'[i] = vFrames[i] /\ vFrames[i].t \in Nat /\ vFrames[i].t <= t
        BY <3>2, <1>3 DEF Grows
      <4>2. Shows(s, i, Nothing)' = a => Shows(s, i, a)' = a
        BY <3>2, <1>3 DEF Grows
      <4> QED
        BY <4>1, <4>2, <2>7, <1>2
    <3> QED
      BY <3>1, <3>2, <1>3
  <2>10. Backed(s, row)'
    BY <2>4, <2>7, <2>8, <2>9, <1>3 DEF Backed, Inside, Grows
  <2>11. /\ vEvents[s] \in Seq(EventRows) /\ Len(vEvents[s]) \in Nat /\ (vEvents[s])' \in Seq(EventRows)
         /\ Len((vEvents[s])') = Len(vEvents[s]) + 1 /\ (vEvents[s])'[Len(vEvents[s]) + 1] = row
         /\ \A k \in 1 .. Len(vEvents[s]) : (vEvents[s])'[k] = vEvents[s][k] /\ vEvents[s][k] \in EventRows
    BY <2>4, <2>5, <1>3 DEF RowsSound
  <2>12. \A k \in 1 .. Len(vEvents[s]) : \A ev \in EventRows : vEvents[s][k] = ev => Backed(s, ev)'
    BY <1>3, BackedStays DEF RowsSound
  <2>13. \A k \in 1 .. Len((vEvents[s])') : \A ev \in EventRows : (vEvents[s])'[k] = ev => Backed(s, ev)'
    BY <2>10, <2>11, <2>12
  <2>14. \A k, m \in 1 .. Len((vEvents[s])') : k < m => (vEvents[s])'[k].end < (vEvents[s])'[m].start
    <3> SUFFICES ASSUME NEW k \in 1 .. Len((vEvents[s])'), NEW m \in 1 .. Len((vEvents[s])'), k < m
                 PROVE  (vEvents[s])'[k].end < (vEvents[s])'[m].start
      OBVIOUS
    <3>1. CASE m = Len(vEvents[s]) + 1
      <4>1. k \in 1 .. Len(vEvents[s])
        BY <3>1, <2>11
      <4> QED
        BY <4>1, <3>1, <2>4, <2>7, <2>11
    <3>2. CASE m \in 1 .. Len(vEvents[s])
      <4>1. k \in 1 .. Len(vEvents[s])
        BY <3>2, <2>11
      <4> QED
        BY <4>1, <3>2, <2>11, <1>3 DEF RowsSound
    <3> QED
      BY <3>1, <3>2, <2>11
  <2>15. Running(s, a)'
    <3>1. Len((vEvents[s])') > 0 /\ (vEvents[s])'[Len((vEvents[s])')] = row
      BY <2>11
    <3>2. \A k \in 1 .. Len((vEvents[s])') - 1 : (vEvents[s])'[k].kind = "END"
      BY <2>11 DEF EngineSound, Waiting
    <3>3. \A i \in Told(s)' : vFrames'[i].t >= Engine(s)'.start =>
            Shows(s, i, a)' # "UNUSABLE" /\ Shows(s, i, Nothing)' = a
      BY <2>2, <2>7, <2>9, <1>6
    <3>4. \E i \in Told(s)' : vFrames'[i].t + 1 = Engine(s)'.support /\ Shows(s, i, a)' = a
      BY <1>3, <1>6, <2>8
    <3>5. /\ row.kind # "END" /\ row.label = a /\ row.start = Engine(s)'.start /\ row.onset = Engine(s)'.onset
          /\ row.end <= Engine(s)'.support
      <4>1. Engine(s)'.start = x /\ Engine(s)'.onset = o /\ Engine(s)'.support = t + 1
        BY <2>1, <2>2, <1>6
      <4>2. t + 1 <= t + 1
        BY <1>3
      <4> QED
        BY <2>4, <4>1, <4>2
    <3> QED
      BY <3>1, <3>2, <3>3, <3>4, <3>5 DEF Running
  <2>16. vState' # "STOPPED"
    BY <1>3 DEF Grows
  <2> QED
    BY <1>1, <1>2, <1>6, <2>3, <2>11, <2>13, <2>14, <2>15, <2>16 DEF EngineSound
<1> QED
  BY <1>1, <1>5, <1>6

\* Rewriting the last row.
LEMMA LastRewritten ==
  ASSUME NEW rows \in Seq(EventRows), NEW ev \in EventRows, Len(rows) > 0, NEW next, next = [rows EXCEPT ![Len(rows)] = ev]
  PROVE  /\ next \in Seq(EventRows) /\ Len(next) = Len(rows) /\ next[Len(rows)] = ev /\ Len(rows) \in Nat
         /\ \A k \in 1 .. Len(rows) : k # Len(rows) => next[k] = rows[k]
OBVIOUS

\* What an event under way has to show for itself: the frames from its start on.
LEMMA RunningEvidence ==
  ASSUME NEW s, EngineSound(s), NEW a \in Seen, Engine(s).active = a,
         \A i \in Told(s) : vFrames[i].t \in Nat
  PROVE  /\ Engine(s).start \in Nat /\ Engine(s).onset \in Nat /\ Engine(s).support \in Nat
         /\ Engine(s).start < Engine(s).support
         /\ \E i \in Told(s) : vFrames[i].t = Engine(s).start
         /\ \E i \in Told(s) : vFrames[i].t >= Engine(s).onset /\ vFrames[i].t < Engine(s).support /\ vFrames[i].t >= Engine(s).start
<1>1. Running(s, a) /\ vEvents[s] \in Seq(EventRows) /\ Engine(s) \in Engines
  BY DEF EngineSound
<1>2. PICK ev \in EventRows : ev = vEvents[s][Len(vEvents[s])]
  BY <1>1 DEF Running
<1>3. /\ Backed(s, ev) /\ ev.start = Engine(s).start /\ ev.onset = Engine(s).onset /\ ev.end <= Engine(s).support
  BY <1>1, <1>2 DEF EngineSound, Running
<1>4. /\ Engine(s).start \in Nat /\ Engine(s).onset \in Nat /\ Engine(s).support \in Nat /\ ev.end \in Nat
  BY <1>1 DEF Engines, EventRows
<1>5. PICK i1 \in Inside(s, ev) : vFrames[i1].t = ev.start
  BY <1>3 DEF Backed
<1>6. PICK i2 \in Inside(s, ev) : vFrames[i2].t >= ev.onset
  BY <1>3 DEF Backed
<1> QED
  BY <1>3, <1>4, <1>5, <1>6 DEF Inside

\* A frame for an engine with an event under way.
LEMMA HearsRunning ==
  ASSUME NEW s, NEW t, NEW n, NEW c \in Nat, NEW g \in Angles, NEW ok \in BOOLEAN, NEW p \in Said,
         Hears(s, t, n, c, g, ok, p), EngineSound(s), NEW a \in Seen, Engine(s).active = a,
         Engine(s)' = advance(Engine(s), t, c, g, ok, p).engine,
         (vEvents[s])' = persist_rule_events(vEvents[s], advance(Engine(s), t, c, g, ok, p).out)
  PROVE  EngineSound(s)'
<1> DEFINE e == Engine(s)
           out == advance(Engine(s), t, c, g, ok, p).out
<1>1. Nothing \notin Seen /\ "UNUSABLE" \notin Seen
  BY DEF Seen, Motions, Nothing
<1>2. /\ Grows(s, t, n) /\ t \in Nat /\ n \in Told(s)' /\ RowsSound(s) /\ Running(s, a)
      /\ Told(s)' = Told(s) \cup {n} /\ vFrames'[n].t = t
      /\ vState' # "STOPPED" /\ vState' = "RECORDING" /\ Elapsed' = t
      /\ \A i \in Told(s) : vFrames'[i] = vFrames[i] /\ vFrames[i].t \in Nat /\ vFrames[i].t < t
  BY DEF Hears, Grows, EngineSound, RowsSound
<1>3. /\ e.start \in Nat /\ e.onset \in Nat /\ e.support \in Nat /\ e.start < e.support
      /\ \E i \in Told(s) : vFrames[i].t = e.start
      /\ \E i \in Told(s) : vFrames[i].t >= e.onset /\ vFrames[i].t < e.support /\ vFrames[i].t >= e.start
  BY <1>2, RunningEvidence
<1>4. e.start < t /\ e.onset < t /\ e.support <= t
  BY <1>2, <1>3 DEF Running
<1>5. /\ Engine(s)' \in Engines
      /\ \/ Engine(s)' = e /\ out = <<>> /\ ok
         \/ /\ ok /\ observed(a, c, g, p) = a
            /\ Engine(s)'.active = a /\ Engine(s)'.start = e.start /\ Engine(s)'.onset = e.onset /\ Engine(s)'.support = t + 1
            /\ \/ out = <<>>
               \/ out = <<[kind |-> "UPDATE", label |-> a, start |-> e.start, end |-> t + 1, onset |-> e.onset]>>
         \/ /\ Engine(s)'.active = Nothing /\ Engine(s)'.pending = Nothing
            /\ out = <<[kind |-> "END", label |-> a, start |-> e.start, end |-> e.support, onset |-> e.onset]>>
  BY <1>1, <1>2, <1>3, <1>4, AdvanceRunning DEF EngineSound
\* A usable frame after the onset does not disturb the evidence.
<1>6. ASSUME ok
      PROVE  \A i \in Told(s)' : vFrames'[i].t >= e.start =>
               /\ Shows(s, i, a)' # "UNUSABLE"
               /\ vFrames'[i].t <= e.onset => Shows(s, i, Nothing)' = a
  <2> SUFFICES ASSUME NEW i \in Told(s)', vFrames'[i].t >= e.start
               PROVE  /\ Shows(s, i, a)' # "UNUSABLE"
                      /\ vFrames'[i].t <= e.onset => Shows(s, i, Nothing)' = a
    OBVIOUS
  <2>1. CASE i = n
    <3>1. Shows(s, n, a)' = observed(a, c, g, p)
      BY <1>6 DEF Hears
    <3>2. observed(a, c, g, p) \in Seen \cup {Nothing} /\ "UNUSABLE" \notin Seen \cup {Nothing}
      BY ObservedFacts
    <3> QED
      BY <2>1, <3>1, <3>2, <1>2, <1>3, <1>4
  <2>2. CASE i \in Told(s)
    <3>1. Shows(s, i, a)' = Shows(s, i, a) /\ Shows(s, i, Nothing)' = Shows(s, i, Nothing)
      BY <2>2, <1>2 DEF Grows
    <3> QED
      BY <2>2, <3>1, <1>2 DEF Running
  <2> QED
    BY <2>1, <2>2, <1>2
<1>7. PICK last \in EventRows : last = vEvents[s][Len(vEvents[s])]
  BY <1>2 DEF Running, RowsSound
<1>8. /\ vEvents[s] \in Seq(EventRows) /\ Len(vEvents[s]) > 0 /\ Len(vEvents[s]) \in Nat
      /\ last.kind # "END" /\ last.label = a /\ last.start = e.start /\ last.onset = e.onset /\ last.end <= e.support
      /\ \A k \in 1 .. Len(vEvents[s]) - 1 : vEvents[s][k].kind = "END"
      /\ \A k \in 1 .. Len(vEvents[s]) : vEvents[s][k] \in EventRows
      /\ \A k \in 1 .. Len(vEvents[s]) - 1 : vEvents[s][k].end < e.start
  <2>1. /\ vEvents[s] \in Seq(EventRows) /\ Len(vEvents[s]) > 0 /\ Len(vEvents[s]) \in Nat
        /\ \A k \in 1 .. Len(vEvents[s]) - 1 : vEvents[s][k].kind = "END"
        /\ \A k \in 1 .. Len(vEvents[s]) : vEvents[s][k] \in EventRows
    <3>1. vEvents[s] \in Seq(EventRows)
      BY <1>2 DEF RowsSound
    <3>2. Len(vEvents[s]) > 0 /\ \A k \in 1 .. Len(vEvents[s]) - 1 : vEvents[s][k].kind = "END"
      BY <1>2 DEF Running
    <3> QED
      BY <3>1, <3>2
  <2>2. last.kind # "END" /\ last.label = a /\ last.start = e.start /\ last.onset = e.onset /\ last.end <= e.support
    BY <1>2, <1>7 DEF Running
  <2>3. \A k \in 1 .. Len(vEvents[s]) - 1 : vEvents[s][k].end < last.start
    BY <2>1, <1>2, <1>7 DEF RowsSound
  <2> QED
    BY <2>1, <2>2, <2>3
<1> HIDE DEF e, out
\* The row of the event is written again, with the evidence so far.
<1>9. ASSUME NEW row \in EventRows, row.kind # "START", row.start = e.start, out = <<row>>, Backed(s, row)'
      PROVE  /\ RowsSound(s)' /\ (vEvents[s])' \in Seq(EventRows) /\ Len((vEvents[s])') = Len(vEvents[s])
             /\ (vEvents[s])'[Len(vEvents[s])] = row
             /\ \A k \in 1 .. Len(vEvents[s]) : k # Len(vEvents[s]) => (vEvents[s])'[k] = vEvents[s][k]
  <2>1. (vEvents[s])' = [vEvents[s] EXCEPT ![Len(vEvents[s])] = row]
    BY <1>7, <1>8, <1>9, PersistOpen DEF out
  <2>2. /\ (vEvents[s])' \in Seq(EventRows) /\ Len((vEvents[s])') = Len(vEvents[s])
        /\ (vEvents[s])'[Len(vEvents[s])] = row
        /\ \A k \in 1 .. Len(vEvents[s]) : k # Len(vEvents[s]) => (vEvents[s])'[k] = vEvents[s][k]
    BY <2>1, <1>8, LastRewritten
  <2>3. \A k \in 1 .. Len(vEvents[s]) : \A ev \in EventRows : vEvents[s][k] = ev => Backed(s, ev)'
    BY <1>2, BackedStays DEF RowsSound
  <2>4. \A k \in 1 .. Len((vEvents[s])') : \A ev \in EventRows : (vEvents[s])'[k] = ev => Backed(s, ev)'
    BY <1>9, <2>2, <2>3
  <2>5. \A k, m \in 1 .. Len((vEvents[s])') : k < m => (vEvents[s])'[k].end < (vEvents[s])'[m].start
    <3> SUFFICES ASSUME NEW k \in 1 .. Len(vEvents[s]), NEW m \in 1 .. Len(vEvents[s]), k < m
                 PROVE  (vEvents[s])'[k].end < (vEvents[s])'[m].start
      BY <2>2
    <3>1. k # Len(vEvents[s]) /\ (vEvents[s])'[k] = vEvents[s][k] /\ vEvents[s][k].end < e.start
      BY <2>2, <1>8
    <3>2. CASE m = Len(vEvents[s])
      BY <3>1, <3>2, <2>2, <1>9
    <3>3. CASE m # Len(vEvents[s])
      BY <3>1, <3>3, <2>2, <1>2 DEF RowsSound
    <3> QED
      BY <3>2, <3>3
  <2>6. RowsSound(s)'
    BY <2>2, <2>4, <2>5 DEF RowsSound
  <2> QED
    BY <2>2, <2>6
<1>10. CASE Engine(s)' = e /\ out = <<>> /\ ok
  <2>1. (vEvents[s])' = vEvents[s]
    BY <1>10, PersistNone DEF out
  <2>2. RowsSound(s)'
    BY <1>2, <2>1, RowsStay
  <2>3. Running(s, a)'
    <3>1. \E i \in Told(s)' : vFrames'[i].t + 1 = e.support /\ Shows(s, i, a)' = a
      BY <1>2 DEF Running, Grows, e
    <3> QED
      BY <3>1, <2>1, <1>6, <1>7, <1>8, <1>10 DEF Running
  <2>4. Engine(s)'.active = a
    BY <1>10 DEF e
  <2> QED
    BY <1>1, <1>2, <1>5, <2>2, <2>3, <2>4 DEF EngineSound, RowsSound
<1>11. CASE /\ ok /\ observed(a, c, g, p) = a
            /\ Engine(s)'.active = a /\ Engine(s)'.start = e.start /\ Engine(s)'.onset = e.onset /\ Engine(s)'.support = t + 1
            /\ out = <<>>
  <2>1. (vEvents[s])' = vEvents[s]
    BY <1>11, PersistNone DEF out
  <2>2. RowsSound(s)'
    BY <1>2, <2>1, RowsStay
  <2>3. Running(s, a)'
    <3>1. \E i \in Told(s)' : vFrames'[i].t + 1 = t + 1 /\ Shows(s, i, a)' = a
      BY <1>2, <1>11 DEF Hears
    <3>2. last.end <= t + 1
      BY <1>2, <1>3, <1>4, <1>7, <1>8 DEF EventRows
    <3> QED
      BY <3>1, <3>2, <2>1, <1>6, <1>7, <1>8, <1>11 DEF Running
  <2> QED
    BY <1>1, <1>2, <1>5, <1>11, <2>2, <2>3 DEF EngineSound, RowsSound
<1>12. CASE /\ ok /\ observed(a, c, g, p) = a
            /\ Engine(s)'.active = a /\ Engine(s)'.start = e.start /\ Engine(s)'.onset = e.onset /\ Engine(s)'.support = t + 1
            /\ out = <<[kind |-> "UPDATE", label |-> a, start |-> e.start, end |-> t + 1, onset |-> e.onset]>>
  <2> DEFINE row == [kind |-> "UPDATE", label |-> a, start |-> e.start, end |-> t + 1, onset |-> e.onset]
  <2>1. PICK r \in EventRows : /\ out = <<r>> /\ r.kind = "UPDATE" /\ r.label = a /\ r.start = e.start
                               /\ r.end = t + 1 /\ r.onset = e.onset
    <3>1. row \in EventRows
      BY <1>2, <1>3 DEF EventRows
    <3> QED
      BY <3>1, <1>12
  <2>2. Shows(s, n, a)' = a
    BY <1>12 DEF Hears
  <2>3. Backed(s, r)'
    <3>1. \A i \in Inside(s, r)' : Shows(s, i, a)' # "UNUSABLE" /\ (vFrames'[i].t <= r.onset => Shows(s, i, Nothing)' = a)
      BY <2>1, <1>6, <1>12 DEF Inside
    <3>2. \E i \in Inside(s, r)' : vFrames'[i].t = r.start
      BY <2>1, <1>2, <1>3, <1>4 DEF Inside
    <3>3. \E i \in Inside(s, r)' : vFrames'[i].t >= r.onset
      BY <2>1, <1>2, <1>3, <1>4 DEF Inside
    <3> QED
      BY <2>1, <3>1, <3>2, <3>3, <1>2 DEF Backed
  <2>4. /\ RowsSound(s)' /\ (vEvents[s])' \in Seq(EventRows) /\ Len((vEvents[s])') = Len(vEvents[s])
        /\ (vEvents[s])'[Len(vEvents[s])] = r
        /\ \A k \in 1 .. Len(vEvents[s]) : k # Len(vEvents[s]) => (vEvents[s])'[k] = vEvents[s][k]
    BY <1>9, <2>1, <2>3
  <2>5. Running(s, a)'
    <3>1. \E i \in Told(s)' : vFrames'[i].t + 1 = t + 1 /\ Shows(s, i, a)' = a
      BY <1>2, <2>2
    <3>2. \A k \in 1 .. Len((vEvents[s])') - 1 : (vEvents[s])'[k].kind = "END"
      BY <2>4, <1>8
    <3>3. t + 1 <= t + 1
      BY <1>2
    <3>4. /\ \A i \in Told(s)' : vFrames'[i].t >= e.start =>
               /\ Shows(s, i, a)' # "UNUSABLE"
               /\ vFrames'[i].t <= e.onset => Shows(s, i, Nothing)' = a
      BY <1>6, <1>12
    <3>5. Engine(s)'.start = e.start /\ Engine(s)'.onset = e.onset /\ Engine(s)'.support = t + 1
      BY <1>12
    <3>6. Len((vEvents[s])') > 0 /\ (vEvents[s])'[Len((vEvents[s])')] = r
      BY <2>4, <1>8
    <3> QED
      BY <3>1, <3>2, <3>3, <3>4, <3>5, <3>6, <2>1 DEF Running
  <2>6. Engine(s)'.active = a
    BY <1>12
  <2> QED
    BY <1>1, <1>2, <1>5, <2>6, <2>4, <2>5 DEF EngineSound, RowsSound
<1>13. CASE /\ Engine(s)'.active = Nothing /\ Engine(s)'.pending = Nothing
            /\ out = <<[kind |-> "END", label |-> a, start |-> e.start, end |-> e.support, onset |-> e.onset]>>
  <2> DEFINE row == [kind |-> "END", label |-> a, start |-> e.start, end |-> e.support, onset |-> e.onset]
  <2>1. PICK r \in EventRows : /\ out = <<r>> /\ r.kind = "END" /\ r.label = a /\ r.start = e.start
                               /\ r.end = e.support /\ r.onset = e.onset
    <3>1. row \in EventRows
      BY <1>2, <1>3 DEF EventRows
    <3> QED
      BY <3>1, <1>13
  <2>2. \A i \in Inside(s, r)' : i \in Told(s) /\ vFrames[i].t >= e.start
    BY <2>1, <1>2, <1>3, <1>4 DEF Inside
  <2>3. Backed(s, r)'
    <3>1. \A i \in Told(s) : Shows(s, i, a)' = Shows(s, i, a) /\ Shows(s, i, Nothing)' = Shows(s, i, Nothing)
      BY <1>2 DEF Grows
    <3>2. \A i \in Inside(s, r)' : Shows(s, i, a)' # "UNUSABLE" /\ (vFrames'[i].t <= r.onset => Shows(s, i, Nothing)' = a)
      BY <2>1, <2>2, <3>1, <1>2 DEF Running, e
    <3>3. \E i \in Inside(s, r)' : vFrames'[i].t = r.start
      BY <2>1, <1>2, <1>3 DEF Inside
    <3>4. \E i \in Inside(s, r)' : vFrames'[i].t >= r.onset
      BY <2>1, <1>2, <1>3 DEF Inside
    <3>5. \E i \in Inside(s, r)' : vFrames'[i].t + 1 = r.end /\ Shows(s, i, a)' = a
      BY <2>1, <3>1, <1>2, <1>3 DEF Inside, Running, e
    <3>6. r.end <= Elapsed' + 1
      BY <2>1, <1>2, <1>3, <1>4
    <3> QED
      BY <2>1, <3>2, <3>3, <3>4, <3>5, <3>6 DEF Backed
  <2>4. /\ RowsSound(s)' /\ (vEvents[s])' \in Seq(EventRows) /\ Len((vEvents[s])') = Len(vEvents[s])
        /\ (vEvents[s])'[Len(vEvents[s])] = r
        /\ \A k \in 1 .. Len(vEvents[s]) : k # Len(vEvents[s]) => (vEvents[s])'[k] = vEvents[s][k]
    BY <1>9, <2>1, <2>3
  <2>5. Waiting(s)'
    <3> SUFFICES ASSUME NEW k \in 1 .. Len(vEvents[s])
                 PROVE  (vEvents[s])'[k].kind = "END" /\ (vEvents[s])'[k].end <= t
      BY <2>4, <1>2 DEF Waiting
    <3>1. CASE k = Len(vEvents[s])
      BY <3>1, <2>1, <2>4, <1>4
    <3>2. CASE k # Len(vEvents[s])
      <4>1. k \in 1 .. Len(vEvents[s]) - 1
        BY <3>2, <1>8
      <4>2. vEvents[s][k].end \in Nat /\ vEvents[s][k].end < e.start
        BY <4>1, <1>8 DEF EventRows
      <4> QED
        BY <3>2, <4>1, <4>2, <2>4, <1>2, <1>3, <1>4, <1>8
    <3> QED
      BY <3>1, <3>2
  <2>6. Engine(s)'.active = Nothing /\ Engine(s)'.pending = Nothing
    BY <1>13
  <2> QED
    BY <1>1, <1>5, <2>4, <2>5, <2>6 DEF EngineSound, RowsSound
<1> QED
  BY <1>5, <1>10, <1>11, <1>12, <1>13

\* A frame is heard by the signals it is meant for, whatever they were doing.
LEMMA Heard ==
  ASSUME NEW s, NEW t, NEW n, NEW c \in Nat, NEW g \in Angles, NEW ok \in BOOLEAN, NEW p \in Said,
         Hears(s, t, n, c, g, ok, p), EngineSound(s),
         Engine(s)' = advance(Engine(s), t, c, g, ok, p).engine,
         (vEvents[s])' = persist_rule_events(vEvents[s], advance(Engine(s), t, c, g, ok, p).out)
  PROVE  EngineSound(s)'
<1>1. CASE Engine(s).active = Nothing
  BY <1>1, HearsWaiting
<1>2. CASE Engine(s).active # Nothing
  <2>1. PICK a \in Seen : Engine(s).active = a
    BY <1>2 DEF EngineSound, Engines
  <2> QED
    BY <2>1, HearsRunning
<1> QED
  BY <1>1, <1>2

\* A frame at the end of the timeline, for each signal.
LEMMA FrameTells ==
  ASSUME Timeline, vState = "RECORDING", NEW f \in Stamps, vFrames = <<>> \/ Elapsed < f.t,
         vState' = vState, vFrames' = Append(vFrames, f), NEW n, n = Len(vFrames) + 1
  PROVE  /\ Grows(Rules, f.t, n) /\ Grows(Model, f.t, n)
         /\ n \in Told(Rules)' <=> f.judged
         /\ n \in Told(Model)' <=> f.said # Nothing
         /\ \A a \in Seen \cup {Nothing} :
              /\ Shows(Rules, n, a)' = IF f.ok THEN observed(a, f.count, f.angles, Nothing) ELSE "UNUSABLE"
              /\ Shows(Model, n, a)' = IF f.said # "UNCERTAIN" THEN observed(a, 1, Level, f.said) ELSE "UNUSABLE"
<1>1. /\ Elapsed' = f.t /\ Elapsed \in Nat /\ Elapsed <= f.t /\ f.t \in Nat
      /\ Len(vFrames') = Len(vFrames) + 1 /\ Len(vFrames) \in Nat
      /\ vFrames'[n] = f
      /\ \A i \in 1 .. Len(vFrames) :
           vFrames'[i] = vFrames[i] /\ vFrames[i].t \in Nat /\ vFrames[i].t <= Elapsed /\ Elapsed < f.t
  BY FrameFacts DEF Stamps
<1>2. \A i \in 1 .. Len(vFrames) : vFrames[i] \in Stamps
  BY DEF Timeline
<1>3. Level \in Angles /\ Nothing \in Said /\ Rules # Model
  BY DEF Level, Angles, Said, Rules, Model
<1>4. \A i \in 1 .. Len(vFrames) : \A a \in Seen :
        /\ Shows(Rules, i, Nothing) = a => Shows(Rules, i, a) = a
        /\ Shows(Model, i, Nothing) = a => Shows(Model, i, a) = a
  <2> SUFFICES ASSUME NEW i \in 1 .. Len(vFrames), NEW a \in Seen
               PROVE  /\ Shows(Rules, i, Nothing) = a => Shows(Rules, i, a) = a
                      /\ Shows(Model, i, Nothing) = a => Shows(Model, i, a) = a
    OBVIOUS
  <2>1. "UNUSABLE" \notin Seen
    BY DEF Seen, Motions
  <2>2. vFrames[i].count \in Nat /\ vFrames[i].angles \in Angles /\ vFrames[i].said \in Said
    BY <1>2 DEF Stamps
  <2>3. /\ observed(Nothing, vFrames[i].count, vFrames[i].angles, Nothing) = a =>
             observed(a, vFrames[i].count, vFrames[i].angles, Nothing) = a
        /\ observed(Nothing, 1, Level, vFrames[i].said) = a => observed(a, 1, Level, vFrames[i].said) = a
    BY <2>2, <1>3, ObservedFacts
  <2> QED
    BY <2>1, <2>3, <1>3 DEF Shows
<1>5. ASSUME NEW s \in {Rules, Model} PROVE Grows(s, f.t, n)
  <2>1. Told(s) \subseteq 1 .. Len(vFrames) /\ n \notin Told(s)
    BY <1>1 DEF Told
  <2>2. Told(s) \subseteq Told(s)' /\ Told(s)' \subseteq Told(s) \cup {n}
    BY <1>1 DEF Told
  <2>3. \A i \in Told(s) : \A a \in Seen \cup {Nothing} : Shows(s, i, a)' = Shows(s, i, a)
    BY <1>1, <2>1 DEF Shows
  <2>4. \A i \in Told(s) : \A a \in Seen : Shows(s, i, Nothing) = a => Shows(s, i, a) = a
    BY <1>4, <2>1
  <2> QED
    BY <1>1, <2>1, <2>2, <2>3, <2>4 DEF Grows
<1>6. (n \in Told(Rules)' <=> f.judged) /\ (n \in Told(Model)' <=> f.said # Nothing)
  BY <1>1, <1>3 DEF Told
<1>7. \A a \in Seen \cup {Nothing} :
        /\ Shows(Rules, n, a)' = IF f.ok THEN observed(a, f.count, f.angles, Nothing) ELSE "UNUSABLE"
        /\ Shows(Model, n, a)' = IF f.said # "UNCERTAIN" THEN observed(a, 1, Level, f.said) ELSE "UNUSABLE"
  <2>1. ASSUME NEW a PROVE Shows(Rules, n, a)' = IF f.ok THEN observed(a, f.count, f.angles, Nothing) ELSE "UNUSABLE"
    BY <1>1 DEF Shows
  <2>2. ASSUME NEW a PROVE Shows(Model, n, a)' = IF f.said # "UNCERTAIN" THEN observed(a, 1, Level, f.said) ELSE "UNUSABLE"
    <3>1. CASE f.said = "UNCERTAIN"
      BY <1>1, <1>3, <3>1 DEF Shows
    <3>2. CASE f.said # "UNCERTAIN"
      BY <1>1, <1>3, <3>2 DEF Shows
    <3> QED
      BY <3>1, <3>2
  <2> QED
    BY <2>1, <2>2
<1> QED
  BY <1>5, <1>6, <1>7

\* ingest_frame keeps the invariant.
LEMMA IngestKeeps ==
  ASSUME RuleInv, ingest_frame
  PROVE  RuleInv'
<1>1. vState = "RECORDING"
  BY DEF ingest_frame
<1>2. PICK t \in IF vFrames = <<>> THEN {0} ELSE Elapsed + 1 .. Elapsed + MaxFrameGap :
        \/ \E c \in Nat, g \in Angles, ok \in BOOLEAN : frame_ingested(t, c, g, ok)
        \/ frame_unjudged(t)
  <2>1. \A g \in Orientations \cup {Level} : g \in Angles
    BY DEF Orientations, Level, Angles
  <2> QED
    BY <2>1 DEF ingest_frame
<1>3. t \in Nat /\ (vFrames = <<>> \/ Elapsed < t)
  <2>1. Elapsed \in Nat
    <3>1. \A i \in 1 .. Len(vFrames) : vFrames[i].t \in Nat
      <4>1. \A x \in Stamps : x.t \in Nat
        BY DEF Stamps
      <4> QED
        BY <4>1 DEF RuleInv, Timeline
    <3> QED
      BY <3>1 DEF RuleInv, Timeline, Elapsed, Last
  <2> QED
    BY <2>1, RuleAssumption
<1>4. Rules # Model /\ Rules \in Signals /\ Model \in Signals /\ Signals = {Rules, Model}
  BY DEF Rules, Model, Signals
<1>5. Timeline /\ EngineSound(Rules) /\ EngineSound(Model) /\ vEvents \in [Signals -> Seq(EventRows)]
  BY <1>4 DEF RuleInv
<1>6. Level \in Angles /\ Nothing \in Said /\ "UNCERTAIN" \in Said /\ "NORMAL" \in Said /\ Motions \subseteq Said
  BY DEF Level, Angles, Said
<1>7. Engine(Rules) = vRule /\ Engine(Model) = vModel /\ Engine(Rules)' = vRule' /\ Engine(Model)' = vModel'
  BY <1>4 DEF Engine
<1>8. ASSUME EngineSound(Rules)', EngineSound(Model)', Timeline', vEvents' \in [Signals -> Seq(EventRows)]
      PROVE  RuleInv'
  BY <1>4, <1>8 DEF RuleInv
<1>9. CASE frame_unjudged(t)
  <2> DEFINE f == PoseFrame(t, 1, Level, TRUE, FALSE, Nothing)
  <2>1. f \in Stamps /\ f.t = t /\ ~ f.judged /\ f.said = Nothing
    BY <1>3, <1>6 DEF PoseFrame, Stamps
  <2>2. vFrames' = Append(vFrames, f) /\ vState' = vState /\ vRule' = vRule /\ vModel' = vModel /\ vEvents' = vEvents
    BY <1>9 DEF frame_unjudged
  <2> HIDE DEF f
  <2>n. PICK n : n = Len(vFrames) + 1
    OBVIOUS
  <2>3. Grows(Rules, t, n) /\ Grows(Model, t, n) /\ n \notin Told(Rules)' /\ n \notin Told(Model)'
    BY <1>1, <1>3, <1>5, <2>1, <2>2, <2>n, FrameTells
  <2>4. Timeline'
    BY <1>3, <1>5, <2>1, <2>2, FrameFacts
  <2>5. EngineSound(Rules)'
    BY <1>5, <1>7, <2>2, <2>3, Unheard
  <2>6. EngineSound(Model)'
    BY <1>5, <1>7, <2>2, <2>3, Unheard
  <2> QED
    BY <1>5, <1>8, <2>2, <2>4, <2>5, <2>6
<1>10. ASSUME NEW c \in Nat, NEW g \in Angles, NEW ok \in BOOLEAN, frame_ruled(t, c, g, ok)
       PROVE  RuleInv'
  <2> DEFINE f == PoseFrame(t, c, g, ok, TRUE, Nothing)
             ruled == advance(vRule, t, c, g, ok, Nothing)
  <2>1. f \in Stamps /\ f.t = t /\ f.judged /\ f.said = Nothing /\ f.count = c /\ f.angles = g /\ f.ok = ok
    BY <1>3, <1>6 DEF PoseFrame, Stamps
  <2>2. /\ vFrames' = Append(vFrames, f) /\ vState' = vState /\ vRule' = ruled.engine /\ vModel' = vModel
        /\ vEvents' = [vEvents EXCEPT ![Rules] = persist_rule_events(vEvents[Rules], ruled.out)]
    BY <1>10 DEF frame_ruled
  <2> HIDE DEF f
  <2>n. PICK n : n = Len(vFrames) + 1
    OBVIOUS
  <2>3. /\ Grows(Rules, t, n) /\ Grows(Model, t, n) /\ n \in Told(Rules)' /\ n \notin Told(Model)'
        /\ \A a \in Seen \cup {Nothing} : Shows(Rules, n, a)' = IF ok THEN observed(a, c, g, Nothing) ELSE "UNUSABLE"
    BY <1>1, <1>3, <1>5, <2>1, <2>2, <2>n, FrameTells
  <2>4. Timeline'
    BY <1>3, <1>5, <2>1, <2>2, FrameFacts
  <2> HIDE DEF ruled
  <2>5. (vEvents[Rules])' = persist_rule_events(vEvents[Rules], ruled.out) /\ (vEvents[Model])' = vEvents[Model]
    BY <1>4, <1>5, <2>2
  <2>6. Hears(Rules, t, n, c, g, ok, Nothing)
    BY <2>3 DEF Hears
  <2>7. EngineSound(Rules)'
    BY <1>5, <1>6, <1>7, <2>2, <2>5, <2>6, Heard DEF ruled
  <2>8. EngineSound(Model)'
    BY <1>5, <1>7, <2>2, <2>3, <2>5, Unheard
  <2>9. vEvents' \in [Signals -> Seq(EventRows)]
    BY <1>4, <1>5, <2>2, <2>5, <2>7 DEF EngineSound
  <2> QED
    BY <1>8, <2>4, <2>7, <2>8, <2>9
<1>11. ASSUME NEW c \in Nat, NEW g \in Angles, NEW ok \in BOOLEAN, frame_modelled(t, c, g, ok)
       PROVE  RuleInv'
  <2>1. PICK q \in {Nothing, "NORMAL"} \cup Motions :
          LET said == IF q = Nothing THEN "UNCERTAIN" ELSE q
              ruled == advance(vRule, t, c, g, ok, Nothing)
              modelled == advance(vModel, t, 1, Level, q # Nothing, said)
          IN /\ vFrames' = Append(vFrames, PoseFrame(t, c, g, ok, TRUE, said))
             /\ vRule' = ruled.engine /\ vModel' = modelled.engine
             /\ vEvents' = [vEvents EXCEPT ![Rules] = persist_rule_events(vEvents[Rules], ruled.out),
                                           ![Model] = persist_rule_events(vEvents[Model], modelled.out)]
    BY <1>11 DEF frame_modelled, Predictions
  <2>2. vState' = vState
    BY <1>11 DEF frame_modelled
  <2> DEFINE said == IF q = Nothing THEN "UNCERTAIN" ELSE q
             valid == q # Nothing
             f == PoseFrame(t, c, g, ok, TRUE, said)
             ruled == advance(vRule, t, c, g, ok, Nothing)
             modelled == advance(vModel, t, 1, Level, valid, said)
  <2>n. PICK n : n = Len(vFrames) + 1
    OBVIOUS
  <2>3. said \in Said /\ said # Nothing /\ (said # "UNCERTAIN" <=> valid) /\ valid \in BOOLEAN
    BY <1>6 DEF Motions, Nothing
  <2>4. /\ vFrames' = Append(vFrames, f) /\ vRule' = ruled.engine /\ vModel' = modelled.engine
        /\ vEvents' = [vEvents EXCEPT ![Rules] = persist_rule_events(vEvents[Rules], ruled.out),
                                      ![Model] = persist_rule_events(vEvents[Model], modelled.out)]
    BY <2>1
  <2> HIDE DEF said, valid
  <2>5. f \in Stamps /\ f.t = t /\ f.judged /\ f.said = said /\ f.count = c /\ f.angles = g /\ f.ok = ok
    BY <1>3, <2>3 DEF PoseFrame, Stamps
  <2> HIDE DEF f
  <2>6. /\ Grows(Rules, t, n) /\ Grows(Model, t, n) /\ n \in Told(Rules)' /\ n \in Told(Model)'
        /\ \A a \in Seen \cup {Nothing} : Shows(Rules, n, a)' = IF ok THEN observed(a, c, g, Nothing) ELSE "UNUSABLE"
        /\ \A a \in Seen \cup {Nothing} : Shows(Model, n, a)' = IF valid THEN observed(a, 1, Level, said) ELSE "UNUSABLE"
    BY <1>1, <1>3, <1>5, <2>2, <2>3, <2>4, <2>5, <2>n, FrameTells
  <2>7. Timeline'
    BY <1>3, <1>5, <2>2, <2>4, <2>5, FrameFacts
  <2> HIDE DEF ruled, modelled
  <2>8. /\ (vEvents[Rules])' = persist_rule_events(vEvents[Rules], ruled.out)
        /\ (vEvents[Model])' = persist_rule_events(vEvents[Model], modelled.out)
    BY <1>4, <1>5, <2>4
  <2>9. Hears(Rules, t, n, c, g, ok, Nothing) /\ Hears(Model, t, n, 1, Level, valid, said)
    BY <2>6 DEF Hears
  <2>10. EngineSound(Rules)'
    BY <1>5, <1>6, <1>7, <2>4, <2>8, <2>9, Heard DEF ruled
  <2>11. EngineSound(Model)'
    BY <1>5, <1>6, <1>7, <2>3, <2>4, <2>8, <2>9, Heard DEF modelled
  <2>12. vEvents' \in [Signals -> Seq(EventRows)]
    BY <1>4, <1>5, <2>4, <2>8, <2>10, <2>11 DEF EngineSound
  <2> QED
    BY <1>8, <2>7, <2>10, <2>11, <2>12
<1> QED
  BY <1>2, <1>9, <1>10, <1>11 DEF frame_ingested

\* What the frames bear out depends on the frames alone.
LEMMA SameFrames ==
  ASSUME vFrames' = vFrames, NEW s
  PROVE  /\ Told(s)' = Told(s) /\ Elapsed' = Elapsed
         /\ \A i, a : Shows(s, i, a)' = Shows(s, i, a)
         /\ \A ev : Inside(s, ev)' = Inside(s, ev) /\ (Backed(s, ev)' <=> Backed(s, ev))
<1>1. Told(s)' = Told(s) /\ Elapsed' = Elapsed
  BY DEF Told, Elapsed
<1>2. ASSUME NEW i, NEW a PROVE Shows(s, i, a)' = Shows(s, i, a)
  BY DEF Shows
<1>3. ASSUME NEW ev PROVE Inside(s, ev)' = Inside(s, ev)
  BY <1>1 DEF Inside
<1>4. ASSUME NEW ev PROVE Backed(s, ev)' <=> Backed(s, ev)
  BY <1>1, <1>2, <1>3 DEF Backed
<1> QED
  BY <1>1, <1>2, <1>3, <1>4

\* At the end of a recording the event under way ends with its last support.
LEMMA StopKeeps ==
  ASSUME NEW s, NEW x, Timeline, EngineSound(s), vFrames' = vFrames, vState' = "STOPPED", Engine(s)' = NewEngine,
         (vEvents[s])' = persist_rule_events(vEvents[s], close_engine(Engine(s), x).out)
  PROVE  EngineSound(s)'
<1>1. Nothing \notin Seen
  BY DEF Seen, Motions, Nothing
<1>2. NewEngine \in Engines /\ NewEngine.active = Nothing /\ NewEngine.pending = Nothing
  BY DEF NewEngine, Engines
<1>3. ASSUME RowsSound(s)', \A k \in 1 .. Len((vEvents[s])') : (vEvents[s])'[k].kind = "END"
      PROVE  EngineSound(s)'
  <2>1. Waiting(s)'
    BY <1>3 DEF Waiting
  <2> QED
    BY <1>1, <1>2, <1>3, <2>1 DEF EngineSound, RowsSound
<1>4. CASE Engine(s).active = Nothing
  <2>1. (vEvents[s])' = vEvents[s]
    BY <1>4, PersistNone DEF close_engine
  <2>2. RowsSound(s)'
    BY <2>1, SameFrames DEF EngineSound, RowsSound
  <2>3. \A k \in 1 .. Len((vEvents[s])') : (vEvents[s])'[k].kind = "END"
    BY <1>4, <2>1 DEF EngineSound, Waiting
  <2> QED
    BY <1>3, <2>2, <2>3
<1>5. CASE Engine(s).active # Nothing
  <2>1. PICK a \in Seen : Engine(s).active = a
    BY <1>5 DEF EngineSound, Engines
  <2>2. \A i \in Told(s) : vFrames[i].t \in Nat /\ vFrames[i].t <= Elapsed /\ Elapsed \in Nat
    <3> SUFFICES ASSUME NEW i \in 1 .. Len(vFrames) PROVE vFrames[i].t \in Nat /\ vFrames[i].t <= Elapsed /\ Elapsed \in Nat
      BY DEF Told
    <3>1. \A y \in Stamps : y.t \in Nat
      BY DEF Stamps
    <3>2. Len(vFrames) \in 1 .. Len(vFrames) /\ vFrames # <<>> /\ \A j \in 1 .. Len(vFrames) : vFrames[j].t \in Nat
      BY <3>1 DEF Timeline
    <3>3. Elapsed = vFrames[Len(vFrames)].t
      BY <3>2 DEF Elapsed, Last
    <3>4. i = Len(vFrames) \/ vFrames[i].t < vFrames[Len(vFrames)].t
      BY <3>2 DEF Timeline
    <3> QED
      BY <3>2, <3>3, <3>4
  <2>3. PICK e : e = Engine(s)
    OBVIOUS
  <2>4. /\ e.start \in Nat /\ e.onset \in Nat /\ e.support \in Nat /\ e.start < e.support
        /\ \E i \in Told(s) : vFrames[i].t = e.start
        /\ \E i \in Told(s) : vFrames[i].t >= e.onset /\ vFrames[i].t < e.support /\ vFrames[i].t >= e.start
    BY <2>1, <2>2, <2>3, RunningEvidence
  <2>5. Running(s, a) /\ vEvents[s] \in Seq(EventRows)
    BY <2>1 DEF EngineSound
  <2>6. PICK row \in EventRows : row = [kind |-> "END", label |-> a, start |-> e.start, end |-> e.support, onset |-> e.onset]
    BY <2>4 DEF EventRows
  <2>7. row.kind = "END" /\ row.label = a /\ row.start = e.start /\ row.end = e.support /\ row.onset = e.onset
    BY <2>6
  <2>8. close_engine(Engine(s), x).out = <<row>>
    <3>1. Max({e.start + 1, e.support}) = e.support
      BY <2>4, MaxOfTwo
    <3>2. event(e, "END", e.support) = row
      BY <3>1, <2>1, <2>3, <2>6 DEF event
    <3> QED
      BY <3>2, <1>5, <2>3 DEF close_engine
  <2>9. Backed(s, row)
    <3>1. \A i \in Inside(s, row) : Shows(s, i, a) # "UNUSABLE" /\ (vFrames[i].t <= row.onset => Shows(s, i, Nothing) = a)
      BY <2>3, <2>5, <2>7 DEF Running, Inside
    <3>2. \E i \in Inside(s, row) : vFrames[i].t = row.start
      BY <2>4, <2>7 DEF Inside
    <3>3. \E i \in Inside(s, row) : vFrames[i].t >= row.onset
      BY <2>4, <2>7 DEF Inside
    <3>4. PICK j \in Told(s) : vFrames[j].t + 1 = e.support /\ Shows(s, j, a) = a
      BY <2>3, <2>5 DEF Running
    <3>5. j \in Inside(s, row) /\ vFrames[j].t + 1 = row.end
      BY <2>2, <2>4, <2>7, <3>4 DEF Inside
    <3>6. row.end <= Elapsed + 1
      BY <2>2, <2>7, <3>4
    <3> QED
      BY <2>7, <3>1, <3>2, <3>3, <3>4, <3>5, <3>6 DEF Backed
  <2>10. /\ Len(vEvents[s]) > 0 /\ vEvents[s][Len(vEvents[s])].kind # "END" /\ vEvents[s][Len(vEvents[s])].start = e.start
         /\ \A k \in 1 .. Len(vEvents[s]) - 1 : vEvents[s][k].kind = "END"
    BY <2>3, <2>5 DEF Running
  <2>11. (vEvents[s])' = [vEvents[s] EXCEPT ![Len(vEvents[s])] = row]
    BY <2>5, <2>7, <2>8, <2>10, PersistOpen
  <2>12. /\ (vEvents[s])' \in Seq(EventRows) /\ Len((vEvents[s])') = Len(vEvents[s]) /\ Len(vEvents[s]) \in Nat
         /\ (vEvents[s])'[Len(vEvents[s])] = row
         /\ \A k \in 1 .. Len(vEvents[s]) : k # Len(vEvents[s]) => (vEvents[s])'[k] = vEvents[s][k]
    BY <2>5, <2>10, <2>11, LastRewritten
  <2>13. \A k \in 1 .. Len((vEvents[s])') : \A ev \in EventRows : (vEvents[s])'[k] = ev => Backed(s, ev)'
    BY <2>9, <2>12, SameFrames DEF EngineSound
  <2>14. \A k, m \in 1 .. Len((vEvents[s])') : k < m => (vEvents[s])'[k].end < (vEvents[s])'[m].start
    <3> SUFFICES ASSUME NEW k \in 1 .. Len(vEvents[s]), NEW m \in 1 .. Len(vEvents[s]), k < m
                 PROVE  (vEvents[s])'[k].end < (vEvents[s])'[m].start
      BY <2>12
    <3>1. vEvents[s][k].end < vEvents[s][m].start /\ k # Len(vEvents[s])
      BY <2>12 DEF EngineSound
    <3>2. (vEvents[s])'[m].start = vEvents[s][m].start
      BY <2>7, <2>10, <2>12
    <3> QED
      BY <3>1, <3>2, <2>12
  <2>15. RowsSound(s)'
    BY <2>12, <2>13, <2>14 DEF RowsSound
  <2>16. \A k \in 1 .. Len((vEvents[s])') : (vEvents[s])'[k].kind = "END"
    BY <2>7, <2>10, <2>12
  <2> QED
    BY <1>3, <2>15, <2>16
<1> QED
  BY <1>4, <1>5

\* Nothing but the state of the session changes when it fails.
LEMMA FailKeeps ==
  ASSUME NEW s, EngineSound(s), vFrames' = vFrames, vState' # "STOPPED", vState' = vState \/ vState' = "FAILED",
         Engine(s)' = Engine(s), (vEvents[s])' = vEvents[s]
  PROVE  EngineSound(s)'
<1>1. RowsSound(s)'
  BY SameFrames DEF EngineSound, RowsSound
<1>2. ASSUME NEW a \in Seen, Engine(s).active = a PROVE Running(s, a)'
  BY <1>2, SameFrames DEF EngineSound, Running
<1>3. Engine(s).active = Nothing => Waiting(s)'
  BY SameFrames DEF EngineSound, Waiting
<1>4. ASSUME NEW p \in Seen, Engine(s).active = Nothing, Engine(s).pending = p PROVE Pending(s, p)'
  BY <1>4, SameFrames DEF EngineSound, Pending
<1> QED
  BY <1>1, <1>2, <1>3, <1>4 DEF EngineSound, RowsSound

\* A recording begins without frames and events.
LEMMA RuleInvInit == RuleInit => RuleInv
<1> SUFFICES ASSUME RuleInit PROVE RuleInv
  OBVIOUS
<1>1. Nothing \notin Seen
  BY DEF Seen, Motions, Nothing
<1>2. NewEngine \in Engines /\ NewEngine.active = Nothing /\ NewEngine.pending = Nothing
  BY DEF NewEngine, Engines
<1>3. vEvents \in [Signals -> Seq(EventRows)] /\ \A s \in Signals : vEvents[s] = <<>>
  BY DEF RuleInit
<1>4. Timeline
  BY DEF RuleInit, Timeline
<1>5. ASSUME NEW s \in Signals PROVE EngineSound(s)
  <2>1. Engine(s) = NewEngine
    BY DEF RuleInit, Engine
  <2>2. vEvents[s] = <<>> /\ <<>> \in Seq(EventRows) /\ 1 .. Len(vEvents[s]) = {}
    BY <1>3
  <2>3. Waiting(s)
    BY <2>2 DEF Waiting
  <2> QED
    BY <1>1, <1>2, <2>1, <2>2, <2>3 DEF EngineSound
<1> QED
  BY <1>3, <1>4, <1>5 DEF RuleInv

\* Frames, the end of a recording and a failure keep it.
LEMMA RuleInvStep ==
  ASSUME RuleInv, [RuleNext]_ruleVars
  PROVE  RuleInv'
<1>1. Rules # Model /\ Signals = {Rules, Model}
  BY DEF Rules, Model, Signals
<1>2. CASE ingest_frame
  BY <1>2, IngestKeeps
<1>3. CASE stop_recording
  <2>1. /\ vFrames' = vFrames /\ vState' = "STOPPED"
        /\ \A s \in Signals : /\ Engine(s)' = NewEngine
                              /\ (vEvents[s])' = persist_rule_events(vEvents[s], close_engine(Engine(s), Elapsed + FramePeriod).out)
    BY <1>1, <1>3 DEF stop_recording, RuleInv, Engine
  <2>2. \A s \in Signals : EngineSound(s)'
    BY <2>1, StopKeeps DEF RuleInv
  <2>3. Timeline'
    BY <2>1 DEF RuleInv, Timeline
  <2>4. vEvents' \in [Signals -> Seq(EventRows)]
    <3>1. DOMAIN vEvents' = Signals /\ vEvents' = [s \in Signals |-> vEvents'[s]]
      BY <1>1, <1>3 DEF stop_recording, RuleInv
    <3> QED
      BY <3>1, <2>2 DEF EngineSound
  <2> QED
    BY <2>2, <2>3, <2>4 DEF RuleInv
<1>4. CASE fail_recording \/ UNCHANGED ruleVars
  <2>1. /\ vFrames' = vFrames /\ (vState' = vState \/ (vState' = "FAILED" /\ vState = "RECORDING"))
        /\ vEvents' = vEvents /\ vRule' = vRule /\ vModel' = vModel
    BY <1>4 DEF fail_recording, ruleVars
  <2>2. Timeline'
    BY <2>1 DEF RuleInv, Timeline
  <2>3. ASSUME NEW s \in Signals PROVE EngineSound(s)'
    <3>1. Engine(s)' = Engine(s) /\ (vEvents[s])' = vEvents[s] /\ EngineSound(s)
      BY <2>1 DEF Engine, RuleInv
    <3>2. CASE vState' # "STOPPED"
      BY <3>1, <3>2, <2>1, FailKeeps
    <3>3. CASE vState' = "STOPPED"
      <4>1. vState = "STOPPED" /\ vState' = vState
        BY <3>3, <2>1
      <4>2. RowsSound(s)'
        BY <2>1, <3>1, SameFrames DEF EngineSound, RowsSound
      <4>3. Engine(s).active = Nothing => Waiting(s)'
        BY <2>1, <3>1, <4>1, SameFrames DEF EngineSound, Waiting
      <4>4. ASSUME NEW p \in Seen, Engine(s).active = Nothing, Engine(s).pending = p PROVE Pending(s, p)'
        BY <2>1, <3>1, <4>4, SameFrames DEF EngineSound, Pending
      <4> QED
        BY <3>1, <4>1, <4>2, <4>3, <4>4 DEF EngineSound, RowsSound
    <3> QED
      BY <3>2, <3>3
  <2> QED
    BY <2>1, <2>2, <2>3 DEF RuleInv
<1> QED
  BY <1>2, <1>3, <1>4 DEF RuleNext

\* The frames bear out every event.
LEMMA RuleInvBacks == RuleInv => EventsBacked
<1> SUFFICES ASSUME RuleInv, NEW s \in Signals, NEW n \in 1 .. Len(vEvents[s])
             PROVE  LET ev == vEvents[s][n] IN
                    /\ Backed(s, ev) /\ ev.end <= Elapsed + FramePeriod
                    /\ \A m \in n + 1 .. Len(vEvents[s]) : ev.kind = "END" /\ ev.end < vEvents[s][m].start
                    /\ vState = "STOPPED" => ev.kind = "END"
  BY DEF EventsBacked, Backed
<1>1. EngineSound(s) /\ vEvents[s] \in Seq(EventRows) /\ Len(vEvents[s]) \in Nat
  BY DEF RuleInv, EngineSound
<1>2. vEvents[s][n] \in EventRows /\ Backed(s, vEvents[s][n])
  BY <1>1 DEF EngineSound
<1>3. FramePeriod \in Nat /\ FramePeriod >= 1
  BY RuleAssumption
<1>4. Elapsed \in Int
  <2>1. \A x \in Stamps : x.t \in Nat
    BY DEF Stamps
  <2> QED
    BY <2>1 DEF RuleInv, Timeline, Elapsed, Last
<1>5. vEvents[s][n].end <= Elapsed + FramePeriod
  BY <1>2, <1>3, <1>4 DEF Backed, EventRows
<1>6. Engine(s).active \in Seen \cup {Nothing}
  BY <1>1 DEF EngineSound, Engines
<1>7. n # Len(vEvents[s]) \/ vState = "STOPPED" => vEvents[s][n].kind = "END"
  BY <1>1, <1>6 DEF EngineSound, Running, Waiting
<1>8. \A m \in n + 1 .. Len(vEvents[s]) : vEvents[s][n].kind = "END" /\ vEvents[s][n].end < vEvents[s][m].start
  BY <1>1, <1>7 DEF EngineSound
<1> QED
  BY <1>2, <1>5, <1>7, <1>8

\* EventsBacked for recordings of any length and any policy: a row says no more than the
\* frames its engine was told of (TemporalRuleEngine.advance, close, stop).
THEOREM EventsBackedInvariant == RuleSpec => []EventsBacked
<1>1. RuleInit => RuleInv
  BY RuleInvInit
<1>2. RuleInv /\ [RuleNext]_ruleVars => RuleInv'
  BY RuleInvStep
<1>3. RuleInv => EventsBacked
  BY RuleInvBacks
<1> QED
  BY <1>1, <1>2, <1>3, PTL DEF RuleSpec

-----------------------------------------------------------------------------
(* The synthetic evidence pipeline.  The inductive invariant keeps what the *)
(* worker, the ended records, the exported bundle and a reproduction under  *)
(* way have been through.                                                   *)

\* What the runner has seen of the fixtures so far: in order, accepted times increasing, a
\* failure named where there was one.
FailureCodes == {"NONE", "CLOCK_REGRESSION", "FRAME_STALLED", "INPUT_UNAVAILABLE", "INPUT_MALFORMED",
                 "POSE_ENGINE_UNAVAILABLE", "POSE_ENGINE_EXCEPTION", "POSE_OUTPUT_INVALID",
                 "MANIFEST_VALIDATION_FAILED", "QUALITY_INSUFFICIENT"}
Observations == [seq : Int, captured : Int, processed : Int, state : {"PROCESSED", "FAILED"}, failure : FailureCodes]

SeenSound(seen) ==
  /\ seen \in Seq(Observations)
  /\ \A i \in 1 .. Len(seen) : seen[i].seq = i /\ (seen[i].state = "FAILED" => seen[i].failure # "NONE")
  /\ \A i, j \in Accepted(seen) :
       i < j => seen[i].captured < seen[j].captured /\ seen[i].processed <= seen[j].processed

SynArtifacts == [kind : Kinds, digests : Seq(Observations), d1 : {"PASS", "NO_GO"}, environment : {"current"}]

ArtifactSound(a) ==
  /\ a \in SynArtifacts
  /\ SeenSound(a.digests) /\ Len(a.digests) = RunFixtures
  /\ a.d1 = "PASS" => Accepted(a.digests) = 1 .. Len(a.digests)

\* The receipt of a run: none, of a failure, or with the artifact that was persisted.
ReceiptSound(r, failure) ==
  \/ r = NoBundle /\ failure = "UNEXPECTED_FAILURE"
  \/ r.status = "NOT_PERSISTED"
  \/ r.status = "PERSISTED" /\ ArtifactSound(r.artifact)

RunnerAt == [at : {"fixtures"}, key : ReviewKeys, kind : Kinds, next : Nat, seq : Int, captured : Int,
             processed : Int, seen : Seq(Observations)]

\* The run under way is one whose record has not ended, and close waits for it.
WorkerSound ==
  /\ sWorker.at \in {"idle", "queued", "fixtures", "persist", "ends"}
  /\ sWorker.at # "idle" =>
       /\ sPhase \in {"open", "closing"}
       /\ sWorker.key \in ReviewKeys
       /\ sRecord[sWorker.key].status \in {"QUEUED", "RUNNING"}
  /\ sWorker.at = "queued" => sWorker.kind \in Kinds
  /\ sWorker.at = "fixtures" =>
       /\ sWorker \in RunnerAt
       /\ SeenSound(sWorker.seen)
       /\ sWorker.next = Len(sWorker.seen) + 1 /\ Len(sWorker.seen) <= RunFixtures
       /\ \A i \in Accepted(sWorker.seen) :
            sWorker.seen[i].captured <= sWorker.captured /\ sWorker.seen[i].processed <= sWorker.processed
  /\ sWorker.at = "persist" =>
       /\ sWorker.kind \in Kinds /\ sWorker.d1 \in {"PASS", "NO_GO"}
       /\ ArtifactSound(artifact_payload(sWorker))
  /\ sWorker.at = "ends" => ReceiptSound(sWorker.receipt, sWorker.failure)

\* The columns of a record.
RunShape(r) == [status |-> r.status, kind |-> r.kind, failure |-> r.failure, receipt |-> r.receipt]

\* A record that has ended has a sound receipt.
RecordsSound ==
  /\ DOMAIN sRecord = ReviewKeys /\ sRecord = [k \in ReviewKeys |-> sRecord[k]]
  /\ \A k \in ReviewKeys : sRecord[k] = NoRun \/ sRecord[k] = RunShape(sRecord[k])
  /\ \A k \in ReviewKeys : sRecord[k].status = "TERMINAL" => ReceiptSound(sRecord[k].receipt, sRecord[k].failure)

\* The bundle is that of an ended run.
BundleSound ==
  sBundle # NoBundle =>
    /\ sBundle = [kind |-> sBundle.kind, key |-> sBundle.key, run |-> sBundle.run, artifact |-> sBundle.artifact,
                  intact |-> sBundle.intact]
    /\ sBundle.key \in ReviewKeys /\ sBundle.run = sRecord[sBundle.key]
    /\ sBundle.run.status = "TERMINAL"
    /\ sBundle.artifact = sBundle.run.receipt.artifact /\ ArtifactSound(sBundle.artifact)

\* An export holds the service's lock, and close does not pass it; a reproduction is of the
\* bundle at hand.
UseSound ==
  /\ sReplay.at \in {"idle", "read", "cleanup", "receipt"}
  /\ sReplay.at = "read" => sLock = "export" /\ sReplay.key \in ReviewKeys
  /\ sLock = "export" => sPhase = "open"
  /\ sStore = [open |-> sStore.open, artifacts |-> sStore.artifacts]
  /\ sPhase \in {"open", "closing"} => sStore.open
  /\ sReplay.at = "cleanup" => /\ sBundle # NoBundle /\ sReplay.error # "NONE"
                               /\ sReplay.again \in {sBundle.artifact, [sBundle.artifact EXCEPT !.d1 = "OTHER"], NoBundle}
  /\ sReplay.at = "receipt" => verify_reproduction_receipt_semantics(sReplay)

SynInv == WorkerSound /\ RecordsSound /\ BundleSound /\ UseSound

-----------------------------------------------------------------------------
\* At first nothing runs and nothing is kept.
LEMMA SynInvInit == SynInit => SynInv
<1> SUFFICES ASSUME SynInit PROVE SynInv
  OBVIOUS
<1>1. WorkerSound
  BY DEF SynInit, WorkerSound, WorkerIdle
<1>2. RecordsSound
  BY DEF SynInit, RecordsSound, NoRun
<1>3. BundleSound
  BY DEF SynInit, BundleSound
<1>4. UseSound
  BY DEF SynInit, UseSound, NoReplay
<1> QED
  BY <1>1, <1>2, <1>3, <1>4 DEF SynInv

\* What the worker does with its run alone leaves the rest as sound as it was.
LEMMA WorkerAlone ==
  ASSUME SynInv, UNCHANGED <<sRecord, sLock, sPhase, sBundle, sReplay>>, sStore' = sStore
  PROVE  RecordsSound' /\ BundleSound' /\ UseSound'
<1>1. RecordsSound'
  BY DEF SynInv, RecordsSound
<1>2. BundleSound'
  BY DEF SynInv, BundleSound
<1>3. UseSound'
  BY DEF SynInv, UseSound, verify_reproduction_receipt_semantics
<1> QED
  BY <1>1, <1>2, <1>3

\* The record of the run under way changes, and no bundle is of such a run.
LEMMA RecordChanged ==
  ASSUME SynInv, NEW k \in ReviewKeys, sRecord[k].status # "TERMINAL", NEW run, sRecord' = [sRecord EXCEPT ![k] = run],
         run = RunShape(run), run.status = "TERMINAL" => ReceiptSound(run.receipt, run.failure), sBundle' = sBundle
  PROVE  RecordsSound' /\ BundleSound' /\ sRecord'[k] = run
<1>1. /\ DOMAIN sRecord' = ReviewKeys /\ sRecord' = [j \in ReviewKeys |-> sRecord'[j]]
      /\ sRecord'[k] = run /\ \A j \in ReviewKeys : j # k => sRecord'[j] = sRecord[j]
  BY DEF SynInv, RecordsSound
<1>2. RecordsSound'
  BY <1>1 DEF SynInv, RecordsSound
<1>3. BundleSound'
  BY <1>1 DEF SynInv, BundleSound
<1> QED
  BY <1>1, <1>2, <1>3

\* submit and run_starts
LEMMA RunBegins ==
  ASSUME SynInv, (\E k \in ReviewKeys, kind \in Kinds : submit(k, kind)) \/ run_starts
  PROVE  SynInv'
<1>1. ASSUME NEW k \in ReviewKeys, NEW kind \in Kinds, submit(k, kind) PROVE SynInv'
  <2> DEFINE run == [status |-> "QUEUED", kind |-> kind, failure |-> "NONE", receipt |-> NoBundle]
  <2>1. /\ sRecord[k] = NoRun /\ sPhase = "open" /\ sRecord' = [sRecord EXCEPT ![k] = run]
        /\ sWorker' = [at |-> "queued", key |-> k, kind |-> kind]
        /\ UNCHANGED <<sStore, sLock, sPhase, sBundle, sReplay>>
    BY <1>1 DEF submit, StoredRuns
  <2>2. run = RunShape(run) /\ run.status = "QUEUED" /\ sRecord[k].status # "TERMINAL"
    BY <2>1 DEF RunShape, NoRun
  <2> HIDE DEF run
  <2>3. RecordsSound' /\ BundleSound' /\ sRecord'[k] = run
    BY <2>1, <2>2, RecordChanged
  <2>4. WorkerSound'
    BY <2>1, <2>2, <2>3 DEF WorkerSound
  <2>5. UseSound'
    BY <2>1 DEF SynInv, UseSound, verify_reproduction_receipt_semantics
  <2> QED
    BY <2>3, <2>4, <2>5 DEF SynInv
<1>2. CASE run_starts
  <2> DEFINE k == sWorker.key
             run == [sRecord[k] EXCEPT !.status = "RUNNING"]
  <2>1. /\ k \in ReviewKeys /\ sWorker.kind \in Kinds /\ sPhase \in {"open", "closing"}
        /\ sRecord[k].status \in {"QUEUED", "RUNNING"}
        /\ sWorker' = [at |-> "fixtures", key |-> k, kind |-> sWorker.kind, next |-> 1, seq |-> -1, captured |-> -1,
                       processed |-> -1, seen |-> <<>>]
        /\ UNCHANGED <<sStore, sLock, sPhase, sBundle, sReplay>>
        /\ sRecord' = [sRecord EXCEPT ![k] = run]
    BY <1>2 DEF run_starts, SynInv, WorkerSound
  <2>2. sRecord[k] = RunShape(sRecord[k])
    BY <2>1 DEF SynInv, RecordsSound, NoRun
  <2>3. run = RunShape(run) /\ run.status = "RUNNING"
    BY <2>2 DEF RunShape
  <2> HIDE DEF run
  <2>4. RecordsSound' /\ BundleSound' /\ sRecord'[k] = run
    BY <2>1, <2>3, RecordChanged
  <2>5. sWorker' \in RunnerAt
    BY <2>1 DEF RunnerAt
  <2>6. /\ sWorker'.at = "fixtures" /\ sWorker'.key = k /\ sWorker'.seen = <<>> /\ sWorker'.next = 1
        /\ SeenSound(<<>>) /\ Accepted(<<>>) = {} /\ Len(<<>>) = 0
    BY <2>1 DEF SeenSound, Accepted
  <2>7. WorkerSound'
    BY <2>1, <2>3, <2>4, <2>5, <2>6, SyntheticAssumption DEF WorkerSound
  <2>8. UseSound'
    BY <2>1 DEF SynInv, UseSound, verify_reproduction_receipt_semantics
  <2> QED
    BY <2>4, <2>7, <2>8 DEF SynInv
<1> QED
  BY <1>1, <1>2

\* What process returns and leaves behind.
LEMMA ProcessOutcome ==
  ASSUME NEW w \in RunnerAt, NEW c \in Int, NEW d \in Int, NEW answer \in ProviderAnswers
  PROVE  LET p == process(w, c, d, answer)
         IN /\ p.runner \in RunnerAt /\ p.runner.key = w.key /\ p.runner.seen = w.seen /\ p.runner.next = w.next
            /\ p.runner.captured >= w.captured /\ p.runner.processed >= w.processed
            /\ p.seen \in Observations /\ p.seen.seq = w.next
            /\ p.seen.state = "FAILED" => p.seen.failure # "NONE"
            /\ p.seen.state = "PROCESSED" =>
                 /\ p.seen.captured > w.captured /\ p.seen.captured = p.runner.captured
                 /\ p.seen.processed >= w.processed /\ p.seen.processed = p.runner.processed
<1> DEFINE entered == [w EXCEPT !.seq = w.next, !.captured = c]
           left == [entered EXCEPT !.processed = d]
<1>0. \A r : r \in RunnerAt <=>
         /\ r = [at |-> "fixtures", key |-> r.key, kind |-> r.kind, next |-> r.next, seq |-> r.seq,
                 captured |-> r.captured, processed |-> r.processed, seen |-> r.seen]
         /\ r.key \in ReviewKeys /\ r.kind \in Kinds /\ r.next \in Nat /\ r.seq \in Int /\ r.captured \in Int
         /\ r.processed \in Int /\ r.seen \in Seq(Observations)
  BY DEF RunnerAt
<1>e. entered = [at |-> "fixtures", key |-> w.key, kind |-> w.kind, next |-> w.next, seq |-> w.next,
                 captured |-> c, processed |-> w.processed, seen |-> w.seen]
  <2>1. w = [at |-> "fixtures", key |-> w.key, kind |-> w.kind, next |-> w.next, seq |-> w.seq,
             captured |-> w.captured, processed |-> w.processed, seen |-> w.seen]
    BY <1>0
  <2> DEFINE numbered == [w EXCEPT !.seq = w.next]
  <2>2. numbered = [at |-> "fixtures", key |-> w.key, kind |-> w.kind, next |-> w.next, seq |-> w.next,
                    captured |-> w.captured, processed |-> w.processed, seen |-> w.seen]
    BY <2>1
  <2>3. entered = [numbered EXCEPT !.captured = c]
    BY Zenon DEF entered
  <2> HIDE DEF numbered
  <2> QED
    BY <2>2, <2>3
<1> HIDE DEF entered
<1>l. left = [at |-> "fixtures", key |-> w.key, kind |-> w.kind, next |-> w.next, seq |-> w.next,
              captured |-> c, processed |-> d, seen |-> w.seen]
  BY <1>e
<1> HIDE DEF left
<1>1. /\ entered \in RunnerAt /\ entered.key = w.key /\ entered.seen = w.seen /\ entered.next = w.next
      /\ entered.captured = c /\ entered.processed = w.processed
  BY <1>0, <1>e
<1>2. /\ left \in RunnerAt /\ left.key = w.key /\ left.seen = w.seen /\ left.next = w.next
      /\ left.captured = c /\ left.processed = d
  BY <1>0, <1>l
<1>3. w.captured \in Int /\ w.processed \in Int /\ w.next \in Int
  BY DEF RunnerAt
<1>4. ASSUME NEW e \in Int, NEW state \in {"PROCESSED", "FAILED"}, NEW code \in FailureCodes
      PROVE  LET o == observation(w.next, c, e, state, code)
             IN /\ o \in Observations /\ o.seq = w.next /\ o.captured = c /\ o.processed = e
                /\ o.state = state /\ o.failure = code
  BY <1>3 DEF observation, Observations
<1>5. /\ capture_failure(w, c) \in FailureCodes /\ provider_failure(answer) \in FailureCodes
      /\ processing_failure(w, c, d) \in FailureCodes /\ pose_failure(answer) \in FailureCodes
  BY DEF capture_failure, provider_failure, processing_failure, pose_failure, FailureCodes
<1>6. capture_failure(w, c) = "NONE" => c > w.captured
  BY <1>3 DEF capture_failure
<1>7. processing_failure(w, c, d) = "NONE" => d >= w.processed
  BY <1>3 DEF processing_failure
<1> DEFINE p == process(w, c, d, answer)
           failed(code, done) == observation(w.next, c, done, "FAILED", code)
<1>8. CASE capture_failure(w, c) # "NONE"
  <2>1. p.runner = w /\ p.seen = failed(capture_failure(w, c), -1)
    BY <1>8 DEF process
  <2> HIDE DEF p
  <2> QED
    BY <2>1, <1>3, <1>4, <1>5, <1>8 DEF p
<1>9. CASE capture_failure(w, c) = "NONE" /\ provider_failure(answer) # "NONE"
  <2>1. p.runner = entered /\ p.seen = failed(provider_failure(answer), -1)
    BY <1>9 DEF process, entered
  <2> HIDE DEF p
  <2> QED
    BY <2>1, <1>1, <1>3, <1>4, <1>5, <1>6, <1>9 DEF p
<1>10. CASE /\ capture_failure(w, c) = "NONE" /\ provider_failure(answer) = "NONE"
            /\ processing_failure(w, c, d) # "NONE"
  <2>1. p.runner = entered /\ p.seen = failed(processing_failure(w, c, d), d)
    BY <1>10 DEF process, entered
  <2> HIDE DEF p
  <2> QED
    BY <2>1, <1>1, <1>3, <1>4, <1>5, <1>6, <1>10 DEF p
<1>11. CASE /\ capture_failure(w, c) = "NONE" /\ provider_failure(answer) = "NONE"
            /\ processing_failure(w, c, d) = "NONE" /\ pose_failure(answer) # "NONE"
  <2>1. p.runner = left /\ p.seen = failed(pose_failure(answer), d)
    BY <1>11 DEF process, entered, left
  <2> HIDE DEF p
  <2> QED
    BY <2>1, <1>2, <1>3, <1>4, <1>5, <1>6, <1>7, <1>11 DEF p
<1>12. CASE /\ capture_failure(w, c) = "NONE" /\ provider_failure(answer) = "NONE"
            /\ processing_failure(w, c, d) = "NONE" /\ pose_failure(answer) = "NONE"
  <2> DEFINE code == IF answer = "insufficient" THEN "QUALITY_INSUFFICIENT" ELSE "NONE"
  <2>1. p.runner = left /\ p.seen = observation(w.next, c, d, "PROCESSED", code)
    BY <1>12 DEF process, entered, left
  <2>2. code \in FailureCodes
    BY DEF FailureCodes
  <2> HIDE DEF p, code
  <2> QED
    BY <2>1, <2>2, <1>2, <1>3, <1>4, <1>6, <1>7, <1>12 DEF p
<1> QED
  BY <1>8, <1>9, <1>10, <1>11, <1>12

\* fixture_runs
LEMMA FixtureRuns ==
  ASSUME SynInv, fixture_runs
  PROVE  SynInv'
<1>1. /\ sWorker.at = "fixtures" /\ sWorker \in RunnerAt /\ SeenSound(sWorker.seen) /\ sWorker.next <= RunFixtures
      /\ sWorker.next = Len(sWorker.seen) + 1 /\ sPhase \in {"open", "closing"}
      /\ sRecord[sWorker.key].status \in {"QUEUED", "RUNNING"}
      /\ \A i \in Accepted(sWorker.seen) :
           sWorker.seen[i].captured <= sWorker.captured /\ sWorker.seen[i].processed <= sWorker.processed
  BY DEF SynInv, WorkerSound, fixture_runs
<1>2. RecordsSound' /\ BundleSound' /\ UseSound'
  BY WorkerAlone DEF fixture_runs
<1> SUFFICES WorkerSound'
  BY <1>2 DEF SynInv
<1>3. PICK c \in 0 .. MaxSynClock, d \in 0 .. MaxSynClock, answer \in ProviderAnswers :
        LET p == process(sWorker, c, d, answer)
        IN sWorker' = [p.runner EXCEPT !.next = @ + 1, !.seen = Append(@, p.seen)]
  BY Zenon DEF fixture_runs
<1>i. c \in Int /\ d \in Int
  BY SyntheticAssumption
<1> DEFINE p == process(sWorker, c, d, answer)
           r == p.runner
           o == p.seen
           seen == sWorker.seen
           now == Append(seen, o)
<1>4. /\ r \in RunnerAt /\ r.key = sWorker.key /\ r.seen = seen /\ r.next = sWorker.next
      /\ r.captured >= sWorker.captured /\ r.processed >= sWorker.processed
      /\ o \in Observations /\ o.seq = sWorker.next
      /\ o.state = "FAILED" => o.failure # "NONE"
      /\ o.state = "PROCESSED" => /\ o.captured > sWorker.captured /\ o.captured = r.captured
                                  /\ o.processed >= sWorker.processed /\ o.processed = r.processed
  BY <1>1, <1>i, ProcessOutcome
<1>5. sWorker' = [r EXCEPT !.next = @ + 1, !.seen = Append(@, o)]
  BY <1>3, Zenon
<1> HIDE DEF p, r, o
<1>6. sWorker' = [at |-> "fixtures", key |-> r.key, kind |-> r.kind, next |-> r.next + 1, seq |-> r.seq,
                  captured |-> r.captured, processed |-> r.processed, seen |-> now]
  <2> DEFINE moved == [r EXCEPT !.next = @ + 1]
  <2>1. r = [at |-> "fixtures", key |-> r.key, kind |-> r.kind, next |-> r.next, seq |-> r.seq,
             captured |-> r.captured, processed |-> r.processed, seen |-> r.seen]
    BY <1>4 DEF RunnerAt
  <2>2. moved = [at |-> "fixtures", key |-> r.key, kind |-> r.kind, next |-> r.next + 1, seq |-> r.seq,
                 captured |-> r.captured, processed |-> r.processed, seen |-> r.seen]
    BY <2>1
  <2>3. sWorker' = [moved EXCEPT !.seen = Append(@, o)]
    BY <1>5, Zenon
  <2> HIDE DEF moved
  <2> QED
    BY <2>2, <2>3, <1>4
<1>7. /\ seen \in Seq(Observations) /\ now \in Seq(Observations) /\ Len(now) = Len(seen) + 1
      /\ now[Len(seen) + 1] = o /\ \A i \in 1 .. Len(seen) : now[i] = seen[i]
  BY <1>1, <1>4 DEF SeenSound
<1> HIDE DEF now
<1>8. sWorker' \in RunnerAt
  BY <1>4, <1>6, <1>7 DEF RunnerAt
<1>9. Len(seen) \in Nat /\ sWorker.captured \in Int /\ sWorker.processed \in Int /\ r.captured \in Int /\ r.processed \in Int
  BY <1>1, <1>4, <1>7 DEF RunnerAt
<1>10. \A i \in Accepted(now) : \/ i \in Accepted(seen) /\ now[i] = seen[i]
                                \/ i = Len(seen) + 1 /\ now[i] = o /\ o.state = "PROCESSED"
  BY <1>7, <1>9 DEF Accepted
<1>11. \A i \in Accepted(now) : now[i].captured \in Int /\ now[i].processed \in Int /\ i \in Nat
  <2> SUFFICES ASSUME NEW i \in Accepted(now) PROVE now[i].captured \in Int /\ now[i].processed \in Int /\ i \in Nat
    OBVIOUS
  <2>1. i \in 1 .. Len(now)
    BY DEF Accepted
  <2>2. i \in Nat /\ now[i] \in Observations
    BY <2>1, <1>7, <1>9
  <2> QED
    BY <2>2 DEF Observations
<1>12. \A i \in Accepted(seen) : i <= Len(seen)
  BY <1>9 DEF Accepted
<1>13. \A i \in Accepted(now) : now[i].captured <= r.captured /\ now[i].processed <= r.processed
  <2> SUFFICES ASSUME NEW i \in Accepted(now) PROVE now[i].captured <= r.captured /\ now[i].processed <= r.processed
    OBVIOUS
  <2>1. CASE i \in Accepted(seen) /\ now[i] = seen[i]
    <3>1. now[i].captured <= sWorker.captured /\ now[i].processed <= sWorker.processed
      BY <2>1, <1>1
    <3> QED
      BY <3>1, <1>4, <1>9, <1>11
  <2>2. CASE now[i] = o /\ o.state = "PROCESSED"
    BY <2>2, <1>4, <1>9
  <2> QED
    BY <2>1, <2>2, <1>10
<1>14. \A i, j \in Accepted(now) : i < j => now[i].captured < now[j].captured /\ now[i].processed <= now[j].processed
  <2> SUFFICES ASSUME NEW i \in Accepted(now), NEW j \in Accepted(now), i < j
               PROVE  now[i].captured < now[j].captured /\ now[i].processed <= now[j].processed
    OBVIOUS
  <2>1. i \in Accepted(seen) /\ now[i] = seen[i]
    BY <1>9, <1>10, <1>11, <1>12
  <2>2. CASE j \in Accepted(seen) /\ now[j] = seen[j]
    BY <2>1, <2>2, <1>1 DEF SeenSound
  <2>3. CASE j = Len(seen) + 1 /\ now[j] = o /\ o.state = "PROCESSED"
    <3>1. now[i].captured <= sWorker.captured /\ now[i].processed <= sWorker.processed
      BY <2>1, <1>1
    <3>2. now[j].captured > sWorker.captured /\ now[j].processed >= sWorker.processed
      BY <2>3, <1>4
    <3> QED
      BY <3>1, <3>2, <1>9, <1>11
  <2> QED
    BY <2>2, <2>3, <1>10
<1>15. SeenSound(now)
  <2>1. \A i \in 1 .. Len(now) : now[i].seq = i /\ (now[i].state = "FAILED" => now[i].failure # "NONE")
    <3> SUFFICES ASSUME NEW i \in 1 .. Len(now)
                 PROVE  now[i].seq = i /\ (now[i].state = "FAILED" => now[i].failure # "NONE")
      OBVIOUS
    <3>1. CASE i \in 1 .. Len(seen)
      <4>1. now[i] = seen[i]
        BY <3>1, <1>7
      <4>2. seen[i].seq = i /\ (seen[i].state = "FAILED" => seen[i].failure # "NONE")
        BY <3>1, <1>1 DEF SeenSound
      <4> QED
        BY <4>1, <4>2
    <3>2. CASE i = Len(seen) + 1
      <4>1. now[i] = o /\ o.seq = Len(seen) + 1
        BY <3>2, <1>1, <1>4, <1>7
      <4> QED
        BY <4>1, <3>2, <1>4
    <3> QED
      BY <3>1, <3>2, <1>7, <1>9
  <2> QED
    BY <2>1, <1>7, <1>14 DEF SeenSound
<1>16. /\ sWorker'.at = "fixtures" /\ sWorker'.key = sWorker.key /\ sWorker'.seen = now
       /\ sWorker'.next = Len(now) + 1 /\ Len(now) <= RunFixtures /\ sWorker'.captured = r.captured
       /\ sWorker'.processed = r.processed /\ sWorker.key \in ReviewKeys
  BY <1>1, <1>4, <1>6, <1>7, <1>9 DEF RunnerAt
<1>17. UNCHANGED <<sRecord, sPhase>>
  BY DEF fixture_runs
<1> QED
  BY <1>1, <1>8, <1>13, <1>15, <1>16, <1>17 DEF WorkerSound

\* What the evaluation passes was processed throughout.
LEMMA PassProcessed ==
  ASSUME NEW seen, SeenSound(seen),
         \A i \in 1 .. Len(seen) : map_technical_observation(seen[i]).failure = "NONE"
  PROVE  Accepted(seen) = 1 .. Len(seen)
<1>1. ASSUME NEW i \in 1 .. Len(seen) PROVE seen[i].state = "PROCESSED"
  <2>1. seen[i] \in Observations /\ (seen[i].state = "FAILED" => seen[i].failure # "NONE")
    BY DEF SeenSound
  <2>2. seen[i].state \in {"PROCESSED", "FAILED"}
    BY <2>1 DEF Observations
  <2>3. (IF seen[i].state = "FAILED" THEN seen[i].failure ELSE "NONE") = "NONE"
    BY DEF map_technical_observation
  <2> QED
    BY <2>1, <2>2, <2>3
<1> QED
  BY <1>1 DEF Accepted

\* engine_rejects, evaluated, persist_fails and run_raises
LEMMA RunGoesOn ==
  ASSUME SynInv, engine_rejects \/ evaluated \/ persist_fails \/ run_raises
  PROVE  SynInv'
<1>1. UNCHANGED <<sRecord, sStore, sLock, sPhase, sBundle, sReplay>>
  BY DEF engine_rejects, evaluated, persist_fails, run_raises
<1>2. RecordsSound' /\ BundleSound' /\ UseSound'
  BY <1>1, WorkerAlone
<1> SUFFICES WorkerSound'
  BY <1>2 DEF SynInv
<1>3. /\ sPhase \in {"open", "closing"} /\ sWorker.key \in ReviewKeys
      /\ sRecord[sWorker.key].status \in {"QUEUED", "RUNNING"}
  BY DEF SynInv, WorkerSound, engine_rejects, evaluated, persist_fails, run_raises
<1>4. ASSUME NEW failure, NEW receipt, ReceiptSound(receipt, failure),
             sWorker' = [at |-> "ends", key |-> sWorker.key, failure |-> failure, receipt |-> receipt]
      PROVE  WorkerSound'
  <2>1. sWorker'.at = "ends" /\ sWorker'.key = sWorker.key /\ ReceiptSound(sWorker'.receipt, sWorker'.failure)
    BY <1>4
  <2> QED
    BY <2>1, <1>1, <1>3 DEF WorkerSound
<1>5. ASSUME NEW w, NEW code, NEW d1 PROVE ReceiptSound(integration_failure(w, code, d1), "NONE")
  BY DEF ReceiptSound, integration_failure
<1>6. CASE engine_rejects
  <2>1. PICK code : sWorker' = [at |-> "ends", key |-> sWorker.key, failure |-> "NONE",
                                receipt |-> integration_failure(sWorker, code, "NONE")]
    BY <1>6, Zenon DEF engine_rejects
  <2> QED
    BY <2>1, <1>4, <1>5
<1>7. CASE persist_fails
  <2>1. PICK code : sWorker' = [at |-> "ends", key |-> sWorker.key, failure |-> "NONE",
                                receipt |-> integration_failure(sWorker, code, sWorker.d1)]
    BY <1>7, Zenon DEF persist_fails
  <2> QED
    BY <2>1, <1>4, <1>5
<1>8. CASE run_raises
  <2>1. sWorker' = [at |-> "ends", key |-> sWorker.key, failure |-> "UNEXPECTED_FAILURE", receipt |-> NoBundle]
    BY <1>8 DEF run_raises
  <2>2. ReceiptSound(NoBundle, "UNEXPECTED_FAILURE")
    BY DEF ReceiptSound
  <2> QED
    BY <2>1, <2>2, <1>4
<1>9. CASE evaluated
  <2>1. PICK d1 \in {"PASS", "NO_GO"} :
          /\ d1 = "PASS" => \A i \in 1 .. Len(sWorker.seen) :
                               map_technical_observation(sWorker.seen[i]).failure = "NONE"
          /\ sWorker' = [at |-> "persist", key |-> sWorker.key, kind |-> sWorker.kind,
                         seen |-> sWorker.seen, d1 |-> d1]
    BY <1>9, Zenon DEF evaluated
  <2>2. /\ sWorker \in RunnerAt /\ SeenSound(sWorker.seen) /\ sWorker.next > RunFixtures
        /\ sWorker.next = Len(sWorker.seen) + 1 /\ Len(sWorker.seen) <= RunFixtures
    BY <1>9 DEF SynInv, WorkerSound, evaluated
  <2>3. sWorker.kind \in Kinds /\ sWorker.seen \in Seq(Observations)
    BY <2>2 DEF RunnerAt
  <2>4. Len(sWorker.seen) = RunFixtures
    BY <2>2, <2>3, SyntheticAssumption
  <2>5. d1 = "PASS" => Accepted(sWorker.seen) = 1 .. Len(sWorker.seen)
    BY <2>1, <2>2, PassProcessed
  <2> DEFINE a == [kind |-> sWorker.kind, digests |-> sWorker.seen, d1 |-> d1, environment |-> "current"]
  <2>6. a \in SynArtifacts /\ a.digests = sWorker.seen /\ a.d1 = d1
    BY <2>3 DEF SynArtifacts
  <2>7. ArtifactSound(a)
    <3> HIDE DEF a
    <3> QED
      BY <2>2, <2>4, <2>5, <2>6 DEF ArtifactSound
  <2>8. sWorker'.at = "persist" /\ sWorker'.key = sWorker.key /\ sWorker'.kind = sWorker.kind /\ sWorker'.d1 = d1
    BY <2>1
  <2>9. artifact_payload(sWorker)' = a
    BY <2>1 DEF artifact_payload
  <2> HIDE DEF a
  <2> QED
    BY <2>3, <2>7, <2>8, <2>9, <1>1, <1>3 DEF WorkerSound
<1> QED
  BY <1>6, <1>7, <1>8, <1>9

\* persists
LEMMA RunPersisted ==
  ASSUME SynInv, persists
  PROVE  SynInv'
<1> DEFINE artifact == artifact_payload(sWorker)
<1>1. /\ sPhase \in {"open", "closing"} /\ sWorker.key \in ReviewKeys
      /\ sRecord[sWorker.key].status \in {"QUEUED", "RUNNING"} /\ ArtifactSound(artifact)
  BY DEF SynInv, WorkerSound, persists
<1>2. /\ sWorker'.at = "ends" /\ sWorker'.key = sWorker.key
      /\ sWorker'.receipt.status = "PERSISTED" /\ sWorker'.receipt.artifact = artifact
      /\ UNCHANGED <<sRecord, sLock, sPhase, sBundle, sReplay>>
  BY DEF persists
<1>3. WorkerSound'
  <2> HIDE DEF artifact
  <2> QED
    BY <1>1, <1>2 DEF WorkerSound, ReceiptSound
<1>4. RecordsSound' /\ BundleSound'
  BY <1>2 DEF SynInv, RecordsSound, BundleSound
<1>5. sStore'.open = sStore.open /\ sStore' = [open |-> sStore'.open, artifacts |-> sStore'.artifacts]
  <2>1. sStore = [open |-> sStore.open, artifacts |-> sStore.artifacts]
    BY DEF SynInv, UseSound
  <2>2. sStore' = [sStore EXCEPT !.artifacts = [sStore.artifacts EXCEPT ![sWorker.key] = artifact]]
    BY Zenon DEF persists
  <2> QED
    BY <2>1, <2>2
<1>6. UseSound'
  BY <1>2, <1>5 DEF SynInv, UseSound, verify_reproduction_receipt_semantics
<1> QED
  BY <1>3, <1>4, <1>6 DEF SynInv

\* run_ends
LEMMA RunEnds ==
  ASSUME SynInv, run_ends
  PROVE  SynInv'
<1> DEFINE k == sWorker.key
           run == [status |-> "TERMINAL", kind |-> sRecord[k].kind, failure |-> sWorker.failure,
                   receipt |-> sWorker.receipt]
<1>1. /\ k \in ReviewKeys /\ sRecord[k].status \in {"QUEUED", "RUNNING"} /\ ReceiptSound(sWorker.receipt, sWorker.failure)
      /\ sWorker' = WorkerIdle /\ UNCHANGED <<sStore, sLock, sPhase, sBundle, sReplay>>
  BY DEF SynInv, WorkerSound, run_ends
<1>2. sRecord[k] = RunShape(sRecord[k])
  BY <1>1 DEF SynInv, RecordsSound, NoRun
<1>3. sRecord' = [sRecord EXCEPT ![k] = run]
  <2>1. sRecord = [j \in ReviewKeys |-> sRecord[j]]
    BY DEF SynInv, RecordsSound
  <2> DEFINE r1 == [sRecord EXCEPT ![k].status = "TERMINAL"]
             r2 == [r1 EXCEPT ![k].failure = sWorker.failure]
             r3 == [r2 EXCEPT ![k].receipt = sWorker.receipt]
  <2>2. sRecord' = r3
    BY Zenon DEF run_ends
  <2>3. r1 = [sRecord EXCEPT ![k] = [sRecord[k] EXCEPT !.status = "TERMINAL"]]
    OBVIOUS
  <2>4. r1[k] = [status |-> "TERMINAL", kind |-> sRecord[k].kind, failure |-> sRecord[k].failure,
                 receipt |-> sRecord[k].receipt]
    BY <1>1, <1>2, <2>1 DEF RunShape
  <2>5. r1 = [j \in ReviewKeys |-> IF j = k THEN r1[k] ELSE sRecord[j]]
    BY <1>1, <2>1, <2>3
  <2> HIDE DEF r1
  <2>6. r2[k] = [status |-> "TERMINAL", kind |-> sRecord[k].kind, failure |-> sWorker.failure,
                 receipt |-> sRecord[k].receipt]
    BY <1>1, <2>4, <2>5
  <2>7. r2 = [j \in ReviewKeys |-> IF j = k THEN r2[k] ELSE sRecord[j]]
    BY <1>1, <2>5
  <2> HIDE DEF r2
  <2>8. r3[k] = run
    BY <1>1, <2>6, <2>7
  <2>9. r3 = [j \in ReviewKeys |-> IF j = k THEN r3[k] ELSE sRecord[j]]
    BY <1>1, <2>7
  <2> HIDE DEF r3, run
  <2> QED
    BY <1>1, <2>1, <2>2, <2>8, <2>9
<1>4. run = RunShape(run) /\ (run.status = "TERMINAL" => ReceiptSound(run.receipt, run.failure))
  BY <1>1 DEF RunShape
<1> HIDE DEF run
<1>5. RecordsSound' /\ BundleSound'
  BY <1>1, <1>3, <1>4, RecordChanged
<1>6. WorkerSound'
  BY <1>1 DEF WorkerSound, WorkerIdle
<1>7. UseSound'
  BY <1>1 DEF SynInv, UseSound, verify_reproduction_receipt_semantics
<1> QED
  BY <1>5, <1>6, <1>7 DEF SynInv

\* Steps that leave the run, its record and the receipts of reproductions alone.
LEMMA RunAlone ==
  ASSUME SynInv, UNCHANGED <<sRecord, sWorker>>,
         sWorker.at # "idle" => sPhase' \in {"open", "closing"}
  PROVE  WorkerSound' /\ RecordsSound'
<1>1. WorkerSound'
  BY DEF SynInv, WorkerSound, artifact_payload
<1>2. RecordsSound'
  BY DEF SynInv, RecordsSound
<1> QED
  BY <1>1, <1>2

\* export_begins and export_reads
LEMMA Exports ==
  ASSUME SynInv, (\E k \in ReviewKeys : export_begins(k)) \/ export_reads
  PROVE  SynInv'
<1>1. UNCHANGED <<sRecord, sWorker, sStore, sPhase>>
  BY DEF export_begins, export_reads
<1>2. WorkerSound' /\ RecordsSound'
  <2>1. sWorker.at # "idle" => sPhase \in {"open", "closing"}
    BY DEF SynInv, WorkerSound
  <2> QED
    BY <2>1, <1>1, RunAlone
<1>3. ASSUME NEW k \in ReviewKeys, export_begins(k) PROVE SynInv'
  <2>1. /\ sPhase = "open" /\ sLock' = "export" /\ sBundle' = sBundle
        /\ sReplay' = [at |-> "read", key |-> k, workspace |-> "NOT_CREATED"]
    BY <1>3 DEF export_begins
  <2>2. BundleSound'
    BY <1>1, <2>1 DEF SynInv, BundleSound
  <2>3. UseSound'
    BY <1>1, <2>1 DEF SynInv, UseSound
  <2> QED
    BY <1>2, <2>2, <2>3 DEF SynInv
<1>4. CASE export_reads
  <2> DEFINE k == sReplay.key
             run == sRecord[k]
             artifact == sStore.artifacts[k]
             bundle == [kind |-> run.kind, key |-> k, run |-> run, artifact |-> artifact, intact |-> TRUE]
  <2>1. /\ k \in ReviewKeys /\ sLock' = "free" /\ sReplay' = NoReplay
        /\ sBundle' = IF artifact # NoBundle /\ artifact.d1 # "DAMAGED" /\ validate_envelope(bundle)
                      THEN bundle ELSE sBundle
    BY <1>4 DEF SynInv, UseSound, export_reads, build_synthetic_evidence_bundle
  <2>2. ASSUME validate_envelope(bundle)
        PROVE  run.status = "TERMINAL" /\ run.receipt.artifact = artifact /\ ArtifactSound(artifact)
    <3>1. bundle.run = run /\ bundle.artifact = artifact
      OBVIOUS
    <3>2. /\ run.status = "TERMINAL" /\ run.failure = "NONE" /\ run.receipt.status = "PERSISTED"
          /\ run.receipt.artifact = artifact
      <4> HIDE DEF bundle
      <4> QED
        BY <2>2, <3>1 DEF validate_envelope, validate_body, integration_receipt
    <3>3. ReceiptSound(run.receipt, run.failure)
      BY <2>1, <3>2 DEF SynInv, RecordsSound
    <3> QED
      BY <3>2, <3>3 DEF ReceiptSound
  <2>3. BundleSound'
    <3>1. CASE sBundle' = sBundle
      BY <3>1, <1>1 DEF SynInv, BundleSound
    <3>2. CASE sBundle' = bundle /\ validate_envelope(bundle)
      BY <3>2, <2>1, <2>2, <1>1 DEF BundleSound
    <3> QED
      BY <2>1, <3>1, <3>2
  <2>4. UseSound'
    BY <1>1, <2>1 DEF SynInv, UseSound, NoReplay
  <2> QED
    BY <1>2, <2>3, <2>4 DEF SynInv
<1> QED
  BY <1>3, <1>4

\* artifact_damaged, bundle_altered and the steps of close
LEMMA StoreChanges ==
  ASSUME SynInv, (\E k \in ReviewKeys : artifact_damaged(k)) \/ bundle_altered
                 \/ close_begins \/ close_store \/ close_removes
  PROVE  SynInv'
<1>1. UNCHANGED <<sRecord, sWorker, sLock, sReplay>>
  BY DEF artifact_damaged, bundle_altered, close_begins, close_store, close_removes
<1>2. /\ sPhase' = sPhase \/ sPhase' = "closing" \/ (sPhase' = "closed" /\ sWorker.at = "idle")
         \/ (sPhase = "closed" /\ sPhase' = "removed")
      /\ sPhase' # sPhase => sLock = "free" \/ sPhase # "open"
  BY DEF artifact_damaged, bundle_altered, close_begins, close_store, close_removes
<1>3. WorkerSound' /\ RecordsSound'
  BY <1>1, <1>2, RunAlone DEF SynInv, WorkerSound
<1>4. CASE bundle_altered
  <2>1. /\ sBundle # NoBundle /\ sReplay.at = "idle" /\ sBundle' = [sBundle EXCEPT !.intact = FALSE]
        /\ UNCHANGED <<sStore, sPhase>>
    BY <1>4 DEF bundle_altered
  <2>2. sBundle' = [kind |-> sBundle.kind, key |-> sBundle.key, run |-> sBundle.run, artifact |-> sBundle.artifact,
                    intact |-> FALSE]
    BY <2>1 DEF SynInv, BundleSound
  <2>3. BundleSound'
    BY <1>1, <2>1, <2>2 DEF SynInv, BundleSound
  <2>4. UseSound'
    BY <1>1, <2>1 DEF SynInv, UseSound
  <2> QED
    BY <1>3, <2>3, <2>4 DEF SynInv
<1>5. CASE (\E k \in ReviewKeys : artifact_damaged(k)) \/ close_begins \/ close_store \/ close_removes
  <2>1. sBundle' = sBundle
    BY <1>5 DEF artifact_damaged, close_begins, close_store, close_removes
  <2>2. BundleSound'
    BY <2>1, <1>1 DEF SynInv, BundleSound
  <2>3. /\ sStore' = [open |-> sStore'.open, artifacts |-> sStore'.artifacts]
        /\ sPhase' \in {"open", "closing"} => sPhase \in {"open", "closing"} /\ sStore'.open = sStore.open
    <3>1. sStore = [open |-> sStore.open, artifacts |-> sStore.artifacts]
      BY DEF SynInv, UseSound
    <3>2. ASSUME NEW k \in ReviewKeys, artifact_damaged(k) 
          PROVE  /\ sStore' = [open |-> sStore.open, artifacts |-> sStore'.artifacts]
                 /\ sPhase' = sPhase
      <4>1. sStore' = [sStore EXCEPT !.artifacts = [sStore.artifacts EXCEPT ![k] = [sStore.artifacts[k] EXCEPT !.d1 = "DAMAGED"]]]
        BY <3>2, Zenon DEF artifact_damaged
      <4> QED
        BY <3>1, <3>2, <4>1 DEF artifact_damaged
    <3>3. CASE close_begins
      BY <3>1, <3>3 DEF close_begins
    <3>4. CASE close_store
      BY <3>1, <3>4 DEF close_store
    <3>5. CASE close_removes
      BY <3>1, <3>5 DEF close_removes
    <3> QED
      BY <1>5, <3>2, <3>3, <3>4, <3>5
  <2>4. UseSound'
    <3>1. /\ sReplay'.at \in {"idle", "read", "cleanup", "receipt"}
          /\ sReplay'.at = "read" => sLock' = "export" /\ sReplay'.key \in ReviewKeys
          /\ sPhase' \in {"open", "closing"} => sStore'.open
      BY <1>1, <2>3 DEF SynInv, UseSound
    <3>2. sLock' = "export" => sPhase' = "open"
      BY <1>1, <1>2 DEF SynInv, UseSound
    <3>3. /\ sReplay'.at = "cleanup" => /\ sBundle' # NoBundle /\ sReplay'.error # "NONE"
                                        /\ sReplay'.again \in {sBundle'.artifact, [sBundle'.artifact EXCEPT !.d1 = "OTHER"], NoBundle}
          /\ sReplay'.at = "receipt" => verify_reproduction_receipt_semantics(sReplay)'
      BY <1>1, <2>1 DEF SynInv, UseSound, verify_reproduction_receipt_semantics
    <3> QED
      BY <2>3, <3>1, <3>2, <3>3 DEF UseSound
  <2> QED
    BY <1>3, <2>2, <2>4 DEF SynInv
<1> QED
  BY <1>4, <1>5

\* A result that differs from an artifact is found to differ.
LEMMA MismatchFound ==
  ASSUME NEW a \in SynArtifacts
  PROVE  /\ comparison_fields(a, a) = {}
         /\ comparison_fields(a, [a EXCEPT !.d1 = "OTHER"]) # {}
<1>1. comparison_fields(a, a) = {}
  BY DEF comparison_fields
<1>2. "d1" \in DOMAIN a /\ a.d1 # "OTHER" /\ a.d1 = a["d1"]
  BY DEF SynArtifacts
<1> DEFINE b == [a EXCEPT !.d1 = "OTHER"]
<1>3. b["d1"] = "OTHER"
  BY <1>2
<1> HIDE DEF b
<1>4. "d1" \in comparison_fields(a, b)
  BY <1>2, <1>3 DEF comparison_fields
<1> QED
  BY <1>1, <1>4 DEF b

\* reproduce_refuses, replay_runs, replay_cleans and reproduce_returns
LEMMA Reproduces ==
  ASSUME SynInv, reproduce_refuses \/ replay_runs \/ replay_cleans \/ reproduce_returns
  PROVE  SynInv'
<1>1. UNCHANGED <<sRecord, sWorker, sStore, sLock, sPhase, sBundle>>
  BY DEF reproduce_refuses, replay_runs, replay_cleans, reproduce_returns
<1>2. WorkerSound' /\ RecordsSound'
  BY <1>1, RunAlone DEF SynInv, WorkerSound
<1>3. BundleSound'
  BY <1>1 DEF SynInv, BundleSound
<1> SUFFICES UseSound'
  BY <1>2, <1>3 DEF SynInv
<1>4. /\ sLock' = "export" => sPhase' = "open"
      /\ sStore' = [open |-> sStore'.open, artifacts |-> sStore'.artifacts]
      /\ sPhase' \in {"open", "closing"} => sStore'.open
  BY <1>1 DEF SynInv, UseSound
<1>5. ASSUME NEW code, code # "NONE", NEW workspace,
             sReplay' = reproduction_receipt("REPRODUCTION_FAILED", code, workspace, NoBundle, {})
      PROVE  UseSound'
  <2>1. /\ sReplay'.at = "receipt" /\ sReplay'.classification = "REPRODUCTION_FAILED"
        /\ sReplay'.failure = code /\ sReplay'.mismatch = {}
    BY <1>5 DEF reproduction_receipt
  <2>2. verify_reproduction_receipt_semantics(sReplay)'
    BY <2>1, <1>5 DEF verify_reproduction_receipt_semantics
  <2> QED
    BY <2>1, <2>2, <1>4 DEF UseSound
<1>6. CASE reproduce_refuses
  <2>1. \/ \E code \in {"SOURCE_EVIDENCE_REJECTED", "CURRENT_BINDING_UNAVAILABLE"} :
             sReplay' = reproduction_receipt("REPRODUCTION_FAILED", code, "NOT_CREATED", NoBundle, {})
        \/ sReplay' = reproduction_receipt("SOURCE_REVISION_MISMATCH", "NONE", "NOT_CREATED", NoBundle, {})
    BY <1>6 DEF reproduce_refuses
  <2>2. CASE sReplay' = reproduction_receipt("SOURCE_REVISION_MISMATCH", "NONE", "NOT_CREATED", NoBundle, {})
    <3>1. /\ sReplay'.at = "receipt" /\ sReplay'.classification = "SOURCE_REVISION_MISMATCH"
          /\ sReplay'.failure = "NONE" /\ sReplay'.mismatch = {} /\ sReplay'.workspace = "NOT_CREATED"
          /\ sReplay'.again = NoBundle
      BY <2>2 DEF reproduction_receipt
    <3>2. verify_reproduction_receipt_semantics(sReplay)'
      BY <3>1 DEF verify_reproduction_receipt_semantics
    <3> QED
      BY <3>1, <3>2, <1>4 DEF UseSound
  <2> QED
    BY <2>1, <2>2, <1>5
<1>7. CASE replay_runs
  <2>1. PICK again \in {sBundle.artifact, [sBundle.artifact EXCEPT !.d1 = "OTHER"], NoBundle},
             error \in {"REPLAY_NOT_PERSISTED", "REPLAY_EVIDENCE_INVALID", "UNEXPECTED_FAILURE"} :
          sReplay' = [at |-> "cleanup", again |-> again, error |-> error, workspace |-> "CREATED"]
    BY <1>7, Zenon DEF replay_runs
  <2>2. sReplay'.at = "cleanup" /\ sReplay'.again = again /\ sReplay'.error = error /\ sBundle # NoBundle
    BY <2>1, <1>7 DEF replay_runs
  <2> QED
    BY <2>1, <2>2, <1>1, <1>4 DEF UseSound
<1>8. CASE replay_cleans
  <2> DEFINE a == sBundle.artifact
             again == sReplay.again
             mismatch == comparison_fields(a, again)
  <2>1. /\ sBundle # NoBundle /\ sReplay.error # "NONE"
        /\ again \in {a, [a EXCEPT !.d1 = "OTHER"], NoBundle} /\ a \in SynArtifacts
    BY <1>8 DEF SynInv, UseSound, BundleSound, ArtifactSound, replay_cleans
  <2>2. \/ sReplay' = reproduction_receipt("REPRODUCTION_FAILED", "TEMP_CLEANUP_FAILED", "CLEANUP_FAILED", NoBundle, {})
        \/ sReplay' = reproduction_receipt("REPRODUCTION_FAILED", sReplay.error, "NOT_CREATED", NoBundle, {})
        \/ /\ again # NoBundle
           /\ sReplay' = reproduction_receipt(IF mismatch = {} THEN "EXACTLY_REPRODUCED" ELSE "SEMANTIC_RESULT_MISMATCH",
                                              "NONE", "REMOVED", again, mismatch)
    BY <1>8, Zenon DEF replay_cleans
  <2>3. CASE sReplay' = reproduction_receipt("REPRODUCTION_FAILED", "TEMP_CLEANUP_FAILED", "CLEANUP_FAILED", NoBundle, {})
    BY <2>3, <1>5
  <2>4. CASE sReplay' = reproduction_receipt("REPRODUCTION_FAILED", sReplay.error, "NOT_CREATED", NoBundle, {})
    BY <2>1, <2>4, <1>5
  <2>5. CASE /\ again # NoBundle
             /\ sReplay' = reproduction_receipt(IF mismatch = {} THEN "EXACTLY_REPRODUCED" ELSE "SEMANTIC_RESULT_MISMATCH",
                                                "NONE", "REMOVED", again, mismatch)
    <3>1. again # a => mismatch # {}
      BY <2>1, <2>5, MismatchFound
    <3>2. sBundle'.artifact = a /\ comparison_fields(sBundle'.artifact, again) = mismatch
      BY <1>1
    <3> HIDE DEF a, again, mismatch
    <3>3. /\ sReplay'.at = "receipt" /\ sReplay'.failure = "NONE" /\ sReplay'.workspace = "REMOVED"
          /\ sReplay'.again = again /\ sReplay'.mismatch = mismatch
          /\ sReplay'.classification = IF mismatch = {} THEN "EXACTLY_REPRODUCED" ELSE "SEMANTIC_RESULT_MISMATCH"
      BY <2>5 DEF reproduction_receipt
    <3>4. verify_reproduction_receipt_semantics(sReplay)'
      BY <2>5, <3>1, <3>2, <3>3 DEF verify_reproduction_receipt_semantics
    <3> QED
      BY <3>3, <3>4, <1>4 DEF UseSound
  <2> QED
    BY <2>2, <2>3, <2>4, <2>5
<1>9. CASE reproduce_returns
  BY <1>9, <1>4 DEF reproduce_returns, UseSound, NoReplay
<1> QED
  BY <1>6, <1>7, <1>8, <1>9

\* Every step keeps the invariant.
LEMMA SynInvStep == SynInv /\ [SynNext]_synVars => SynInv'
<1> SUFFICES ASSUME SynInv, [SynNext]_synVars PROVE SynInv'
  OBVIOUS
<1>1. CASE UNCHANGED synVars
  <2>1. UNCHANGED <<sRecord, sWorker, sStore, sLock, sPhase, sBundle, sReplay>>
    BY <1>1 DEF synVars
  <2>2. WorkerSound' /\ RecordsSound'
    BY <2>1, RunAlone DEF SynInv, WorkerSound
  <2> QED
    BY <2>1, <2>2, WorkerAlone DEF SynInv
<1>2. CASE SynNext
  BY <1>2, RunBegins, FixtureRuns, RunGoesOn, RunPersisted, RunEnds, Exports, StoreChanges, Reproduces, Zenon DEF SynNext
<1> QED
  BY <1>1, <1>2

\* The invariant says what the evidence is worth.
LEMMA SynInvImplies == SynInv => SyntheticEvidenceSound
<1> SUFFICES ASSUME SynInv PROVE SyntheticEvidenceSound
  OBVIOUS
<1>1. sReplay.at = "read" \/ sWorker.at = "persist" => sStore.open
  BY DEF SynInv, UseSound, WorkerSound
<1>2. sReplay.at = "receipt" => verify_reproduction_receipt_semantics(sReplay)
  BY DEF SynInv, UseSound
<1>3. sBundle # NoBundle =>
        /\ sBundle.run = sRecord[sBundle.key] /\ sBundle.artifact = sBundle.run.receipt.artifact
        /\ ArtifactSound(sBundle.artifact)
  BY DEF SynInv, BundleSound
<1> QED
  BY <1>1, <1>2, <1>3 DEF SyntheticEvidenceSound, ArtifactSound, SeenSound

\* The evidence that leaves the synthetic pipeline, for any number of keys and fixtures and
\* any clock: the store is open whenever it is used, an exported bundle is that of one ended
\* run, with its fixtures in order and its accepted times increasing, a pass is one where
\* every fixture was processed, and what a reproduction reports agrees with what it compared
\* (SyntheticReviewService, SyntheticRunner.process, _validate_body).
THEOREM SyntheticEvidenceSoundInvariant == SynSpec => []SyntheticEvidenceSound
<1>1. SynInit => SynInv
  BY SynInvInit
<1>2. SynInv /\ [SynNext]_synVars => SynInv'
  BY SynInvStep
<1>3. SynInv => SyntheticEvidenceSound
  BY SynInvImplies
<1> QED
  BY <1>1, <1>2, <1>3, PTL DEF SynSpec

-----------------------------------------------------------------------------
(* The model registry *)

Forms == {"absent", "intact", "damaged", "disguised"}
Spoilt == {"damaged", "disguised"}
ImportPlaces == {"stage", "publish", "recheck", "point"} \cup Clearing
RegistryPlaces == {"idle", "find", "verify", "use"} \cup ImportPlaces \cup Looking \cup Loading

PublishedPrints == {<<b, "written">> : b \in Bundles}
ChangedPrints == {<<b, "other">> : b \in Bundles}

Caches == [digest : Bundles \cup {NoBundleYet}, print : PublishedPrints \cup {NoPrint}, runtime : Sound \cup {NoBundleYet}]

RegistryCallers == [at : RegistryPlaces, bundle : Bundles \cup {NoBundleYet},
                    print : PublishedPrints \cup ChangedPrints \cup {NoPrint}, runtime : Sound \cup {NoBundleYet}]

Answers == [outcome : {"NONE", "RAISED", "TECHNICAL_INSUFFICIENT", "NORMAL", "REVIEW_REQUIRED"},
            source : {"NONE", "REAL", "SYNTHETIC_PROGRAMMATIC"}, model : Sound \cup {NoBundleYet}]

RegistryTypes ==
  /\ mVersion \in [Bundles -> Forms]
  /\ mPointer \in Sound \cup {NoBundleYet}
  /\ mPointer # NoBundleYet => mVersion[mPointer] # "absent"
  /\ mCache \in Caches
  /\ mHttp \in RegistryCallers /\ mCamera \in RegistryCallers
  /\ mOverlap \in BOOLEAN
  /\ mAnswer \in Answers
  /\ mAnswer.source = "REAL" => mAnswer.model \in Research

\* What a thread's place says of what it has seen: it goes on to a runtime only with the
\* fingerprint the files were published with, it stores what has passed every check, and
\* it wipes the cache only for files that have changed.
CallerKnows(c) ==
  /\ c.at \in Looking \cup Loading \cup ImportPlaces \cup {"verify", "use"} => c.bundle \in Bundles
  /\ c.at \in {"digest", "same", "verify_load"} =>
       c.print = <<c.bundle, "written">> \/ (c.print = <<c.bundle, "other">> /\ mVersion[c.bundle] = "damaged")
  /\ c.at \in {"there", "return", "load", "store_digest", "store_print", "store_runtime", "use"} =>
       c.print = <<c.bundle, "written">>
  /\ c.at = "load" => c.bundle \in Sound /\ mVersion[c.bundle] # "absent"
  /\ c.at \in {"store_digest", "store_print", "store_runtime"} => c.runtime = c.bundle /\ c.bundle \in Sound
  /\ c.at \in {"wipe_digest", "wipe_print", "wipe_runtime"} => mVersion[c.bundle] \in Spoilt

ImportKnows ==
  /\ mHttp.at \in {"stage", "publish"} => mVersion[mHttp.bundle] = "absent"
  /\ mHttp.at \in {"publish", "point"} => mHttp.bundle \in Sound
  /\ mHttp.at = "point" => mVersion[mHttp.bundle] # "absent"

\* Unless a call overlapped the last import, everything the cache offers and everybody who
\* uses it is about the active bundle.
CacheAgrees ==
  ~mOverlap =>
    /\ mHttp.at \in Clearing => mCamera = RegistryIdle
    /\ mHttp.at \notin Clearing => mCache.runtime \in {NoBundleYet, mPointer}
    /\ mCamera.at # "idle" => mCamera.bundle = mPointer /\ mPointer # NoBundleYet
    /\ mHttp.at \in Looking \cup Loading \cup {"verify"} => mHttp.bundle = mPointer /\ mPointer # NoBundleYet
    /\ mCamera.at = "return" /\ mVersion[mPointer] = "intact" => mCache.runtime # NoBundleYet
    /\ mCamera.at = "use" =>
         mCamera.runtime = mPointer \/ (mCamera.runtime = NoBundleYet /\ mVersion[mPointer] # "intact")

RegistryInv == RegistryTypes /\ CallerKnows(mHttp) /\ CallerKnows(mCamera) /\ ImportKnows /\ CacheAgrees

\* The record of a thread that rests or has just begun.
LEMMA IdleCaller ==
  /\ RegistryIdle \in RegistryCallers /\ RegistryIdle.at = "idle" /\ CallerKnows(RegistryIdle)
  /\ \A p \in RegistryPlaces, b \in Bundles :
       LET c == [RegistryIdle EXCEPT !.at = p, !.bundle = b]
       IN c \in RegistryCallers /\ c.at = p /\ c.bundle = b /\ c.print = NoPrint /\ c.runtime = NoBundleYet
  /\ LET c == [RegistryIdle EXCEPT !.at = "find"]
     IN c \in RegistryCallers /\ c.at = "find" /\ CallerKnows(c)
<1>1. RegistryIdle \in RegistryCallers /\ RegistryIdle.at = "idle"
  BY DEF RegistryIdle, RegistryCallers, RegistryPlaces
<1>2. CallerKnows(RegistryIdle)
  BY <1>1 DEF CallerKnows, Looking, Loading, ImportPlaces, Clearing
<1>3. ASSUME NEW p \in RegistryPlaces, NEW b \in Bundles
      PROVE  LET c == [RegistryIdle EXCEPT !.at = p, !.bundle = b]
             IN c \in RegistryCallers /\ c.at = p /\ c.bundle = b /\ c.print = NoPrint /\ c.runtime = NoBundleYet
  BY DEF RegistryIdle, RegistryCallers
<1>4. LET c == [RegistryIdle EXCEPT !.at = "find"] IN c \in RegistryCallers /\ c.at = "find"
  BY <1>1 DEF RegistryCallers, RegistryPlaces
<1>5. CallerKnows([RegistryIdle EXCEPT !.at = "find"])
  BY <1>4 DEF CallerKnows, Looking, Loading, ImportPlaces, Clearing
<1> QED
  BY <1>1, <1>2, <1>3, <1>4, <1>5

\* The record of a thread that goes on to its next place.
LEMMA NextPlace ==
  ASSUME NEW c \in RegistryCallers, NEW p \in RegistryPlaces
  PROVE  /\ goes(c, p) \in RegistryCallers /\ goes(c, p).at = p /\ goes(c, p).bundle = c.bundle
         /\ goes(c, p).print = c.print /\ goes(c, p).runtime = c.runtime
BY DEF goes, RegistryCallers

\* What a step of _runtime_for_active leaves in the cache and says of its caller.
StepKnows(c, s) ==
  /\ s.cache \in Caches /\ s.caller \in RegistryCallers /\ CallerKnows(s.caller)
  /\ s.caller = RegistryIdle \/ (s.caller.bundle = c.bundle /\ s.caller.at \in Looking \cup Loading \cup {"use"})
  /\ s.cache.runtime \in {mCache.runtime, c.bundle} \/ (s.cache.runtime = NoBundleYet /\ mVersion[c.bundle] # "intact")
  /\ s.caller.at = "return" => s.cache = mCache /\ mCache.runtime # NoBundleYet
  /\ s.caller.at = "use" => s.caller.runtime = c.bundle \/ (c.at = "return" /\ s.caller.runtime = mCache.runtime)

\* The fingerprint, the comparisons and the second read.
LEMMA CacheStep ==
  ASSUME RegistryTypes, NEW c \in RegistryCallers, CallerKnows(c), c.at \in Looking
  PROVE  StepKnows(c, cache_step(c))
<1> DEFINE s == cache_step(c)
<1>1. /\ mVersion \in [Bundles -> Forms] /\ mCache \in Caches /\ c.bundle \in Bundles
      /\ mCache.runtime \in Sound \cup {NoBundleYet} /\ mCache.print \in PublishedPrints \cup {NoPrint}
  BY DEF RegistryTypes, Caches, CallerKnows
<1>2. ASSUME NEW at \in {"same", "there", "return", "verify_load"}, s = step_of(mCache, goes(c, at)),
             at = "return" => mCache.runtime # NoBundleYet, CallerKnows(goes(c, at))
      PROVE  StepKnows(c, s)
  <2>1. at \in RegistryPlaces /\ at \in Looking \cup Loading /\ at # "use"
    BY DEF RegistryPlaces, Looking, Loading
  <2>2. s.cache = mCache /\ s.caller = goes(c, at)
    BY <1>2 DEF step_of
  <2>3. /\ s.caller \in RegistryCallers /\ s.caller.at = at /\ s.caller.bundle = c.bundle
    BY <2>1, <2>2, NextPlace
  <2> QED
    BY <1>1, <1>2, <2>1, <2>2, <2>3 DEF StepKnows
<1>3. ASSUME NEW at \in {"same", "there", "return", "verify_load"},
             c.print = <<c.bundle, "written">> \/ (c.print = <<c.bundle, "other">> /\ mVersion[c.bundle] = "damaged"),
             at \in {"there", "return"} => c.print = <<c.bundle, "written">>
      PROVE  CallerKnows(goes(c, at))
  <2>1. at \in RegistryPlaces
    BY DEF RegistryPlaces, Looking, Loading
  <2>2. goes(c, at).at = at /\ goes(c, at).bundle = c.bundle /\ goes(c, at).print = c.print
    BY <2>1, NextPlace
  <2> QED
    BY <1>1, <1>3, <2>2 DEF CallerKnows
<1>4. CASE c.at = "print"
  <2> DEFINE d == [c EXCEPT !.at = "digest", !.print = fingerprint(c.bundle)]
  <2>1. s = step_of(mCache, d)
    BY <1>4 DEF cache_step
  <2>2. s.cache = mCache /\ s.caller = d
    BY <2>1 DEF step_of
  <2>3. fingerprint(c.bundle) \in PublishedPrints \cup ChangedPrints
    BY <1>1 DEF fingerprint, PublishedPrints, ChangedPrints
  <2>4. "digest" \in RegistryPlaces /\ "digest" \in Looking
    BY DEF RegistryPlaces, Looking
  <2>5. d \in RegistryCallers /\ d.at = "digest" /\ d.bundle = c.bundle /\ d.print = fingerprint(c.bundle)
    BY <2>3, <2>4 DEF RegistryCallers
  <2>6. fingerprint(c.bundle) = <<c.bundle, "written">>
        \/ (fingerprint(c.bundle) = <<c.bundle, "other">> /\ mVersion[c.bundle] = "damaged")
    BY DEF fingerprint
  <2> HIDE DEF d
  <2>7. CallerKnows(d)
    BY <1>1, <2>5, <2>6 DEF CallerKnows
  <2> QED
    BY <1>1, <2>2, <2>4, <2>5, <2>7 DEF StepKnows
<1>5. CASE c.at = "digest"
  <2>1. PICK at \in {"same", "verify_load"} : s = step_of(mCache, goes(c, at))
    BY <1>5 DEF cache_step
  <2>2. c.print = <<c.bundle, "written">> \/ (c.print = <<c.bundle, "other">> /\ mVersion[c.bundle] = "damaged")
    BY <1>5 DEF CallerKnows
  <2> QED
    BY <1>2, <1>3, <2>1, <2>2
<1>6. CASE c.at = "same"
  <2>1. PICK at \in {"there", "verify_load"} : s = step_of(mCache, goes(c, at)) /\ (at = "there" => mCache.print = c.print)
    BY <1>6 DEF cache_step, same_files
  <2>2. c.print = <<c.bundle, "written">> \/ (c.print = <<c.bundle, "other">> /\ mVersion[c.bundle] = "damaged")
    BY <1>6 DEF CallerKnows
  <2>3. at = "there" => c.print = <<c.bundle, "written">>
    BY <1>1, <2>1, <2>2 DEF PublishedPrints, NoPrint
  <2> QED
    BY <1>2, <1>3, <2>1, <2>2, <2>3
<1>7. CASE c.at = "there"
  <2>1. PICK at \in {"return", "verify_load"} :
          s = step_of(mCache, goes(c, at)) /\ (at = "return" => mCache.runtime # NoBundleYet)
    BY <1>7 DEF cache_step
  <2>2. c.print = <<c.bundle, "written">>
    BY <1>7 DEF CallerKnows
  <2> QED
    BY <1>2, <1>3, <2>1, <2>2
<1>8. CASE c.at = "return"
  <2> DEFINE d == [c EXCEPT !.at = "use", !.runtime = mCache.runtime]
  <2>1. s = step_of(mCache, d)
    BY <1>8 DEF cache_step
  <2>2. s.cache = mCache /\ s.caller = d
    BY <2>1 DEF step_of
  <2>3. "use" \in RegistryPlaces
    BY DEF RegistryPlaces
  <2>4. /\ d \in RegistryCallers /\ d.at = "use" /\ d.bundle = c.bundle /\ d.print = c.print
        /\ d.runtime = mCache.runtime
    BY <1>1, <2>3 DEF RegistryCallers
  <2>5. c.print = <<c.bundle, "written">>
    BY <1>8 DEF CallerKnows
  <2> HIDE DEF d
  <2>6. CallerKnows(d)
    BY <1>1, <2>4, <2>5 DEF CallerKnows
  <2> QED
    BY <1>1, <1>8, <2>2, <2>4, <2>6 DEF StepKnows
<1> QED
  BY <1>4, <1>5, <1>6, <1>7, <1>8 DEF Looking

\* The load and its stores, or the wipe.
LEMMA LoadStep ==
  ASSUME RegistryTypes, NEW c \in RegistryCallers, CallerKnows(c), c.at \in Loading
  PROVE  StepKnows(c, load_step(c))
<1> DEFINE s == load_step(c)
<1>1. /\ mVersion \in [Bundles -> Forms] /\ mCache \in Caches /\ c.bundle \in Bundles
      /\ mCache.runtime \in Sound \cup {NoBundleYet}
  BY DEF RegistryTypes, Caches, CallerKnows
<1>2. ASSUME s = step_of(mCache, RegistryIdle)
      PROVE  StepKnows(c, s)
  <2>1. s.cache = mCache /\ s.caller = RegistryIdle
    BY <1>2 DEF step_of
  <2> QED
    BY <1>1, <2>1, IdleCaller DEF StepKnows
<1>3. ASSUME NEW cache \in Caches, NEW at \in Loading \cup {"use"}, s = step_of(cache, goes(c, at)),
             CallerKnows(goes(c, at)),
             cache.runtime \in {mCache.runtime, c.bundle} \/ (cache.runtime = NoBundleYet /\ mVersion[c.bundle] # "intact"),
             at = "use" => c.runtime = c.bundle
      PROVE  StepKnows(c, s)
  <2>1. at \in RegistryPlaces /\ at # "return"
    BY DEF RegistryPlaces, Loading
  <2>2. s.cache = cache /\ s.caller = goes(c, at)
    BY <1>3 DEF step_of
  <2>3. /\ s.caller \in RegistryCallers /\ s.caller.at = at /\ s.caller.bundle = c.bundle
        /\ s.caller.runtime = c.runtime
    BY <2>1, <2>2, NextPlace
  <2> QED
    BY <1>1, <1>3, <2>1, <2>2, <2>3 DEF StepKnows
<1>4. ASSUME NEW at \in Loading \cup {"use"},
             at \in {"load", "store_digest", "store_print", "store_runtime", "use"} => c.print = <<c.bundle, "written">>,
             at # "verify_load", at = "load" => c.bundle \in Sound /\ mVersion[c.bundle] # "absent",
             at \in {"store_digest", "store_print", "store_runtime"} => c.runtime = c.bundle /\ c.bundle \in Sound,
             at \in {"wipe_digest", "wipe_print", "wipe_runtime"} => mVersion[c.bundle] \in Spoilt
      PROVE  CallerKnows(goes(c, at))
  <2>1. at \in RegistryPlaces /\ at \notin {"digest", "same", "there", "return"}
    BY DEF RegistryPlaces, Loading
  <2>2. /\ goes(c, at).at = at /\ goes(c, at).bundle = c.bundle /\ goes(c, at).print = c.print
        /\ goes(c, at).runtime = c.runtime
    BY <2>1, NextPlace
  <2> QED
    BY <1>1, <1>4, <2>1, <2>2 DEF CallerKnows
<1>5. CASE c.at = "verify_load"
  <2>1. CASE verify_staged_contract(c.bundle, mVersion[c.bundle])
    <3>1. s = step_of(mCache, goes(c, "load"))
      BY <1>5, <2>1 DEF load_step
    <3>2. c.bundle \in Sound /\ mVersion[c.bundle] = "intact"
      BY <2>1 DEF verify_staged_contract
    <3>3. c.print = <<c.bundle, "written">>
      BY <1>5, <3>2 DEF CallerKnows
    <3>4. "load" \in Loading
      BY DEF Loading
    <3>5. CallerKnows(goes(c, "load"))
      BY <1>4, <3>2, <3>3, <3>4
    <3> QED
      BY <1>1, <1>3, <3>1, <3>4, <3>5
  <2>2. CASE ~ verify_staged_contract(c.bundle, mVersion[c.bundle])
    <3>1. s = step_of(mCache, RegistryIdle)
      BY <1>5, <2>2 DEF load_step
    <3> QED
      BY <1>2, <3>1
  <2> QED
    BY <2>1, <2>2
<1>6. CASE c.at = "load"
  <2>1. c.print = <<c.bundle, "written">> /\ c.bundle \in Sound /\ mVersion[c.bundle] # "absent"
    BY <1>6 DEF CallerKnows
  <2>2. CASE mVersion[c.bundle] = "intact"
    <3> DEFINE d == [c EXCEPT !.at = "store_digest", !.runtime = c.bundle]
    <3>1. s = step_of(mCache, d)
      BY <1>6, <2>1, <2>2 DEF load_step, from_bundle, verify_staged_contract
    <3>2. s.cache = mCache /\ s.caller = d
      BY <3>1 DEF step_of
    <3>3. "store_digest" \in RegistryPlaces /\ "store_digest" \in Loading
      BY DEF RegistryPlaces, Loading
    <3>4. /\ d \in RegistryCallers /\ d.at = "store_digest" /\ d.bundle = c.bundle /\ d.print = c.print
          /\ d.runtime = c.bundle
      BY <2>1, <3>3 DEF RegistryCallers
    <3> HIDE DEF d
    <3>5. CallerKnows(d)
      BY <1>1, <2>1, <3>4 DEF CallerKnows
    <3> QED
      BY <1>1, <3>2, <3>3, <3>4, <3>5 DEF StepKnows
  <2>3. CASE mVersion[c.bundle] # "intact"
    <3>1. s = step_of(mCache, goes(c, "wipe_digest"))
      BY <1>6, <2>3 DEF load_step, from_bundle, verify_staged_contract
    <3>2. mVersion[c.bundle] \in Spoilt
      BY <1>1, <2>1, <2>3 DEF Forms, Spoilt
    <3>3. "wipe_digest" \in Loading
      BY DEF Loading
    <3>4. CallerKnows(goes(c, "wipe_digest"))
      BY <1>4, <3>2, <3>3
    <3> QED
      BY <1>1, <1>3, <3>1, <3>3, <3>4
  <2> QED
    BY <2>2, <2>3
<1>7. CASE c.at \in {"store_digest", "store_print", "store_runtime"}
  <2>1. c.print = <<c.bundle, "written">> /\ c.runtime = c.bundle /\ c.bundle \in Sound
    BY <1>7 DEF CallerKnows
  <2>2. PICK cache, at : /\ s = step_of(cache, goes(c, at)) /\ at \in {"store_print", "store_runtime", "use"}
                         /\ \/ cache = [mCache EXCEPT !.digest = c.bundle]
                            \/ cache = [mCache EXCEPT !.print = c.print]
                            \/ cache = [mCache EXCEPT !.runtime = c.runtime]
    BY <1>7 DEF load_step
  <2>3. c.print \in PublishedPrints
    BY <1>1, <2>1 DEF PublishedPrints
  <2>4. cache \in Caches /\ cache.runtime \in {mCache.runtime, c.bundle}
    BY <1>1, <2>1, <2>2, <2>3 DEF Caches
  <2>5. at \in Loading \cup {"use"}
    BY <2>2 DEF Loading
  <2>6. CallerKnows(goes(c, at))
    BY <1>4, <2>1, <2>2, <2>5
  <2> QED
    BY <1>3, <2>1, <2>2, <2>4, <2>5, <2>6
<1>8. CASE c.at \in {"wipe_digest", "wipe_print"}
  <2>1. mVersion[c.bundle] \in Spoilt
    BY <1>8 DEF CallerKnows
  <2>2. PICK cache, at : /\ s = step_of(cache, goes(c, at)) /\ at \in {"wipe_print", "wipe_runtime"}
                         /\ \/ cache = [mCache EXCEPT !.digest = NoBundleYet]
                            \/ cache = [mCache EXCEPT !.print = NoPrint]
    BY <1>8 DEF load_step
  <2>3. cache \in Caches /\ cache.runtime = mCache.runtime
    BY <1>1, <2>2 DEF Caches
  <2>4. at \in Loading /\ at # "use"
    BY <2>2 DEF Loading
  <2>5. CallerKnows(goes(c, at))
    BY <1>4, <2>1, <2>2, <2>4
  <2> QED
    BY <1>3, <2>2, <2>3, <2>4, <2>5
<1>9. CASE c.at = "wipe_runtime"
  <2> DEFINE cache == [mCache EXCEPT !.runtime = NoBundleYet]
  <2>1. mVersion[c.bundle] \in Spoilt
    BY <1>9 DEF CallerKnows
  <2>2. s = step_of(cache, RegistryIdle)
    BY <1>9 DEF load_step
  <2>3. s.cache = cache /\ s.caller = RegistryIdle
    BY <2>2 DEF step_of
  <2>4. cache \in Caches /\ cache.runtime = NoBundleYet
    BY <1>1 DEF Caches
  <2>5. mVersion[c.bundle] # "intact"
    BY <2>1 DEF Spoilt
  <2> HIDE DEF cache
  <2> QED
    BY <2>3, <2>4, <2>5, IdleCaller DEF StepKnows
<1> QED
  BY <1>5, <1>6, <1>7, <1>8, <1>9 DEF Loading

\* One step of _runtime_for_active.
LEMMA RuntimeStep ==
  ASSUME RegistryTypes, NEW c \in RegistryCallers, CallerKnows(c), c.at \in Looking \cup Loading
  PROVE  StepKnows(c, runtime_step(c))
<1>1. CASE c.at \in Looking
  BY <1>1, CacheStep DEF runtime_step
<1>2. CASE c.at \notin Looking
  BY <1>2, LoadStep DEF runtime_step
<1> QED
  BY <1>1, <1>2

\* What a step may do: the body of OnlyVerifiedServes.
Serves ==
  /\ mPointer' # mPointer => mPointer' \in Sound /\ mVersion[mPointer'] # "absent"
  /\ {mCache'.runtime, mCamera'.runtime} \subseteq Sound \cup {NoBundleYet}
  /\ mCamera'.at = "use" =>
       /\ mCamera'.print = <<mCamera'.bundle, "written">>
       /\ \/ mOverlap' \/ mCamera'.runtime = mCamera'.bundle
          \/ mCamera'.runtime = NoBundleYet /\ mVersion'[mCamera'.bundle] # "intact"
  /\ mAnswer'.source = "REAL" => mAnswer'.model \in Research

\* What the invariant says after a step, it says of the step.
LEMMA ServesLater ==
  ASSUME RegistryInv', mPointer' = mPointer \/ (mPointer' \in Sound /\ mVersion[mPointer'] # "absent")
  PROVE  Serves
<1>1. {mCache'.runtime, mCamera'.runtime} \subseteq Sound \cup {NoBundleYet}
  BY DEF RegistryInv, RegistryTypes, Caches, RegistryCallers
<1>2. mCamera'.at = "use" => mCamera'.print = <<mCamera'.bundle, "written">>
  BY DEF RegistryInv, CallerKnows
<1>3. mCamera'.at = "use" /\ ~mOverlap' =>
        \/ mCamera'.runtime = mCamera'.bundle
        \/ mCamera'.runtime = NoBundleYet /\ mVersion'[mCamera'.bundle] # "intact"
  BY DEF RegistryInv, CacheAgrees
<1>4. mAnswer'.source = "REAL" => mAnswer'.model \in Research
  BY DEF RegistryInv, RegistryTypes
<1> QED
  BY <1>1, <1>2, <1>3, <1>4 DEF Serves

\* The request imports a bundle (import_bundle).
LEMMA ImportSteps ==
  ASSUME RegistryInv,
         (\E b \in Bundles : import_begins(b)) \/ stage_verifies \/ publish \/ recheck \/ activate \/ clear_cache
  PROVE  RegistryInv' /\ Serves
<1>1. RegistryTypes /\ CallerKnows(mHttp) /\ CallerKnows(mCamera) /\ ImportKnows /\ CacheAgrees
  BY DEF RegistryInv
<1>2. /\ mVersion \in [Bundles -> Forms] /\ mPointer \in Sound \cup {NoBundleYet}
      /\ mCache \in Caches /\ mHttp \in RegistryCallers /\ mCamera \in RegistryCallers
  BY <1>1 DEF RegistryTypes
<1>3. mCamera' = mCamera /\ mAnswer' = mAnswer
  BY DEF import_begins, stage_verifies, publish, recheck, activate, clear_cache
<1>4. mHttp.at \in ImportPlaces => mHttp.bundle \in Bundles
  BY <1>1 DEF CallerKnows
<1>6. ASSUME mVersion' = mVersion
      PROVE  CallerKnows(mCamera)'
  BY <1>1, <1>3, <1>6 DEF CallerKnows
\* the request goes on, or ends, before the pointer is moved
<1>7. ASSUME UNCHANGED <<mVersion, mPointer, mCache, mOverlap>>, mHttp.at \notin Clearing,
             \/ mHttp' = RegistryIdle
             \/ mHttp' \in RegistryCallers /\ mHttp'.at \in {"stage", "publish", "recheck", "point"}
                /\ mHttp'.bundle \in Bundles,
             mHttp'.at \in {"stage", "publish"} => mVersion[mHttp'.bundle] = "absent",
             mHttp'.at \in {"publish", "point"} => mHttp'.bundle \in Sound,
             mHttp'.at = "point" => mVersion[mHttp'.bundle] # "absent"
      PROVE  RegistryInv' /\ Serves
  <2>1. mHttp' \in RegistryCallers /\ mHttp'.at \notin Clearing \cup Looking \cup Loading \cup {"verify"}
    BY <1>7, IdleCaller DEF Clearing, Looking, Loading
  <2>2. CallerKnows(mHttp)'
    <3>1. CASE mHttp' = RegistryIdle
      BY <2>1, <3>1, IdleCaller DEF CallerKnows, Looking, Loading, ImportPlaces, Clearing
    <3>2. CASE mHttp' # RegistryIdle
      BY <1>7, <2>1, <3>2 DEF CallerKnows, Looking, Loading
    <3> QED
      BY <3>1, <3>2
  <2>3. RegistryTypes'
    BY <1>1, <1>3, <1>7, <2>1 DEF RegistryTypes
  <2>4. ImportKnows'
    BY <1>7 DEF ImportKnows
  <2>5. CacheAgrees'
    BY <1>1, <1>3, <1>7, <2>1 DEF CacheAgrees
  <2>6. RegistryInv'
    BY <1>6, <1>7, <2>2, <2>3, <2>4, <2>5 DEF RegistryInv
  <2> QED
    BY <1>7, <2>6, ServesLater
<1>8. ASSUME NEW b \in Bundles, import_begins(b)
      PROVE  RegistryInv' /\ Serves
  <2>1. PICK p \in {"stage", "recheck"} : /\ mHttp' = [RegistryIdle EXCEPT !.at = p, !.bundle = b]
                                          /\ p = "stage" => mVersion[b] = "absent"
    BY <1>8 DEF import_begins
  <2>2. p \in RegistryPlaces
    BY DEF RegistryPlaces, ImportPlaces
  <2>3. mHttp' \in RegistryCallers /\ mHttp'.at = p /\ mHttp'.bundle = b
    BY <2>1, <2>2, IdleCaller
  <2>4. UNCHANGED <<mVersion, mPointer, mCache, mOverlap>> /\ mHttp.at \notin Clearing
    BY <1>8, IdleCaller DEF import_begins, Clearing
  <2> QED
    BY <1>7, <2>1, <2>3, <2>4
<1>9. CASE stage_verifies
  <2>1. UNCHANGED <<mVersion, mPointer, mCache, mOverlap>> /\ mHttp.at = "stage"
    BY <1>9 DEF stage_verifies
  <2>2. mHttp.bundle \in Bundles /\ mVersion[mHttp.bundle] = "absent" /\ mHttp.at \notin Clearing
    BY <1>1, <1>4, <2>1 DEF ImportKnows, ImportPlaces, Clearing
  <2>3. CASE mHttp' = RegistryIdle
    BY <1>7, <2>1, <2>2, <2>3, IdleCaller
  <2>4. CASE mHttp' = [mHttp EXCEPT !.at = "publish"] /\ mHttp.bundle \in Sound
    <3>1. mHttp' \in RegistryCallers /\ mHttp'.at = "publish" /\ mHttp'.bundle = mHttp.bundle
      <4>1. "publish" \in RegistryPlaces
        BY DEF RegistryPlaces, ImportPlaces
      <4> QED
        BY <1>2, <2>4, <4>1, NextPlace DEF goes
    <3> QED
      BY <1>7, <2>1, <2>2, <2>4, <3>1
  <2> QED
    BY <1>9, <2>3, <2>4 DEF stage_verifies, verify_staged_contract
<1>10. CASE publish
  <2>1. /\ UNCHANGED <<mPointer, mCache, mOverlap>> /\ mHttp.at = "publish" /\ mHttp' = goes(mHttp, "point")
        /\ mVersion' = [mVersion EXCEPT ![mHttp.bundle] = "intact"]
    BY <1>10 DEF publish, goes
  <2>2. mHttp.bundle \in Bundles /\ mHttp.bundle \in Sound /\ mVersion[mHttp.bundle] = "absent"
    BY <1>1, <1>4, <2>1 DEF ImportKnows, ImportPlaces
  <2>3. "point" \in RegistryPlaces /\ "point" \in ImportPlaces
    BY DEF RegistryPlaces, ImportPlaces
  <2>4. mHttp' \in RegistryCallers /\ mHttp'.at = "point" /\ mHttp'.bundle = mHttp.bundle
    BY <1>2, <2>1, <2>3, NextPlace
  <2>5. /\ mVersion' \in [Bundles -> Forms] /\ mVersion'[mHttp.bundle] = "intact"
        /\ \A b \in Bundles : mVersion[b] # "absent" => mVersion'[b] = mVersion[b]
    BY <1>2, <2>1, <2>2 DEF Forms
  <2>6. RegistryTypes'
    BY <1>1, <1>3, <2>1, <2>4, <2>5, RegistryAssumption DEF RegistryTypes
  <2>7. CallerKnows(mHttp)'
    BY <2>2, <2>3, <2>4 DEF CallerKnows, Looking, Loading, ImportPlaces, Clearing
  <2>8. CallerKnows(mCamera)'
    <3>1. mCamera.bundle \in Bundles /\ mVersion[mCamera.bundle] # "absent" =>
            mVersion'[mCamera.bundle] = mVersion[mCamera.bundle]
      BY <2>5
    <3> QED
      BY <1>1, <1>3, <3>1 DEF CallerKnows, Looking, Loading, Spoilt
  <2>9. ImportKnows'
    BY <2>2, <2>4, <2>5 DEF ImportKnows
  <2>10. CacheAgrees'
    <3>1. mHttp.at \notin Clearing /\ mHttp'.at \notin Clearing \cup Looking \cup Loading \cup {"verify"}
      BY <2>1, <2>4 DEF Clearing, Looking, Loading
    <3>2. mPointer # NoBundleYet => mVersion'[mPointer] = mVersion[mPointer]
      BY <1>1, <1>2, <2>5, RegistryAssumption DEF RegistryTypes
    <3>3. mOverlap' = mOverlap /\ mPointer' = mPointer /\ mCache' = mCache
      BY <2>1
    <3>4. mCamera.at \in {"return", "use"} => mCamera.at # "idle"
      OBVIOUS
    <3> QED
      BY <1>1, <1>3, <3>1, <3>2, <3>3, <3>4 DEF CacheAgrees
  <2>11. RegistryInv'
    BY <2>6, <2>7, <2>8, <2>9, <2>10 DEF RegistryInv
  <2> QED
    BY <2>1, <2>11, ServesLater
<1>11. CASE recheck
  <2>1. UNCHANGED <<mVersion, mPointer, mCache, mOverlap>> /\ mHttp.at = "recheck"
    BY <1>11 DEF recheck
  <2>2. mHttp.bundle \in Bundles /\ mHttp.at \notin Clearing
    BY <1>4, <2>1 DEF ImportPlaces, Clearing
  <2>3. CASE mHttp' = RegistryIdle
    BY <1>7, <2>1, <2>2, <2>3, IdleCaller
  <2>4. CASE mHttp' = [mHttp EXCEPT !.at = "point"] /\ mHttp.bundle \in Sound /\ mVersion[mHttp.bundle] = "intact"
    <3>1. mHttp' \in RegistryCallers /\ mHttp'.at = "point" /\ mHttp'.bundle = mHttp.bundle
      <4>1. "point" \in RegistryPlaces
        BY DEF RegistryPlaces, ImportPlaces
      <4> QED
        BY <1>2, <2>4, <4>1, NextPlace DEF goes
    <3> QED
      BY <1>7, <2>1, <2>2, <2>4, <3>1
  <2> QED
    BY <1>11, <2>3, <2>4 DEF recheck, from_bundle, verify_staged_contract
<1>12. CASE activate
  <2>1. /\ UNCHANGED <<mVersion, mCache>> /\ mHttp.at = "point" /\ mPointer' = mHttp.bundle
        /\ mHttp' = goes(mHttp, "clear_digest") /\ mOverlap' = (mCamera # RegistryIdle)
    BY <1>12 DEF activate, goes
  <2>2. mHttp.bundle \in Bundles /\ mHttp.bundle \in Sound /\ mVersion[mHttp.bundle] # "absent"
    BY <1>1, <1>4, <2>1 DEF ImportKnows, ImportPlaces
  <2>3. "clear_digest" \in RegistryPlaces /\ "clear_digest" \in ImportPlaces /\ "clear_digest" \in Clearing
    BY DEF RegistryPlaces, ImportPlaces, Clearing
  <2>4. mHttp' \in RegistryCallers /\ mHttp'.at = "clear_digest" /\ mHttp'.bundle = mHttp.bundle
    BY <1>2, <2>1, <2>3, NextPlace
  <2>5. RegistryTypes'
    <3>1. mOverlap' \in BOOLEAN
      BY <2>1
    <3> QED
      BY <1>1, <1>3, <2>1, <2>2, <2>4, <3>1 DEF RegistryTypes
  <2>6. CallerKnows(mHttp)'
    BY <2>2, <2>4 DEF CallerKnows, Looking, Loading
  <2>7. ImportKnows'
    BY <2>4 DEF ImportKnows
  <2>8. CacheAgrees'
    <3>1. ~mOverlap' => mCamera' = RegistryIdle /\ mCamera'.at = "idle"
      BY <1>3, <2>1, IdleCaller
    <3>2. mHttp'.at \notin Looking \cup Loading \cup {"verify"}
      BY <2>4 DEF Looking, Loading
    <3> QED
      BY <2>3, <2>4, <3>1, <3>2 DEF CacheAgrees
  <2>9. RegistryInv'
    BY <1>6, <2>1, <2>5, <2>6, <2>7, <2>8 DEF RegistryInv
  <2> QED
    BY <2>1, <2>2, <2>9, ServesLater
<1>13. CASE clear_cache
  <2>1. UNCHANGED <<mVersion, mPointer, mOverlap>> /\ mHttp.at \in Clearing /\ mHttp.bundle \in Bundles
    BY <1>4, <1>13 DEF clear_cache, Clearing, ImportPlaces
  <2>2. /\ mCache' \in Caches
        /\ \/ mHttp' \in {goes(mHttp, "clear_print"), goes(mHttp, "clear_runtime")}
           \/ mHttp' = [RegistryIdle EXCEPT !.at = "find"] /\ mCache'.runtime = NoBundleYet
    BY <1>2, <1>13 DEF clear_cache, Caches, goes
  <2>3. /\ mHttp' \in RegistryCallers /\ CallerKnows(mHttp)'
        /\ mHttp'.at \in Clearing \/ (mHttp'.at = "find" /\ mCache'.runtime = NoBundleYet)
    <3>1. CASE mHttp' \in {goes(mHttp, "clear_print"), goes(mHttp, "clear_runtime")}
      <4>1. PICK p \in {"clear_print", "clear_runtime"} : mHttp' = goes(mHttp, p)
        BY <3>1
      <4>2. p \in RegistryPlaces /\ p \in ImportPlaces /\ p \in Clearing
        BY DEF RegistryPlaces, ImportPlaces, Clearing
      <4>3. mHttp' \in RegistryCallers /\ mHttp'.at = p /\ mHttp'.bundle = mHttp.bundle
        BY <1>2, <4>1, <4>2, NextPlace
      <4>4. CallerKnows(mHttp)'
        BY <2>1, <4>2, <4>3 DEF CallerKnows, Looking, Loading
      <4> QED
        BY <4>2, <4>3, <4>4
    <3>2. CASE mHttp' = [RegistryIdle EXCEPT !.at = "find"] /\ mCache'.runtime = NoBundleYet
      <4>1. mHttp' \in RegistryCallers /\ mHttp'.at = "find"
        BY <3>2, IdleCaller
      <4>2. CallerKnows(mHttp)'
        BY <4>1 DEF CallerKnows, Looking, Loading, ImportPlaces, Clearing
      <4> QED
        BY <3>2, <4>1, <4>2
    <3> QED
      BY <2>2, <3>1, <3>2
  <2>4. RegistryTypes'
    BY <1>1, <1>3, <2>1, <2>2, <2>3 DEF RegistryTypes
  <2>5. mHttp'.at \notin Looking \cup Loading \cup {"verify", "stage", "publish", "point"}
    BY <2>3 DEF Clearing, Looking, Loading
  <2>6. ImportKnows'
    BY <2>5 DEF ImportKnows
  <2>7. CacheAgrees'
    <3>1. ~mOverlap' => mCamera' = RegistryIdle /\ mCamera'.at = "idle"
      BY <1>1, <1>3, <2>1, IdleCaller DEF CacheAgrees
    <3>2. mHttp'.at \notin Clearing => mCache'.runtime = NoBundleYet
      BY <2>3
    <3> QED
      BY <2>5, <3>1, <3>2 DEF CacheAgrees
  <2>8. RegistryInv'
    BY <1>6, <2>1, <2>3, <2>4, <2>6, <2>7 DEF RegistryInv
  <2> QED
    BY <2>1, <2>8, ServesLater
<1> QED
  BY <1>8, <1>9, <1>10, <1>11, <1>12, <1>13

\* The capture worker asks for a prediction (infer_pose_tensor).
LEMMA InferSteps ==
  ASSUME RegistryInv, infer_pose_tensor
  PROVE  RegistryInv' /\ Serves
<1>1. RegistryTypes /\ CallerKnows(mHttp) /\ CallerKnows(mCamera) /\ ImportKnows /\ CacheAgrees
  BY DEF RegistryInv
<1>2. /\ mCache \in Caches /\ mCamera \in RegistryCallers /\ UNCHANGED <<mVersion, mPointer, mHttp>>
      /\ mPointer \in Sound \cup {NoBundleYet} /\ mAnswer \in Answers
  BY <1>1 DEF RegistryTypes, infer_pose_tensor
<1>3. CallerKnows(mHttp)' /\ ImportKnows'
  BY <1>1, <1>2 DEF CallerKnows, ImportKnows
<1>4. ASSUME NEW b \in active_bundle \ {NoBundleYet}, mCamera = RegistryIdle, mAnswer' = NoAnswer, mCache' = mCache,
             mCamera' = [RegistryIdle EXCEPT !.at = "print", !.bundle = b],
             mOverlap' = (mOverlap \/ mHttp.at \in Clearing)
      PROVE  RegistryInv' /\ Serves
  <2>1. b = mPointer /\ b # NoBundleYet /\ b \in Bundles
    BY <1>2, <1>4, RegistryAssumption DEF active_bundle
  <2>2. "print" \in RegistryPlaces /\ "print" \in Looking
    BY DEF RegistryPlaces, Looking
  <2>3. mCamera' \in RegistryCallers /\ mCamera'.at = "print" /\ mCamera'.bundle = b
    <3> DEFINE c == [RegistryIdle EXCEPT !.at = "print", !.bundle = b]
    <3>1. c \in RegistryCallers /\ c.at = "print" /\ c.bundle = b
      <4>1. RegistryIdle \in RegistryCallers
        BY IdleCaller
      <4> QED
        BY <2>1, <2>2, <4>1 DEF RegistryCallers
    <3>2. mCamera' = c
      BY <1>4
    <3> HIDE DEF c
    <3> QED
      BY <3>1, <3>2
  <2>4. NoAnswer \in Answers /\ NoAnswer.source # "REAL" /\ mOverlap' \in BOOLEAN
    BY <1>1, <1>4 DEF NoAnswer, Answers, RegistryTypes
  <2>5. RegistryTypes'
    BY <1>1, <1>2, <1>4, <2>3, <2>4 DEF RegistryTypes
  <2>6. CallerKnows(mCamera)'
    BY <2>1, <2>3 DEF CallerKnows
  <2>7. CacheAgrees'
    BY <1>1, <1>2, <1>4, <2>1, <2>3 DEF CacheAgrees
  <2>8. RegistryInv'
    BY <1>3, <2>5, <2>6, <2>7 DEF RegistryInv
  <2> QED
    BY <1>2, <2>8, ServesLater
<1>5. CASE /\ mCamera.at \in Looking \cup Loading
           /\ mCamera' = runtime_step(mCamera).caller /\ mCache' = runtime_step(mCamera).cache
           /\ UNCHANGED <<mAnswer, mOverlap>>
  <2>1. StepKnows(mCamera, runtime_step(mCamera))
    BY <1>1, <1>2, <1>5, RuntimeStep
  <2>2. /\ mCache' \in Caches /\ mCamera' \in RegistryCallers
        /\ mCamera' = RegistryIdle
           \/ (mCamera'.bundle = mCamera.bundle /\ mCamera'.at \in Looking \cup Loading \cup {"use"})
        /\ \/ mCache'.runtime \in {mCache.runtime, mCamera.bundle}
           \/ mCache'.runtime = NoBundleYet /\ mVersion[mCamera.bundle] # "intact"
        /\ mCamera'.at = "return" => mCache' = mCache /\ mCache.runtime # NoBundleYet
        /\ mCamera'.at = "use" => \/ mCamera'.runtime = mCamera.bundle
                                  \/ mCamera.at = "return" /\ mCamera'.runtime = mCache.runtime
    BY <1>5, <2>1 DEF StepKnows
  <2>3. CallerKnows(mCamera)'
    <3>1. CallerKnows(runtime_step(mCamera).caller)
      BY <2>1 DEF StepKnows
    <3> QED
      BY <1>2, <1>5, <3>1 DEF CallerKnows
  <2>4. RegistryTypes'
    BY <1>1, <1>2, <1>5, <2>2 DEF RegistryTypes
  <2>5. CacheAgrees'
    <3> SUFFICES ASSUME ~mOverlap' PROVE CacheAgrees'
      BY DEF CacheAgrees
    <3>1. mCamera.at # "idle" /\ mCamera # RegistryIdle
      BY <1>5, IdleCaller DEF Looking, Loading
    <3>2. /\ ~mOverlap /\ mHttp.at \notin Clearing /\ mCamera.bundle = mPointer /\ mPointer # NoBundleYet
          /\ mCache.runtime \in {NoBundleYet, mPointer}
      BY <1>1, <1>5, <3>1 DEF CacheAgrees
    <3>3. mCache'.runtime \in {NoBundleYet, mPointer} /\ mHttp'.at \notin Clearing
      BY <1>2, <2>2, <3>2
    <3>4. mCamera'.at # "idle" => mCamera'.bundle = mPointer
      BY <2>2, <3>2, IdleCaller
    <3>5. mCamera'.at = "return" => mCache'.runtime # NoBundleYet
      BY <2>2
    <3>6. mCamera'.at = "use" => \/ mCamera'.runtime = mPointer
                                 \/ mCamera'.runtime = NoBundleYet /\ mVersion[mPointer] # "intact"
      BY <1>1, <2>2, <3>2 DEF CacheAgrees
    <3>7. mHttp.at \in Looking \cup Loading \cup {"verify"} => mHttp.bundle = mPointer
      BY <1>1, <3>2 DEF CacheAgrees
    <3> QED
      BY <1>2, <3>2, <3>3, <3>4, <3>5, <3>6, <3>7 DEF CacheAgrees
  <2>6. RegistryInv'
    BY <1>3, <2>3, <2>4, <2>5 DEF RegistryInv
  <2> QED
    BY <1>2, <2>6, ServesLater
<1>6. ASSUME mCamera.at = "use", mCamera' = RegistryIdle, UNCHANGED <<mCache, mOverlap>>, mAnswer' \in Answers,
             mAnswer'.source = "REAL" => mAnswer'.model \in Research
      PROVE  RegistryInv' /\ Serves
  <2>1. RegistryTypes'
    BY <1>1, <1>2, <1>6, IdleCaller DEF RegistryTypes
  <2>2. CallerKnows(mCamera)'
    BY <1>6, IdleCaller DEF CallerKnows, Looking, Loading, ImportPlaces, Clearing
  <2>3. CacheAgrees'
    BY <1>1, <1>2, <1>6, IdleCaller DEF CacheAgrees
  <2>4. RegistryInv'
    BY <1>3, <2>1, <2>2, <2>3 DEF RegistryInv
  <2> QED
    BY <1>2, <2>4, ServesLater
<1>7. NoAnswer \in Answers /\ NoAnswer.source # "REAL"
  BY DEF NoAnswer, Answers
<1>8. CASE mCamera.at = "use" /\ mCamera' = RegistryIdle /\ UNCHANGED <<mCache, mOverlap>>
           /\ mCamera.runtime = NoBundleYet /\ mAnswer' = [NoAnswer EXCEPT !.outcome = "RAISED"]
  <2>1. mAnswer' \in Answers /\ mAnswer'.source # "REAL"
    BY <1>8 DEF NoAnswer, Answers
  <2> QED
    BY <1>6, <1>8, <2>1
<1>9. ASSUME mCamera.at = "use", mCamera' = RegistryIdle, UNCHANGED <<mCache, mOverlap>>,
             NEW source \in {"REAL", "SYNTHETIC_PROGRAMMATIC"}, NEW outcome \in infer(mCamera.runtime, source),
             mAnswer' = IF outcome = "NONE" THEN NoAnswer
                        ELSE [outcome |-> outcome, source |-> source, model |-> mCamera.runtime]
      PROVE  RegistryInv' /\ Serves
  <2>1. mCamera.runtime \in Sound \cup {NoBundleYet}
    BY <1>2 DEF RegistryCallers
  <2>2. outcome = "NONE" \/ outcome \in {"TECHNICAL_INSUFFICIENT", "NORMAL", "REVIEW_REQUIRED"}
    BY DEF infer
  <2>3. outcome # "NONE" /\ source = "REAL" => mCamera.runtime \in Research
    BY DEF infer
  <2>4. CASE outcome = "NONE"
    BY <1>6, <1>7, <1>9, <2>4
  <2>5. CASE outcome # "NONE"
    <3>1. mAnswer' = [outcome |-> outcome, source |-> source, model |-> mCamera.runtime]
      BY <1>9, <2>5
    <3>2. mAnswer' \in Answers /\ mAnswer'.source = source /\ mAnswer'.model = mCamera.runtime
      BY <2>1, <2>2, <2>5, <3>1 DEF Answers
    <3> QED
      BY <1>6, <1>9, <2>3, <2>5, <3>2
  <2> QED
    BY <2>4, <2>5
<1> QED
  BY <1>4, <1>5, <1>8, <1>9 DEF infer_pose_tensor

\* The request asks for the status (status_begins, registry_status).
LEMMA StatusSteps ==
  ASSUME RegistryInv, status_begins \/ registry_status
  PROVE  RegistryInv' /\ Serves
<1>1. RegistryTypes /\ CallerKnows(mHttp) /\ CallerKnows(mCamera) /\ ImportKnows /\ CacheAgrees
  BY DEF RegistryInv
<1>2. /\ mCache \in Caches /\ mHttp \in RegistryCallers /\ mPointer \in Sound \cup {NoBundleYet}
      /\ UNCHANGED <<mVersion, mPointer, mCamera, mAnswer, mOverlap>>
  BY <1>1 DEF RegistryTypes, status_begins, registry_status
<1>3. CallerKnows(mCamera)'
  BY <1>1, <1>2 DEF CallerKnows
<1>4. ASSUME mHttp.at \notin Clearing, mHttp' \in RegistryCallers, CallerKnows(mHttp)', mCache' \in Caches,
             mHttp'.at \notin ImportPlaces,
             mHttp'.at \in Looking \cup Loading \cup {"verify"} =>
               (mHttp'.bundle = mPointer /\ mPointer # NoBundleYet) \/
               (mHttp'.bundle = mHttp.bundle /\ mHttp.at \in Looking \cup Loading \cup {"verify"}),
             \/ mCache'.runtime = mCache.runtime
             \/ mHttp.at \in Looking \cup Loading /\ (mCache'.runtime = mHttp.bundle \/
                  (mCache'.runtime = NoBundleYet /\ mVersion[mHttp.bundle] # "intact"))
      PROVE  RegistryInv' /\ Serves
  <2>1. RegistryTypes'
    BY <1>1, <1>2, <1>4 DEF RegistryTypes
  <2>2. ImportKnows'
    BY <1>4 DEF ImportKnows, ImportPlaces
  <2>3. mHttp'.at \notin Clearing
    BY <1>4 DEF ImportPlaces
  <2>4. CacheAgrees'
    <3> SUFFICES ASSUME ~mOverlap' PROVE CacheAgrees'
      BY DEF CacheAgrees
    <3>1. ~mOverlap /\ mCache.runtime \in {NoBundleYet, mPointer}
      BY <1>1, <1>2, <1>4 DEF CacheAgrees
    <3>2. mHttp.at \in Looking \cup Loading \cup {"verify"} => mHttp.bundle = mPointer /\ mPointer # NoBundleYet
      BY <1>1, <3>1 DEF CacheAgrees
    <3>3. /\ mCache'.runtime \in {NoBundleYet, mPointer}
          /\ mCamera.at = "return" /\ mVersion[mPointer] = "intact" => mCache'.runtime # NoBundleYet
      BY <1>1, <1>4, <3>1, <3>2 DEF CacheAgrees
    <3>4. mHttp'.at \in Looking \cup Loading \cup {"verify"} => mHttp'.bundle = mPointer /\ mPointer # NoBundleYet
      BY <1>4, <3>2
    <3>5. /\ mCamera.at # "idle" => mCamera.bundle = mPointer /\ mPointer # NoBundleYet
          /\ mCamera.at = "use" =>
               mCamera.runtime = mPointer \/ (mCamera.runtime = NoBundleYet /\ mVersion[mPointer] # "intact")
      BY <1>1, <3>1 DEF CacheAgrees
    <3> QED
      BY <1>2, <2>3, <3>3, <3>4, <3>5 DEF CacheAgrees
  <2>5. RegistryInv'
    BY <1>3, <1>4, <2>1, <2>2, <2>4 DEF RegistryInv
  <2> QED
    BY <1>2, <2>5, ServesLater
<1>5. ASSUME mHttp.at \notin Clearing, mHttp' \in {RegistryIdle, [RegistryIdle EXCEPT !.at = "find"]}, mCache' = mCache
      PROVE  RegistryInv' /\ Serves
  <2>1. mHttp' \in RegistryCallers /\ mHttp'.at \in {"idle", "find"}
    BY <1>5, IdleCaller
  <2>2. mHttp'.at \notin Looking \cup Loading \cup ImportPlaces \cup {"verify", "use"}
    BY <2>1 DEF Looking, Loading, ImportPlaces, Clearing
  <2>3. CallerKnows(mHttp)'
    BY <2>2 DEF CallerKnows, Looking, Loading
  <2> QED
    BY <1>2, <1>4, <1>5, <2>1, <2>2, <2>3
<1>6. CASE status_begins
  <2>1. mHttp.at \notin Clearing
    BY <1>6, IdleCaller DEF status_begins, Clearing
  <2> QED
    BY <1>5, <1>6, <2>1 DEF status_begins
<1>7. CASE mHttp.at = "find" /\ mCache' = mCache
           /\ \E b \in active_bundle :
                mHttp' = IF b = NoBundleYet THEN RegistryIdle ELSE [RegistryIdle EXCEPT !.at = "verify", !.bundle = b]
  <2>1. mHttp.at \notin Clearing
    BY <1>7 DEF Clearing
  <2>2. PICK b \in active_bundle :
          mHttp' = IF b = NoBundleYet THEN RegistryIdle ELSE [RegistryIdle EXCEPT !.at = "verify", !.bundle = b]
    BY <1>7
  <2>3. CASE b = NoBundleYet
    BY <1>5, <1>7, <2>1, <2>2, <2>3
  <2>4. CASE b # NoBundleYet
    <3>1. b = mPointer /\ b \in Bundles /\ mHttp' = [RegistryIdle EXCEPT !.at = "verify", !.bundle = b]
      BY <1>2, <2>2, <2>4, RegistryAssumption DEF active_bundle
    <3>2. "verify" \in RegistryPlaces /\ "verify" \notin ImportPlaces
      BY DEF RegistryPlaces, ImportPlaces, Clearing
    <3>3. mHttp' \in RegistryCallers /\ mHttp'.at = "verify" /\ mHttp'.bundle = b
      BY <3>1, <3>2, IdleCaller
    <3>4. CallerKnows(mHttp)'
      BY <3>1, <3>3 DEF CallerKnows
    <3> QED
      BY <1>2, <1>4, <1>7, <2>1, <2>4, <3>1, <3>2, <3>3, <3>4
  <2> QED
    BY <2>3, <2>4
<1>8. CASE mHttp.at = "verify" /\ mCache' = mCache /\ mHttp' \in {RegistryIdle, goes(mHttp, "print")}
  <2>1. mHttp.at \notin Clearing
    BY <1>8 DEF Clearing
  <2>2. CASE mHttp' = RegistryIdle
    BY <1>5, <1>8, <2>1, <2>2
  <2>3. CASE mHttp' = goes(mHttp, "print")
    <3>1. "print" \in RegistryPlaces /\ "print" \notin ImportPlaces
      BY DEF RegistryPlaces, ImportPlaces, Clearing, Looking
    <3>2. mHttp' \in RegistryCallers /\ mHttp'.at = "print" /\ mHttp'.bundle = mHttp.bundle
      BY <1>2, <2>3, <3>1, NextPlace
    <3>3. mHttp.bundle \in Bundles
      BY <1>1, <1>8 DEF CallerKnows
    <3>4. CallerKnows(mHttp)'
      BY <3>2, <3>3 DEF CallerKnows
    <3> QED
      BY <1>2, <1>4, <1>8, <2>1, <3>1, <3>2, <3>4
  <2> QED
    BY <1>8, <2>2, <2>3
<1>9. CASE /\ mHttp.at \in Looking \cup Loading
           /\ mHttp' = runtime_step(mHttp).caller /\ mCache' = runtime_step(mHttp).cache
  <2>1. StepKnows(mHttp, runtime_step(mHttp))
    BY <1>1, <1>2, <1>9, RuntimeStep
  <2>2. /\ mCache' \in Caches /\ mHttp' \in RegistryCallers
        /\ mHttp' = RegistryIdle
           \/ (mHttp'.bundle = mHttp.bundle /\ mHttp'.at \in Looking \cup Loading \cup {"use"})
        /\ \/ mCache'.runtime \in {mCache.runtime, mHttp.bundle}
           \/ mCache'.runtime = NoBundleYet /\ mVersion[mHttp.bundle] # "intact"
    BY <1>9, <2>1 DEF StepKnows
  <2>3. CallerKnows(mHttp)'
    <3>1. CallerKnows(runtime_step(mHttp).caller)
      BY <2>1 DEF StepKnows
    <3> QED
      BY <1>2, <1>9, <3>1 DEF CallerKnows
  <2>4. mHttp.at \notin Clearing
    BY <1>9 DEF Looking, Loading, Clearing
  <2>5. mHttp'.at \notin ImportPlaces
    <3>1. mHttp'.at \in Looking \cup Loading \cup {"use", "idle"}
      BY <2>2, IdleCaller
    <3> QED
      BY <3>1 DEF Looking, Loading, ImportPlaces, Clearing
  <2>6. mHttp'.at \in Looking \cup Loading \cup {"verify"} => mHttp'.bundle = mHttp.bundle
    BY <2>2, IdleCaller DEF Looking, Loading
  <2> QED
    BY <1>4, <1>9, <2>2, <2>3, <2>4, <2>5, <2>6
<1>10. CASE mHttp.at = "use" /\ mHttp' = RegistryIdle /\ mCache' = mCache
  <2>1. mHttp.at \notin Clearing
    BY <1>10 DEF Clearing
  <2> QED
    BY <1>5, <1>10, <2>1
<1> QED
  BY <1>6, <1>7, <1>8, <1>9, <1>10 DEF registry_status

\* Files are damaged, the process ends.
LEMMA RegistryOthers ==
  ASSUME RegistryInv, (\E b \in Bundles : version_damaged(b)) \/ registry_crash
  PROVE  RegistryInv' /\ Serves
<1>1. RegistryTypes /\ CallerKnows(mHttp) /\ CallerKnows(mCamera) /\ ImportKnows /\ CacheAgrees
  BY DEF RegistryInv
<1>2. /\ mVersion \in [Bundles -> Forms] /\ mPointer' = mPointer /\ mPointer \in Sound \cup {NoBundleYet}
  BY <1>1 DEF RegistryTypes, version_damaged, registry_crash
<1>3. ASSUME NEW b \in Bundles, version_damaged(b)
      PROVE  RegistryInv' /\ Serves
  <2>1. PICK form \in Spoilt : mVersion' = [mVersion EXCEPT ![b] = form]
    BY <1>3 DEF version_damaged, Spoilt
  <2>2. mVersion[b] = "intact" /\ UNCHANGED <<mPointer, mCache, mHttp, mCamera, mAnswer, mOverlap>>
    BY <1>3 DEF version_damaged
  <2>3. /\ mVersion' \in [Bundles -> Forms]
        /\ \A x \in Bundles : mVersion[x] # "intact" => mVersion'[x] = mVersion[x]
        /\ \A x \in Bundles : mVersion'[x] = mVersion[x] \/ (mVersion[x] = "intact" /\ mVersion'[x] \in Spoilt)
    BY <1>2, <2>1, <2>2 DEF Forms, Spoilt
  <2>4. \A x \in Bundles : /\ mVersion[x] # "absent" <=> mVersion'[x] # "absent"
                           /\ mVersion'[x] = "intact" => mVersion[x] = "intact"
                           /\ mVersion[x] = "damaged" => mVersion'[x] = "damaged"
                           /\ mVersion[x] \in Spoilt => mVersion'[x] \in Spoilt
    BY <2>3 DEF Spoilt
  <2>5. RegistryTypes'
    BY <1>1, <2>2, <2>3, <2>4, RegistryAssumption DEF RegistryTypes
  <2>6. CallerKnows(mHttp)' /\ CallerKnows(mCamera)'
    BY <1>1, <2>2, <2>4 DEF CallerKnows, Looking, Loading
  <2>7. ImportKnows'
    BY <1>1, <2>2, <2>4, RegistryAssumption DEF ImportKnows, CallerKnows, ImportPlaces
  <2>8. CacheAgrees'
    <3>1. mPointer # NoBundleYet /\ mVersion'[mPointer] = "intact" => mVersion[mPointer] = "intact"
      BY <1>2, <2>4, RegistryAssumption
    <3>2. mOverlap' = mOverlap /\ mHttp' = mHttp /\ mCamera' = mCamera /\ mCache' = mCache
      BY <2>2
    <3>3. mCamera.at \in {"return", "use"} => mCamera.at # "idle"
      OBVIOUS
    <3> QED
      BY <1>1, <1>2, <3>1, <3>2, <3>3 DEF CacheAgrees
  <2>9. RegistryInv'
    BY <2>5, <2>6, <2>7, <2>8 DEF RegistryInv
  <2> QED
    BY <1>2, <2>9, ServesLater
<1>4. CASE registry_crash
  <2>1. /\ mCache' = EmptyCache /\ mHttp' = RegistryIdle /\ mCamera' = RegistryIdle /\ mAnswer' = NoAnswer
        /\ mVersion' = mVersion /\ mOverlap' = FALSE
    BY <1>4 DEF registry_crash
  <2>2. /\ EmptyCache \in Caches /\ EmptyCache.runtime = NoBundleYet
        /\ NoAnswer \in Answers /\ NoAnswer.source # "REAL"
    BY DEF EmptyCache, Caches, NoAnswer, Answers
  <2>3. RegistryTypes'
    BY <1>1, <1>2, <2>1, <2>2, IdleCaller DEF RegistryTypes
  <2>4. CallerKnows(mHttp)' /\ CallerKnows(mCamera)'
    BY <2>1, IdleCaller DEF CallerKnows, Looking, Loading, ImportPlaces, Clearing
  <2>5. ImportKnows'
    BY <2>1, IdleCaller DEF ImportKnows
  <2>6. CacheAgrees'
    BY <2>1, <2>2, IdleCaller DEF CacheAgrees, Clearing, Looking, Loading
  <2>7. RegistryInv'
    BY <2>3, <2>4, <2>5, <2>6 DEF RegistryInv
  <2> QED
    BY <1>2, <2>7, ServesLater
<1> QED
  BY <1>3, <1>4

\* Whatever was interrupted before, and however the reads, stores and clears of the two
\* threads interleave: the pointer moves only to a complete version that passed every check,
\* a runtime is only ever one of a bundle that did, a call goes on only with the fingerprint
\* the files were published with and, unless a call overlapped the last import, with the
\* runtime of the bundle it asked for or, when the files have changed, none; and nothing is
\* said about a real session but by a research model (import_bundle, _runtime_for_active,
\* infer_pose_tensor).
THEOREM OnlyVerifiedServesHolds == RegistrySpec => OnlyVerifiedServes
<1>1. RegistryInit => RegistryInv
  <2> SUFFICES ASSUME RegistryInit PROVE RegistryInv
    OBVIOUS
  <2>1. /\ mVersion = [b \in Bundles |-> "absent"] /\ mPointer = NoBundleYet /\ mCache = EmptyCache
        /\ mHttp = RegistryIdle /\ mCamera = RegistryIdle /\ mAnswer = NoAnswer /\ mOverlap = FALSE
    BY DEF RegistryInit
  <2>2. /\ EmptyCache \in Caches /\ EmptyCache.runtime = NoBundleYet
        /\ NoAnswer \in Answers /\ NoAnswer.source # "REAL"
    BY DEF EmptyCache, Caches, NoAnswer, Answers
  <2>3. RegistryTypes
    BY <2>1, <2>2, IdleCaller DEF RegistryTypes, Forms
  <2>4. CallerKnows(mHttp) /\ CallerKnows(mCamera)
    BY <2>1, IdleCaller
  <2>5. ImportKnows
    BY <2>1, IdleCaller DEF ImportKnows
  <2>6. CacheAgrees
    BY <2>1, <2>2, IdleCaller DEF CacheAgrees, Clearing, Looking, Loading
  <2> QED
    BY <2>3, <2>4, <2>5, <2>6 DEF RegistryInv
<1>2. RegistryInv /\ [RegistryNext]_registryVars => RegistryInv' /\ [Serves]_registryVars
  <2> SUFFICES ASSUME RegistryInv, [RegistryNext]_registryVars
               PROVE  RegistryInv' /\ [Serves]_registryVars
    OBVIOUS
  <2>1. CASE RegistryNext
    BY <2>1, ImportSteps, InferSteps, StatusSteps, RegistryOthers DEF RegistryNext
  <2>2. CASE UNCHANGED registryVars
    <3>1. UNCHANGED <<mVersion, mPointer, mCache, mHttp, mCamera, mAnswer, mOverlap>>
      BY <2>2 DEF registryVars
    <3> QED
      BY <2>2, <3>1 DEF RegistryInv, RegistryTypes, CallerKnows, ImportKnows, CacheAgrees
  <2> QED
    BY <2>1, <2>2
<1>3. RegistrySpec => [][Serves]_registryVars
  BY <1>1, <1>2, PTL DEF RegistrySpec
<1> QED
  BY <1>3 DEF OnlyVerifiedServes, Serves
=============================================================================
