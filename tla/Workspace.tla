----------------------------- MODULE Workspace -----------------------------
(***************************************************************************)
(* The workspace (workspace_service.py): one research session is a runtime *)
(* session and an exam session, kept in two databases, tied by a link and  *)
(* driven by requests that a third table, the request ledger, makes        *)
(* repeatable.  The exam half (m1.py, domain/state.py, services/core.py    *)
(* and the routes of api/factories.py) is modelled in full; of the runtime *)
(* only the state of its session, as module ResearchRuntime moves it.      *)
(*                                                                         *)
(* Who runs concurrently.  Reviewer requests run on pool threads and hold  *)
(* the workspace lock from the ledger lookup to the ledger row: one at a   *)
(* time, `op`.  The exam routes, and the reviewer's direct start and stop  *)
(* of an exam, run on the event loop: one at a time, `loop`; they take the *)
(* workspace lock only to read the runtime's state.  The capture worker    *)
(* fails the runtime session at any time, and the process may die.         *)
(***************************************************************************)
EXTENDS Naturals, FiniteSets

CONSTANTS Runs,        \* runtime session ids
          Exams,       \* exam session ids
          Keys,        \* Idempotency-Key values of workspace requests
          AnswerKeys,  \* Idempotency-Key values of answers
          Payloads,    \* answers
          MaxCrashes,  \* bound: how often the process dies
          None

ASSUME WorkspaceBound == MaxCrashes \in Nat

VARIABLES
  rt,         \* state of the runtime session, None while it does not exist
  exam,       \* sessions.state of the exam session
  submitted,  \* sessions.submitted
  answers,    \* idempotency records of scope answer: the payload of each key
  links,      \* workspace.sqlite3, table links
  ledger,     \* workspace.sqlite3, table requests: the request of each key
  codes,      \* pairing_codes: exams whose code is not consumed (memory only)
  tokens,     \* candidate_tokens: exams a candidate is paired to (memory only)
  op,         \* the request that holds the workspace lock
  loop,       \* the handler the event loop runs
  crashes,
  stranded    \* history: the compensating stop of a start failed

stores  == <<rt, exam, submitted, answers, links, ledger>>
memory  == <<codes, tokens>>
wsVars  == <<stores, memory, op, loop, crashes, stranded>>

RtStates   == {"DRAFT", "PREFLIGHT_READY", "RECORDING", "STOPPED", "SEALED", "FAILED", "WITHDRAWN"}
ExamStates == {"DRAFT", "CONSENT_CONFIRMED", "PREFLIGHT_READY", "RECORDING", "SEALED", "FAILED",
               "WITHDRAWN"}
Started    == {"RECORDING", "SEALED", "FAILED", "WITHDRAWN"}
Actions    == {"preflight", "start", "stop", "seal", "withdraw"}

\* None stands for a value that is not there, and is none of the values
ASSUME WorkspaceNone == None \notin Runs \cup Exams \cup Payloads \cup RtStates \cup ExamStates

\* What a ledger row says was requested; the run is the answer of a create.
Request(action, r) == [action |-> action, run |-> r]
Requests == [action : Actions \cup {"create"}, run : Runs \cup {None}]

NoOp == [key |-> None, action |-> None, run |-> None, exam |-> None, snapshot |-> None,
         step |-> "none"]
Quiet == [kind |-> None, exam |-> None, seen |-> None, step |-> "none", key |-> None,
          payload |-> None]

WorkInit ==
  /\ rt = [r \in Runs |-> None]
  /\ exam = [e \in Exams |-> None]
  /\ submitted = [e \in Exams |-> FALSE]
  /\ answers = [e \in Exams |-> [k \in AnswerKeys |-> None]]
  /\ links = [r \in Runs |-> None]
  /\ ledger = [k \in Keys |-> None]
  /\ codes = {} /\ tokens = {}
  /\ op = NoOp /\ loop = Quiet
  /\ crashes = 0
  /\ stranded = {}

------------------------------------------------------------------------------
(* The exam session. *)

transition_table ==
  {<<"DRAFT", "consent", "CONSENT_CONFIRMED">>,
   <<"CONSENT_CONFIRMED", "preflight", "PREFLIGHT_READY">>,
   <<"PREFLIGHT_READY", "start", "RECORDING">>,
   <<"RECORDING", "stop", "SEALED">>}

\* The states an action leads to: one, or none when it is invalid.  Repeating the
\* action that led to a state is allowed and changes nothing.
transition(current, action) ==
  {t[3] : t \in {u \in transition_table : u[2] = action /\ current \in {u[1], u[3]}}}

apply_session_action(e, action) ==
  \E next \in transition(exam[e], action) : exam' = [exam EXCEPT ![e] = next]

Refused(e, action) == transition(exam[e], action) = {}

LinkedRun(e) == {r \in Runs : links[r] = e}

\* runtime_state: None for an exam without a link.
runtime_state(e) ==
  IF LinkedRun(e) = {} THEN None ELSE rt[CHOOSE r \in LinkedRun(e) : TRUE]

EndedStates == {"FAILED", "WITHDRAWN", "STOPPED", "SEALED"}

\* _reconcile_runtime: what an ended runtime session makes of a writable exam.
Closed(examState, runtimeState) ==
  IF examState = "RECORDING" /\ runtimeState \in EndedStates
  THEN IF runtimeState = "STOPPED" THEN "SEALED" ELSE runtimeState
  ELSE examState

Reconcile(e, seen) == exam' = [exam EXCEPT ![e] = Closed(@, seen)]

------------------------------------------------------------------------------
(* The event loop. *)

LoopKinds == {"status", "answer", "submit"}

\* candidate_pair: the code is consumed by the first use.
candidate_pair(e) ==
  /\ loop = Quiet
  /\ e \in codes
  /\ codes' = codes \ {e}
  /\ tokens' = tokens \cup {e}
  /\ UNCHANGED <<stores, op, loop, crashes, stranded>>

\* The reviewer's own route for a new exam: it has no runtime session.
create_session(e) ==
  /\ loop = Quiet
  /\ exam[e] = None
  /\ exam' = [exam EXCEPT ![e] = "DRAFT"]
  /\ codes' = codes \cup {e}
  /\ UNCHANGED <<rt, submitted, answers, links, ledger, tokens, op, loop, crashes, stranded>>

\* consent and preflight of the paired candidate.
act(e, action) ==
  /\ loop = Quiet
  /\ e \in tokens
  /\ action \in {"consent", "preflight"}
  /\ apply_session_action(e, action)
  /\ UNCHANGED <<rt, submitted, answers, links, ledger, memory, op, loop, crashes, stranded>>

\* The reviewer's own routes for an exam, which do not know of the workspace.
reviewer_session_action(e, action) ==
  /\ loop = Quiet
  /\ action \in {"start", "stop"}
  /\ apply_session_action(e, action)
  /\ UNCHANGED <<rt, submitted, answers, links, ledger, memory, op, loop, crashes, stranded>>

\* snapshot, record_answer and submit_exam first ask for the runtime's state, under
\* the workspace lock.
handler_begin(e, kind, k, v) ==
  /\ loop = Quiet
  /\ op = NoOp
  /\ exam[e] # None
  /\ e \in tokens
  /\ kind \in LoopKinds
  /\ kind # "answer" => k = None /\ v = None
  /\ loop' = [kind |-> kind, exam |-> e, seen |-> runtime_state(e), step |-> "reconcile",
              key |-> k, payload |-> v]
  /\ UNCHANGED <<stores, memory, op, crashes, stranded>>

\* mutant: the request does not close what the runtime ended
handler_trusts ==
  /\ loop.step = "reconcile"
  /\ loop' = IF loop.kind = "status" THEN Quiet ELSE [loop EXCEPT !.step = "act"]
  /\ UNCHANGED <<stores, memory, op, crashes, stranded>>

\* ... then close the exam in a transaction of its own.
handler_reconcile ==
  /\ loop.step = "reconcile"
  /\ Reconcile(loop.exam, loop.seen)
  /\ loop' = IF loop.kind = "status" THEN Quiet ELSE [loop EXCEPT !.step = "act"]
  /\ UNCHANGED <<rt, submitted, answers, links, ledger, memory, op, crashes, stranded>>

Writable(e) == exam[e] = "RECORDING" /\ ~ submitted[e]

\* record_answer: a known key answers as before or conflicts, and writes nothing.
record_answer ==
  /\ loop.step = "act"
  /\ loop.kind = "answer"
  /\ LET e == loop.exam IN
       answers' = IF answers[e][loop.key] = None /\ Writable(e)
                  THEN [answers EXCEPT ![e][loop.key] = loop.payload]
                  ELSE answers
  /\ loop' = Quiet
  /\ UNCHANGED <<rt, exam, submitted, links, ledger, memory, op, crashes, stranded>>

\* submit_exam: a repeated key answers as before; another key conflicts.
submit_exam ==
  /\ loop.step = "act"
  /\ loop.kind = "submit"
  /\ submitted' = [submitted EXCEPT ![loop.exam] = @ \/ Writable(loop.exam)]
  /\ loop' = Quiet
  /\ UNCHANGED <<rt, exam, answers, links, ledger, memory, op, crashes, stranded>>

------------------------------------------------------------------------------
(* Workspace requests, on a pool thread. *)

\* _once: a key with a row answers from it, or conflicts; nothing is done again.
\* Keys without a row are all alike, also one whose request was lost: one stands for all.
Begin(k, action, r) ==
  /\ op = NoOp
  /\ ledger[k] = None /\ k = CHOOSE j \in Keys : ledger[j] = None
  /\ op' = [NoOp EXCEPT !.key = k, !.action = action, !.run = r, !.step = "begin"]
  /\ UNCHANGED <<stores, memory, loop, crashes, stranded>>

At(action, step) == op.action = action /\ op.step = step
Goto(step) == op' = [op EXCEPT !.step = step]

\* A new session gets a fresh identifier.
create_runtime(r) ==
  /\ At("create", "begin")
  /\ rt[r] = None /\ r = CHOOSE s \in Runs : rt[s] = None
  /\ rt' = [rt EXCEPT ![r] = "DRAFT"]
  /\ op' = [op EXCEPT !.run = r, !.step = "exam"]
  /\ UNCHANGED <<exam, submitted, answers, links, ledger, memory, loop, crashes, stranded>>

create_exam(e) ==
  /\ At("create", "exam")
  /\ exam[e] = None
  /\ exam' = [exam EXCEPT ![e] = "DRAFT"]
  /\ codes' = codes \cup {e}
  /\ op' = [op EXCEPT !.exam = e, !.step = "link"]
  /\ UNCHANGED <<rt, submitted, answers, links, ledger, tokens, loop, crashes, stranded>>

create_link ==
  /\ At("create", "link")
  /\ links' = [links EXCEPT ![op.run] = op.exam]
  /\ Goto("row")
  /\ UNCHANGED <<rt, exam, submitted, answers, ledger, memory, loop, crashes, stranded>>

\* action: the link is looked up and the exam's snapshot taken (which reconciles).
action_begin ==
  /\ op.step = "begin"
  /\ op.action \in Actions
  /\ links[op.run] # None
  /\ LET e == links[op.run] IN
       /\ Reconcile(e, rt[op.run])
       /\ op' = [op EXCEPT !.exam = e, !.snapshot = Closed(exam[e], rt[op.run]),
                           !.step = "runtime"]
  /\ UNCHANGED <<rt, submitted, answers, links, ledger, memory, loop, crashes, stranded>>

Move(r, to) == rt' = [rt EXCEPT ![r] = to]

\* What a call of the runtime does to its session (see module ResearchRuntime).
CanStart(r) == rt[r] = "PREFLIGHT_READY" /\ \A s \in Runs : rt[s] # "RECORDING"

runtime_call ==
  /\ op.step = "runtime"
  /\ LET r == op.run IN
       \/ /\ op.action = "preflight" /\ rt[r] = "DRAFT"
          /\ \E to \in {"PREFLIGHT_READY", "FAILED"} : Move(r, to)
          /\ Goto("row")
       \/ /\ op.action = "start" /\ op.snapshot = "PREFLIGHT_READY"
          /\ CanStart(r) /\ Move(r, "RECORDING")
          /\ Goto("exam")
       \/ /\ op.action \in {"stop", "seal"}
          /\ IF rt[r] = "RECORDING" THEN Move(r, "STOPPED") ELSE UNCHANGED rt
          /\ Goto("exam")
       \/ /\ op.action = "withdraw" /\ rt[r] \notin {"DRAFT", "WITHDRAWN"}
          /\ Move(r, "WITHDRAWN")
          /\ Goto("exam")
  /\ UNCHANGED <<exam, submitted, answers, links, ledger, memory, loop, crashes, stranded>>

\* The same calls, raising: a start may leave the session FAILED, a stop or a
\* withdrawal that times out too.
runtime_raises ==
  /\ op.step = "runtime"
  /\ \/ UNCHANGED rt
     \/ op.action = "start" /\ op.snapshot = "PREFLIGHT_READY" /\ CanStart(op.run)
          /\ Move(op.run, "FAILED")
     \/ op.action \in {"stop", "seal", "withdraw"} /\ rt[op.run] = "RECORDING"
          /\ Move(op.run, "FAILED")
  /\ op' = NoOp
  /\ UNCHANGED <<exam, submitted, answers, links, ledger, memory, loop, crashes, stranded>>

\* The exam follows the runtime; what the snapshot said decides whether it does.
exam_step ==
  /\ op.step = "exam"
  /\ op.action \in Actions
  /\ \/ /\ op.action = "start"
        /\ apply_session_action(op.exam, "start")
     \/ /\ op.action # "start"
        /\ IF op.snapshot = "RECORDING" THEN apply_session_action(op.exam, "stop")
                                        ELSE UNCHANGED exam
  /\ IF op.action = "seal" THEN Goto("seal") ELSE Goto("row")
  /\ UNCHANGED <<rt, submitted, answers, links, ledger, memory, loop, crashes, stranded>>

\* mutant: the exception of the exam is passed on and nothing is undone
start_uncompensated ==
  /\ At("start", "exam")
  /\ op' = NoOp
  /\ UNCHANGED <<stores, memory, loop, crashes, stranded>>

\* The exam refused, or its database raised: the collection is stopped again, and
\* that stop may raise itself.
start_compensates ==
  /\ At("start", "exam")
  /\ IF rt[op.run] = "RECORDING"
     THEN \/ Move(op.run, "STOPPED") /\ UNCHANGED stranded
          \/ Move(op.run, "FAILED") /\ UNCHANGED stranded
          \/ UNCHANGED rt /\ stranded' = stranded \cup {op.run}
     ELSE UNCHANGED <<rt, stranded>>
  /\ op' = NoOp
  /\ UNCHANGED <<exam, submitted, answers, links, ledger, memory, loop, crashes>>

\* A stop or a withdrawal whose exam refuses or whose database raises.
exam_raises ==
  /\ op.step = "exam"
  /\ op.action \in {"stop", "seal", "withdraw"}
  /\ op' = NoOp
  /\ UNCHANGED <<stores, memory, loop, crashes, stranded>>

seal_step ==
  /\ op.step = "seal"
  /\ \/ rt[op.run] = "STOPPED" /\ Move(op.run, "SEALED") /\ Goto("row")
     \/ UNCHANGED rt /\ op' = NoOp
  /\ UNCHANGED <<exam, submitted, answers, links, ledger, memory, loop, crashes, stranded>>

\* mutant: the row is written before the operation
row_early ==
  /\ op.step \in {"runtime", "row"}
  /\ ledger' = [ledger EXCEPT ![op.key] = Request(op.action, op.run)]
  /\ op' = IF op.step = "row" THEN NoOp ELSE op
  /\ UNCHANGED <<rt, exam, submitted, answers, links, memory, loop, crashes, stranded>>

\* detail (which takes a snapshot, so reconciles) and the row, the last thing done.
row_step ==
  /\ op.step = "row"
  /\ Reconcile(links[op.run], rt[op.run])
  /\ ledger' = [ledger EXCEPT ![op.key] = Request(op.action, op.run)]
  /\ op' = NoOp
  /\ UNCHANGED <<rt, submitted, answers, links, memory, loop, crashes, stranded>>

\* Any step may raise before it has an effect: no row, and the lock is released.
\* Before its link a create has only left sessions nobody can reach.
request_raises ==
  /\ op.step \in {"begin", "row", "link"} \/ At("create", "exam")
  /\ op' = NoOp
  /\ UNCHANGED <<stores, memory, loop, crashes, stranded>>

------------------------------------------------------------------------------
(* The capture worker, a crash, and the restart with the runtime's recovery. *)

worker_fails(r) ==
  /\ rt[r] = "RECORDING"
  /\ Move(r, "FAILED")
  /\ UNCHANGED <<exam, submitted, answers, links, ledger, memory, op, loop, crashes, stranded>>

Crash ==
  /\ crashes < MaxCrashes
  /\ crashes' = crashes + 1
  /\ rt' = [r \in Runs |-> IF rt[r] = "RECORDING" THEN "FAILED" ELSE rt[r]]
  /\ codes' = {} /\ tokens' = {}
  /\ op' = NoOp /\ loop' = Quiet
  /\ UNCHANGED <<exam, submitted, answers, links, ledger, stranded>>

------------------------------------------------------------------------------

OpStep == \/ \E r \in Runs : create_runtime(r)
          \/ \E e \in Exams : create_exam(e)
          \/ create_link \/ action_begin \/ runtime_call \/ runtime_raises \/ exam_step
          \/ start_compensates \/ exam_raises \/ seal_step \/ row_step \/ request_raises

LoopStep == \/ \E e \in Exams : candidate_pair(e) \/ create_session(e)
            \/ \E e \in Exams, a \in {"consent", "preflight"} : act(e, a)
            \/ \E e \in Exams, a \in {"start", "stop"} : reviewer_session_action(e, a)
            \/ \E e \in Exams, k \in AnswerKeys, v \in Payloads : handler_begin(e, "answer", k, v)
            \/ \E e \in Exams, kind \in {"status", "submit"} : handler_begin(e, kind, None, None)
            \/ handler_reconcile \/ record_answer \/ submit_exam

WorkNext ==
  \/ \E k \in Keys : Begin(k, "create", None)
  \/ \E k \in Keys, r \in Runs, a \in Actions : rt[r] # None /\ Begin(k, a, r)
  \/ OpStep \/ LoopStep
  \/ \E r \in Runs : worker_fails(r)
  \/ Crash

WorkSpec == WorkInit /\ [][WorkNext]_wsVars

------------------------------------------------------------------------------
(* Properties. *)

\* _once writes the row last, so a row never promises what did not happen, wherever
\* the process died: the session of a create is linked to an exam, an exam whose
\* start has a row was started and so was its collection, and a withdrawal with a
\* row holds.
LedgerTruthful ==
  \A k \in Keys : ledger[k] # None =>
    LET r == ledger[k].run IN
      /\ links[r] # None /\ exam[links[r]] # None
      /\ ledger[k].action = "start" =>
           exam[links[r]] \in Started /\ rt[r] \notin {"DRAFT", "PREFLIGHT_READY"}
      /\ ledger[k].action = "withdraw" => rt[r] = "WITHDRAWN"

\* action "start" begins the collection before the exam and stops it again when the
\* exam refuses: once the request is over, a camera runs only for an exam that was
\* started, unless the compensating stop failed as well.
NoCaptureWithoutExam ==
  \A r \in Runs :
    rt[r] = "RECORDING" /\ ~ (op.run = r /\ At("start", "exam")) =>
      r \in stranded \/ exam[links[r]] \in Started

\* _reconcile_runtime: an exam whose runtime session had ended when the request read
\* its state accepts no answer and no submission, although the exam was still
\* RECORDING then ("close its writable state when capture fails or ends").
NoAnswerAfterCapture ==
  [][\A e \in Exams :
       answers'[e] # answers[e] \/ submitted'[e] # submitted[e] => loop.seen \notin EndedStates]_wsVars
============================================================================
