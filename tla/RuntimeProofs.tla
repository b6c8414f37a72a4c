---------------------------- MODULE RuntimeProofs ----------------------------
(***************************************************************************)
(* Proofs about the collection runtime: one camera at a time, sealed       *)
(* sessions intact, withdrawals complete and final, for any sets of        *)
(* sessions and exports and wherever the process dies.                     *)
(***************************************************************************)
EXTENDS ResearchRuntime, FiniteSetTheorems, TLAPS

\* Everything has its type; how often a receipt was recorded is part of Holding.
RuntimeTypes ==
  /\ state \in [Sessions -> States \cup {None}]
  /\ locked \in [Sessions -> BOOLEAN]
  /\ manifest \in [Sessions -> BOOLEAN]
  /\ exports \in [Sessions -> SUBSET Exports]
  /\ tasks \in [Sessions -> SUBSET Exports]
  /\ receipts \in [Sessions -> Nat]
  /\ files \in [Sessions -> SUBSET (Names \X Forms)]
  /\ dir \in [Sessions -> {"none", "live", "gone", "quarantined"}]
  /\ authority \in Records \cup {None}
  /\ up \in BOOLEAN
  /\ worker \in [Sessions -> {"none", "loop", "ingest", "after", "fault", "dead"}]
  /\ registered \in [Sessions -> BOOLEAN]
  /\ stream \in [Sessions -> BOOLEAN]
  /\ op \in Ops
  /\ interrupted \in [Sessions -> BOOLEAN]
  /\ erasing \in [Sessions -> BOOLEAN]

\* A live worker is registered, so that a join waits for it, and its session is a real one
\* that records or has failed; a writer is open only while the session records; neither outlives the process.
Capturing(s) ==
  /\ Alive(s) => s \in Real /\ up /\ registered[s] /\ state[s] \in {"RECORDING", "FAILED"}
  /\ stream[s] => up /\ state[s] = "RECORDING"

\* The rows of a session against its files and its history.
Holding(s) ==
  /\ state[s] # None => dir[s] # "none"
  /\ state[s] = "SEALED" => erasing[s] \/ verify_artifacts(s)
  /\ interrupted[s] => state[s] \in {"FAILED", "WITHDRAWN"} \/ (state[s] = "RECORDING" /\ ~ up)
  /\ state[s] = "WITHDRAWN" => dir[s] \in {"gone", "quarantined"}
  /\ s \in Real => IF state[s] = "WITHDRAWN" THEN receipts[s] = 1 /\ exports[s] = tasks[s]
                   ELSE receipts[s] = 0 /\ tasks[s] = {}

\* An operation in progress works on a session that only its own steps take further;
\* once it has joined the worker, nobody writes there.
OpSound ==
  /\ op.kind # "idle" => op.session \in Sessions /\ (up <=> op.kind # "recover")
  /\ op.kind = "stop" /\ op.step = "files" => state[op.session] = "RECORDING"
  /\ op.kind = "withdraw" => /\ state[op.session] \notin {None, "DRAFT", "WITHDRAWN"}
                             /\ op.step = "files" => erasing[op.session]
  /\ op.kind \in {"stop", "withdraw"} /\ op.step = "files" => ~ Alive(op.session) /\ ~ stream[op.session]
  /\ op.kind = "export" => state[op.session] = "SEALED"
  /\ op.kind = "recover" => state[op.session] = "RECORDING"

RuntimeInv ==
  /\ RuntimeTypes
  /\ SingleCamera
  /\ \A s \in Sessions : Capturing(s) /\ Holding(s)
  /\ OpSound

\* What the invariant reads of a session does not change.
Same(t) ==
  /\ state'[t] = state[t] /\ manifest'[t] = manifest[t] /\ exports'[t] = exports[t] /\ tasks'[t] = tasks[t]
  /\ receipts'[t] = receipts[t] /\ files'[t] = files[t] /\ dir'[t] = dir[t]
  /\ worker'[t] = worker[t] /\ registered'[t] = registered[t] /\ stream'[t] = stream[t]
  /\ interrupted'[t] = interrupted[t] /\ erasing'[t] = erasing[t]

-----------------------------------------------------------------------------

\* The resting operation is one of Ops and is at no step.
LEMMA IdleRests == Idle \in Ops /\ Idle.kind = "idle" /\ Idle.step = "none"
BY DEF Idle, Ops

\* A request that is entered.
LEMMA BusyFields ==
  ASSUME NEW kind \in {"idle", "stop", "withdraw", "export", "recover"}, NEW s \in Sessions,
         NEW step \in {"none", "join", "build", "files", "commit"},
         NEW decision \in Decisions \cup {None}, NEW rest \in SUBSET (Names \X Forms)
  PROVE  LET b == Busy(kind, s, step, decision, rest)
         IN b \in Ops /\ b.kind = kind /\ b.session = s /\ b.step = step
BY DEF Busy, Ops

\* What a copy or a flush leaves behind of a session keeps the types.
LEMMA PartialsTyped ==
  /\ Partials \in SUBSET (Names \X Forms)
  /\ Opened \subseteq SUBSET (Names \X Forms)
  /\ \A n \in Names, f \in Forms : <<n, f>> \in Names \X Forms
  /\ "video" \in Names /\ "pose" \in Names /\ {"partial", "final", "quarantined", "requarantined"} = Forms
<1>1. Partials \in SUBSET (Names \X Forms)
  BY DEF Partials, Forms
<1>2. <<"video", "partial">> \in Names \X Forms
  BY DEF Names, Forms
<1> QED
  BY <1>1, <1>2 DEF Opened, Names, Forms

\* What a step leaves alone in a session keeps the session sound.
LEMMA SessionFrame ==
  ASSUME NEW t \in Sessions, Capturing(t), Holding(t), Same(t), up' = up
  PROVE  Capturing(t)' /\ Holding(t)' /\ (Alive(t)' <=> Alive(t))
<1>1. (Alive(t)' <=> Alive(t)) /\ (verify_artifacts(t)' <=> verify_artifacts(t))
  BY DEF Same, Alive, verify_artifacts
<1>2. Capturing(t)'
  BY <1>1 DEF Same, Capturing
<1>3. Holding(t)'
  BY <1>1 DEF Same, Holding
<1> QED
  BY <1>1, <1>2, <1>3

\* A step of one session.
LEMMA OneSession ==
  ASSUME RuntimeInv, NEW s \in Sessions, RuntimeTypes', OpSound', up' = up,
         \A t \in Sessions \ {s} : Same(t),
         Capturing(s)', Holding(s)',
         Alive(s)' => Alive(s) \/ \A t \in Sessions : ~ Alive(t)
  PROVE  RuntimeInv'
<1>1. \A t \in Sessions \ {s} : Capturing(t)' /\ Holding(t)' /\ (Alive(t)' <=> Alive(t))
  BY SessionFrame DEF RuntimeInv
<1>2. SingleCamera'
  BY <1>1 DEF RuntimeInv, SingleCamera
<1> QED
  BY <1>1, <1>2 DEF RuntimeInv

\* A step of no session.
LEMMA NoSession ==
  ASSUME RuntimeInv, RuntimeTypes', OpSound', up' = up, \A t \in Sessions : Same(t)
  PROVE  RuntimeInv'
<1>1. \A t \in Sessions : Capturing(t)' /\ Holding(t)' /\ (Alive(t)' <=> Alive(t))
  BY SessionFrame DEF RuntimeInv
<1>2. SingleCamera'
  BY <1>1 DEF RuntimeInv, SingleCamera
<1> QED
  BY <1>1, <1>2 DEF RuntimeInv

\* An operation whose session the step leaves alone, or that only its join waits for.
LEMMA OpFrame ==
  ASSUME RuntimeInv, op' = op, up' = up,
         op.kind # "idle" =>
           \/ Same(op.session)
           \/ /\ op.step # "files" /\ op.kind # "export" /\ op.kind # "recover"
              /\ state'[op.session] \notin {None, "DRAFT", "WITHDRAWN"}
  PROVE  OpSound'
<1>0. OpSound
  BY DEF RuntimeInv
<1>1. Same(op.session) => (Alive(op.session)' <=> Alive(op.session))
  BY DEF Same, Alive
<1> QED
  BY <1>0, <1>1 DEF OpSound, Same

\* Nobody holds the lock afterwards.
LEMMA OpEnds == ASSUME op' = Idle PROVE OpSound'
BY IdleRests DEF OpSound

\* Sessions are created, preflighted and started by requests.
LEMMA StartSteps ==
  ASSUME RuntimeInv, NEW s \in Sessions,
         create_session(s) \/ preflight(s) \/ start_real_collection(s) \/ start_synthetic_demo(s)
  PROVE  RuntimeInv'
<1>0. RuntimeTypes /\ Capturing(s) /\ Holding(s) /\ (\A t \in Sessions : Capturing(t)) /\ up /\ op = Idle
  BY DEF RuntimeInv, create_session, preflight, start_real_collection, start_synthetic_demo, Request
<1>o. op' = op => op' = Idle
  BY <1>0
<1>1. CASE create_session(s)
  <2>1. /\ state[s] = None /\ state' = [state EXCEPT ![s] = "DRAFT"] /\ dir' = [dir EXCEPT ![s] = "live"]
        /\ UNCHANGED <<authority, locked, manifest, exports, tasks, receipts, files, up, worker, registered, stream,
                       op, interrupted, erasing>>
    BY <1>1 DEF create_session, native, threads, history
  <2>2. RuntimeTypes'
    BY <1>0, <2>1 DEF RuntimeTypes, States
  <2>3. state'[s] = "DRAFT" /\ dir'[s] = "live" /\ \A t \in Sessions \ {s} : Same(t)
    BY <1>0, <2>1 DEF RuntimeTypes, Same
  <2>4. state[s] \notin {"RECORDING", "FAILED", "WITHDRAWN"}
    BY <2>1, StatesNone DEF States
  <2>5. ~ Alive(s)' /\ Capturing(s)'
    BY <1>0, <2>1, <2>4 DEF Capturing, Alive
  <2>6. Holding(s)'
    BY <1>0, <2>1, <2>3, <2>4 DEF Holding
  <2> QED
    BY <1>o, <2>1, <2>2, <2>3, <2>5, <2>6, OpEnds, OneSession
<1>2. CASE preflight(s)
  <2>1. PICK result \in {"PREFLIGHT_READY", "FAILED"} :
        /\ state[s] = "DRAFT" /\ state' = [state EXCEPT ![s] = result]
        /\ UNCHANGED <<authority, locked, manifest, exports, tasks, receipts, files, dir, up, worker, registered, stream,
                       op, interrupted, erasing>>
    BY <1>2 DEF preflight, disk, native, threads, history
  <2>2. RuntimeTypes'
    BY <1>0, <2>1 DEF RuntimeTypes, States
  <2>3. state'[s] = result /\ \A t \in Sessions \ {s} : Same(t)
    BY <1>0, <2>1 DEF RuntimeTypes, Same
  <2>5. ~ Alive(s)' /\ Capturing(s)'
    BY <1>0, <2>1 DEF Capturing, Alive
  <2>6. Holding(s)'
    BY <1>0, <2>1, <2>3, StatesNone DEF Holding, States
  <2> QED
    BY <1>o, <2>1, <2>2, <2>3, <2>5, <2>6, OpEnds, OneSession
<1>3. CASE start_real_collection(s)
  <2>1. /\ state[s] = "PREFLIGHT_READY" /\ assert_no_active_collection /\ s \in Real
        /\ state' = [state EXCEPT ![s] = "RECORDING"] /\ worker' = [worker EXCEPT ![s] = "loop"]
        /\ registered' = [registered EXCEPT ![s] = TRUE]
        /\ UNCHANGED <<authority, locked, manifest, exports, tasks, receipts, files, dir, up, stream, op, interrupted, erasing>>
    BY <1>3 DEF start_real_collection, disk, native, history
  <2>2. RuntimeTypes'
    BY <1>0, <2>1 DEF RuntimeTypes, States
  <2>3. /\ state'[s] = "RECORDING" /\ registered'[s] = TRUE
        /\ \A t \in Sessions \ {s} : Same(t)
    BY <1>0, <2>1 DEF RuntimeTypes, Same
  <2>4. \A t \in Sessions : ~ Alive(t)
    BY <1>0, <2>1 DEF assert_no_active_collection, Capturing
  <2>5. Capturing(s)'
    BY <1>0, <2>1, <2>3 DEF Capturing
  <2>6. Holding(s)'
    BY <1>0, <2>1, <2>3, StatesNone DEF Holding, States
  <2> QED
    BY <1>o, <2>1, <2>2, <2>3, <2>4, <2>5, <2>6, OpEnds, OneSession
<1>4. CASE start_synthetic_demo(s)
  <2>1. PICK result \in {"RECORDING", "FAILED"}, created \in Opened \cup {Partials}, open \in BOOLEAN :
        /\ state[s] = "PREFLIGHT_READY"
        /\ state' = [state EXCEPT ![s] = result] /\ files' = [files EXCEPT ![s] = @ \cup created]
        /\ \/ result = "RECORDING" /\ stream' = [stream EXCEPT ![s] = TRUE]
           \/ result = "FAILED" /\ UNCHANGED stream
        /\ UNCHANGED <<authority, locked, manifest, exports, tasks, receipts, dir, up, worker, registered, op, interrupted, erasing>>
    BY <1>4, ZenonT(30) DEF start_synthetic_demo, Write, native, history
  <2>2. created \in SUBSET (Names \X Forms)
    BY PartialsTyped
  <2>3. RuntimeTypes'
    BY <1>0, <2>1, <2>2 DEF RuntimeTypes, States
  <2>4. state'[s] = result /\ (result = "FAILED" => stream'[s] = stream[s]) /\ \A t \in Sessions \ {s} : Same(t)
    BY <1>0, <2>1 DEF RuntimeTypes, Same
  <2>5. ~ Alive(s)' /\ Capturing(s)'
    BY <1>0, <2>1, <2>4 DEF Capturing, Alive
  <2>6. Holding(s)'
    BY <1>0, <2>1, <2>4, StatesNone DEF Holding, States
  <2> QED
    BY <1>o, <2>1, <2>3, <2>4, <2>5, <2>6, OpEnds, OneSession
<1> QED
  BY <1>1, <1>2, <1>3, <1>4

\* A step of a live capture worker: at most it fails its own recording.
LEMMA WorkerMoves ==
  ASSUME RuntimeInv, NEW s \in Sessions, Alive(s), RuntimeTypes', op' = op, up' = up,
         \A t \in Sessions \ {s} : Same(t),
         manifest'[s] = manifest[s], exports'[s] = exports[s], tasks'[s] = tasks[s], receipts'[s] = receipts[s],
         dir'[s] = dir[s], registered'[s] = registered[s], interrupted'[s] = interrupted[s], erasing'[s] = erasing[s],
         state'[s] = state[s] \/ (state[s] = "RECORDING" /\ state'[s] = "FAILED"),
         stream'[s] => state'[s] = "RECORDING"
  PROVE  RuntimeInv'
<1>0. RuntimeTypes /\ Capturing(s) /\ Holding(s) /\ OpSound
  BY DEF RuntimeInv
<1>1. /\ s \in Real /\ up /\ registered[s]
      /\ state[s] \in {"RECORDING", "FAILED"} /\ state'[s] \in {"RECORDING", "FAILED"}
  BY <1>0 DEF Capturing
<1>2. op.kind # "idle" /\ op.session = s =>
        /\ op.step # "files" \/ op.kind \notin {"stop", "withdraw"}
        /\ op.kind # "export" /\ op.kind # "recover"
  BY <1>0, <1>1 DEF OpSound
<1>3. OpSound'
  <2>1. CASE op.kind = "idle" \/ op.session # s
    BY <1>0, <2>1, OpFrame DEF OpSound
  <2>2. CASE op.kind # "idle" /\ op.session = s
    BY <1>0, <1>1, <1>2, <2>2, StatesNone DEF OpSound, States
  <2> QED
    BY <2>1, <2>2
<1>4. Capturing(s)'
  BY <1>1 DEF Capturing
<1>5. Holding(s)'
  BY <1>0, <1>1, StatesNone DEF Holding, States
<1> QED
  BY <1>3, <1>4, <1>5, OneSession

\* Every step of the capture worker keeps the invariant (_run_camera_worker).
LEMMA WorkerSteps ==
  ASSUME RuntimeInv, NEW s \in Sessions, WorkerStep(s)
  PROVE  RuntimeInv'
<1>0. RuntimeTypes /\ Capturing(s)
  BY DEF RuntimeInv
<1>a. Alive(s) /\ up /\ state[s] \in {"RECORDING", "FAILED"}
  BY <1>0 DEF Capturing, WorkerStep, worker_loop, ingest_frame, worker_after, worker_fault, Alive
<1>1. CASE worker_loop(s) \/ worker_after(s)
  <2>1. PICK pc \in {"loop", "ingest", "fault", "dead"} : worker' = [worker EXCEPT ![s] = pc]
    BY <1>1 DEF worker_loop, worker_after, WorkerGoes
  <2>2. UNCHANGED <<state, authority, locked, manifest, exports, tasks, receipts, files, dir, up, registered, stream,
                    op, interrupted, erasing>>
    BY <1>1 DEF worker_loop, worker_after, database, disk, native, history
  <2>3. RuntimeTypes' /\ \A t \in Sessions \ {s} : Same(t)
    BY <1>0, <2>1, <2>2 DEF RuntimeTypes, Same
  <2>4. stream'[s] => state'[s] = "RECORDING"
    BY <1>0, <2>2 DEF Capturing
  <2> QED
    BY <1>a, <2>2, <2>3, <2>4, WorkerMoves
<1>2. CASE ingest_frame(s)
  <2>1. PICK pc \in {"dead", "after", "fault"}, result \in {"RECORDING", "FAILED"}, created \in SUBSET (Names \X Forms),
             open \in BOOLEAN :
          /\ worker' = [worker EXCEPT ![s] = pc] /\ files' = [files EXCEPT ![s] = @ \cup created]
          /\ state' = [state EXCEPT ![s] = result] /\ stream' = [stream EXCEPT ![s] = open]
          /\ result = "FAILED" \/ (result = state[s] /\ state[s] = "RECORDING")
          /\ open => result = "RECORDING"
          /\ result # state[s] => state[s] = "RECORDING"
    <3>1. CASE state[s] # "RECORDING"
      <4>1. worker' = [worker EXCEPT ![s] = "dead"] /\ UNCHANGED <<state, files, stream>>
        BY <1>2, <3>1 DEF ingest_frame, WorkerGoes
      <4>2. stream[s] = FALSE /\ state[s] = "FAILED"
        BY <1>0, <1>a, <3>1 DEF Capturing, RuntimeTypes
      <4>3. /\ files' = [files EXCEPT ![s] = @ \cup {}] /\ state' = [state EXCEPT ![s] = "FAILED"]
            /\ stream' = [stream EXCEPT ![s] = FALSE]
        BY <1>0, <4>1, <4>2 DEF RuntimeTypes
      <4>4. {} \in SUBSET (Names \X Forms)
        OBVIOUS
      <4> QED
        BY <4>1, <4>2, <4>3, <4>4, Zenon
    <3>2. CASE state[s] = "RECORDING"
      <4>1. \/ /\ files' = [files EXCEPT ![s] = @ \cup Partials] /\ stream' = [stream EXCEPT ![s] = TRUE]
               /\ worker' = [worker EXCEPT ![s] = "after"] /\ UNCHANGED state
            \/ /\ state' = [state EXCEPT ![s] = "FAILED"] /\ stream' = [stream EXCEPT ![s] = FALSE]
               /\ \E created \in Opened : files' = [files EXCEPT ![s] = @ \cup created]
               /\ worker' = [worker EXCEPT ![s] = "after"]
            \/ /\ stream' = [stream EXCEPT ![s] = FALSE] /\ worker' = [worker EXCEPT ![s] = "fault"] /\ UNCHANGED state
               /\ \E created \in Opened : files' = [files EXCEPT ![s] = @ \cup created]
        BY <1>2, <3>2, ZenonT(30) DEF ingest_frame, Write, WorkerGoes, Fail
      <4>2. state' = state => state' = [state EXCEPT ![s] = "RECORDING"]
        BY <1>0, <3>2 DEF RuntimeTypes
      <4>3. Partials \in SUBSET (Names \X Forms) /\ Opened \subseteq SUBSET (Names \X Forms)
        BY PartialsTyped
      <4> HIDE DEF Partials, Opened
      <4>4. CASE /\ files' = [files EXCEPT ![s] = @ \cup Partials] /\ stream' = [stream EXCEPT ![s] = TRUE]
                 /\ worker' = [worker EXCEPT ![s] = "after"] /\ UNCHANGED state
        BY <3>2, <4>2, <4>3, <4>4
      <4>5. CASE /\ state' = [state EXCEPT ![s] = "FAILED"] /\ stream' = [stream EXCEPT ![s] = FALSE]
                 /\ \E created \in Opened : files' = [files EXCEPT ![s] = @ \cup created]
                 /\ worker' = [worker EXCEPT ![s] = "after"]
        BY <3>2, <4>3, <4>5
      <4>6. CASE /\ stream' = [stream EXCEPT ![s] = FALSE] /\ worker' = [worker EXCEPT ![s] = "fault"] /\ UNCHANGED state
                 /\ \E created \in Opened : files' = [files EXCEPT ![s] = @ \cup created]
        BY <3>2, <4>2, <4>3, <4>6
      <4> QED
        BY <4>1, <4>4, <4>5, <4>6
    <3> QED
      BY <3>1, <3>2
  <2>2. UNCHANGED <<authority, locked, manifest, exports, tasks, receipts, dir, up, registered, op, interrupted, erasing>>
    BY <1>2 DEF ingest_frame, native, history
  <2>3. RuntimeTypes' /\ \A t \in Sessions \ {s} : Same(t)
    BY <1>0, <2>1, <2>2 DEF RuntimeTypes, Same, States
  <2>4. /\ state'[s] = result /\ stream'[s] = open
        /\ result = state[s] \/ (state[s] = "RECORDING" /\ result = "FAILED")
    BY <1>0, <2>1 DEF RuntimeTypes
  <2> QED
    BY <1>a, <2>1, <2>2, <2>3, <2>4, WorkerMoves
<1>3. CASE worker_fault(s)
  <2>1. PICK result \in {"RECORDING", "FAILED"}, open \in BOOLEAN :
          /\ worker' = [worker EXCEPT ![s] = "dead"]
          /\ state' = [state EXCEPT ![s] = result] /\ stream' = [stream EXCEPT ![s] = open]
          /\ open => result = "RECORDING"
          /\ result # state[s] => state[s] = "RECORDING"
    <3>1. state' = state => state' = [state EXCEPT ![s] = state[s]]
      BY <1>0 DEF RuntimeTypes
    <3>2. stream' = stream => stream' = [stream EXCEPT ![s] = stream[s]] /\ stream[s] \in BOOLEAN
      BY <1>0 DEF RuntimeTypes
    <3>3. /\ worker' = [worker EXCEPT ![s] = "dead"]
          /\ \/ state[s] = "RECORDING" /\ state' = [state EXCEPT ![s] = "FAILED"] /\ stream' = [stream EXCEPT ![s] = FALSE]
             \/ state[s] = "RECORDING" /\ stream' = [stream EXCEPT ![s] = FALSE] /\ UNCHANGED state
             \/ state[s] # "RECORDING" /\ UNCHANGED <<state, stream>>
      BY <1>3 DEF worker_fault, WorkerGoes, Fail
    <3>4. CASE state[s] = "RECORDING" /\ state' = [state EXCEPT ![s] = "FAILED"] /\ stream' = [stream EXCEPT ![s] = FALSE]
      BY <3>3, <3>4
    <3>5. CASE state[s] = "RECORDING" /\ stream' = [stream EXCEPT ![s] = FALSE] /\ UNCHANGED state
      BY <3>1, <3>3, <3>5
    <3>6. CASE state[s] # "RECORDING" /\ UNCHANGED <<state, stream>>
      BY <1>0, <1>a, <3>1, <3>2, <3>3, <3>6 DEF Capturing
    <3> QED
      BY <3>3, <3>4, <3>5, <3>6
  <2>2. UNCHANGED <<authority, locked, manifest, exports, tasks, receipts, files, dir, up, registered, op, interrupted, erasing>>
    BY <1>3 DEF worker_fault, disk, native, history
  <2>3. RuntimeTypes' /\ \A t \in Sessions \ {s} : Same(t)
    BY <1>0, <2>1, <2>2 DEF RuntimeTypes, Same, States
  <2>4. /\ state'[s] = result /\ stream'[s] = open
        /\ result = state[s] \/ (state[s] = "RECORDING" /\ result = "FAILED")
    BY <1>0, <2>1 DEF RuntimeTypes
  <2> QED
    BY <1>a, <2>1, <2>2, <2>3, <2>4, WorkerMoves
<1> QED
  BY <1>1, <1>2, <1>3 DEF WorkerStep

\* Requests and installations that leave sessions alone.
LEMMA RequestSteps ==
  ASSUME RuntimeInv,
         \/ \E rec \in Records : InstallAuthority(rec)
         \/ RetentionExpires
         \/ \E s \in Sessions : lock(s) \/ stop_begin(s) \/ withdraw_begin(s) \/ export_begin(s)
  PROVE  RuntimeInv'
<1>0. RuntimeTypes /\ OpSound /\ (\A t \in Sessions : Capturing(t) /\ Holding(t))
  BY DEF RuntimeInv
<1>a. ASSUME op' = op \/ op' = Idle, up' = up, RuntimeTypes', \A t \in Sessions : Same(t) PROVE RuntimeInv'
  <2>1. CASE op' = Idle
    BY <1>a, <2>1, OpEnds, NoSession
  <2>2. CASE op' = op
    <3>1. OpSound'
      BY <1>0, <1>a, <2>2, OpFrame DEF OpSound
    <3> QED
      BY <1>a, <3>1, NoSession
  <2> QED
    BY <1>a, <2>1, <2>2
<1>1. CASE (\E rec \in Records : InstallAuthority(rec)) \/ RetentionExpires
  <2>1. PICK rec \in Records : authority' = rec
    <3>1. CASE \E rec \in Records : InstallAuthority(rec)
      BY <3>1 DEF InstallAuthority
    <3>2. CASE RetentionExpires
      <4>1. authority \in Records /\ authority' = [authority EXCEPT !.valid = FALSE]
        BY <1>0, <3>2 DEF RetentionExpires, RuntimeTypes
      <4>2. [authority EXCEPT !.valid = FALSE] \in Records
        BY <4>1 DEF Records
      <4> QED
        BY <4>1, <4>2
    <3> QED
      BY <1>1, <3>1, <3>2
  <2>2. UNCHANGED <<state, locked, manifest, exports, tasks, receipts, files, dir, up, worker, registered, stream,
                    op, interrupted, erasing>>
    BY <1>1 DEF InstallAuthority, RetentionExpires, database, disk, threads, history
  <2>3. RuntimeTypes' /\ \A t \in Sessions : Same(t)
    BY <1>0, <2>1, <2>2 DEF RuntimeTypes, Same
  <2> QED
    BY <1>a, <2>2, <2>3
<1>2. ASSUME NEW s \in Sessions, lock(s) PROVE RuntimeInv'
  <2>1. /\ locked' = [locked EXCEPT ![s] = TRUE]
        /\ UNCHANGED <<authority, state, manifest, exports, tasks, receipts, files, dir, up, worker, registered, stream,
                       op, interrupted, erasing>>
    BY <1>2 DEF lock, disk, native, threads, history
  <2>2. RuntimeTypes' /\ \A t \in Sessions : Same(t)
    BY <1>0, <2>1 DEF RuntimeTypes, Same
  <2> QED
    BY <1>a, <2>1, <2>2
<1>3. ASSUME NEW s \in Sessions, stop_begin(s) \/ withdraw_begin(s) \/ export_begin(s) PROVE RuntimeInv'
  <2>1. PICK kind \in {"stop", "withdraw", "export"}, step \in {"join", "build"}, decision \in Decisions \cup {None} :
          /\ op' = Busy(kind, s, step, decision, {})
          /\ kind = "withdraw" => state[s] \notin {None, "DRAFT", "WITHDRAWN"}
          /\ kind = "export" => state[s] = "SEALED"
    <3>1. CASE stop_begin(s)
      BY <3>1 DEF stop_begin, Begin
    <3>2. CASE withdraw_begin(s)
      <4>1. authority.decision \in Decisions \cup {None}
        BY <1>0, <3>2 DEF withdraw_begin, withdrawal_authority, RuntimeTypes, Records
      <4> QED
        BY <3>2, <4>1 DEF withdraw_begin, Begin
    <3>3. CASE export_begin(s)
      BY <3>3 DEF export_begin, Begin
    <3> QED
      BY <1>3, <3>1, <3>2, <3>3
  <2>2. /\ up
        /\ UNCHANGED <<authority, state, locked, manifest, exports, tasks, receipts, files, dir, up, worker, registered,
                       stream, interrupted, erasing>>
    BY <1>3 DEF stop_begin, withdraw_begin, export_begin, Request, database, disk, native, threads, history
  <2>3. op' \in Ops /\ op'.kind = kind /\ op'.session = s /\ op'.step = step
    BY <2>1, BusyFields
  <2>4. RuntimeTypes' /\ \A t \in Sessions : Same(t)
    BY <1>0, <2>2, <2>3 DEF RuntimeTypes, Same
  <2>5. OpSound'
    BY <2>1, <2>2, <2>3 DEF OpSound
  <2> QED
    BY <2>2, <2>4, <2>5, NoSession
<1> QED
  BY <1>1, <1>2, <1>3

\* stop.
LEMMA StopSteps ==
  ASSUME RuntimeInv, NEW s \in Sessions, Stop(s)
  PROVE  RuntimeInv'
<1>0. RuntimeTypes /\ OpSound /\ Capturing(s) /\ Holding(s) /\ op \in Ops
  BY DEF RuntimeInv, RuntimeTypes
<1>a. op.kind = "stop" /\ op.session = s /\ up
  BY <1>0 DEF Stop, stop_timeout, stop_refused, stop_joined, stop_files, stop_failed, stop_commit, At, OpSound
<1>b. op.step = "files" => state[s] = "RECORDING" /\ ~ Alive(s) /\ ~ stream[s]
  BY <1>0, <1>a DEF OpSound
<1>1. CASE stop_timeout(s)
  <2>1. /\ op' = Idle
        /\ \/ state[s] = "RECORDING" /\ state' = [state EXCEPT ![s] = "FAILED"] /\ stream' = [stream EXCEPT ![s] = FALSE]
           \/ UNCHANGED <<state, stream>>
        /\ UNCHANGED <<authority, locked, manifest, exports, tasks, receipts, files, dir, up, worker, registered,
                       interrupted, erasing>>
    BY <1>1 DEF stop_timeout, Fail, disk, native, history
  <2>2. RuntimeTypes' /\ \A t \in Sessions \ {s} : Same(t)
    BY <1>0, <2>1, IdleRests DEF RuntimeTypes, Same, States
  <2>3. /\ \/ state[s] = "RECORDING" /\ state'[s] = "FAILED" /\ ~ stream'[s]
           \/ state'[s] = state[s] /\ stream'[s] = stream[s]
        /\ Alive(s)' <=> Alive(s)
    BY <1>0, <2>1 DEF RuntimeTypes, Alive
  <2>4. Capturing(s)'
    BY <1>0, <1>a, <2>1, <2>3 DEF Capturing
  <2>5. Holding(s)'
    BY <1>0, <1>a, <2>1, <2>3, StatesNone DEF Holding, States, verify_artifacts
  <2> QED
    BY <2>1, <2>2, <2>3, <2>4, <2>5, OpEnds, OneSession
<1>2. CASE stop_refused(s)
  <2>1. /\ op' = Idle
        /\ UNCHANGED <<authority, state, locked, manifest, exports, tasks, receipts, files, dir, up, worker, registered,
                       stream, interrupted, erasing>>
    BY <1>2 DEF stop_refused, database, disk, native, threads, history
  <2>2. RuntimeTypes' /\ \A t \in Sessions : Same(t)
    BY <1>0, <2>1, IdleRests DEF RuntimeTypes, Same
  <2> QED
    BY <2>1, <2>2, OpEnds, NoSession
<1>3. CASE stop_joined(s)
  <2>1. /\ ~ Alive(s) /\ state[s] = "RECORDING"
        /\ registered' = [registered EXCEPT ![s] = FALSE] /\ stream' = [stream EXCEPT ![s] = FALSE]
        /\ \/ op' = Busy("stop", s, "files", None, Partials) /\ UNCHANGED state
           \/ state' = [state EXCEPT ![s] = "STOPPED"] /\ op' = Idle
        /\ UNCHANGED <<authority, locked, manifest, exports, tasks, receipts, files, dir, up, worker, interrupted, erasing>>
    BY <1>0, <1>3 DEF stop_joined, Joined, Capturing, Unregister, Begin, disk, native, history
  <2>2. op' \in Ops /\ (op'.kind = "idle" \/ (op'.kind = "stop" /\ op'.session = s /\ op'.step = "files"))
    <3>1. LET b == Busy("stop", s, "files", None, Partials)
          IN b \in Ops /\ b.kind = "stop" /\ b.session = s /\ b.step = "files"
      BY BusyFields, PartialsTyped
    <3> QED
      BY <2>1, <3>1, IdleRests
  <2>3. RuntimeTypes' /\ \A t \in Sessions \ {s} : Same(t)
    BY <1>0, <2>1, <2>2 DEF RuntimeTypes, Same, States
  <2>4. /\ state'[s] = "RECORDING" \/ (state'[s] = "STOPPED" /\ op' = Idle)
        /\ ~ Alive(s)' /\ ~ stream'[s]
    BY <1>0, <2>1 DEF RuntimeTypes, Alive
  <2>5. Capturing(s)' /\ OpSound'
    BY <1>a, <2>1, <2>2, <2>4, IdleRests DEF Capturing, OpSound
  <2>6. Holding(s)'
    BY <1>0, <1>a, <2>1, <2>4, StatesNone DEF Holding, States
  <2> QED
    BY <2>1, <2>3, <2>4, <2>5, <2>6, OneSession
<1>4. CASE stop_files(s)
  <2>1. /\ op.step = "files"
        /\ UNCHANGED <<authority, state, locked, manifest, exports, tasks, receipts, dir, up, worker, registered,
                       stream, interrupted, erasing>>
    BY <1>4 DEF stop_files, At, database, native, threads, history
  <2>2. PICK left \in SUBSET (Names \X Forms) : files' = [files EXCEPT ![s] = left]
    <3>1. files[s] \in SUBSET (Names \X Forms) /\ <<"video", "final">> \in Names \X Forms /\ <<"pose", "final">> \in Names \X Forms
      BY <1>0, PartialsTyped DEF RuntimeTypes
    <3>2. \/ files' = [files EXCEPT ![s] = files[s] \cup {<<"video", "final">>}]
          \/ files' = [files EXCEPT ![s] = files[s] \ {<<"video", "partial">>}]
          \/ files' = [files EXCEPT ![s] = (files[s] \ op.rest) \cup {<<"pose", "final">>}]
      BY <1>4 DEF stop_files
    <3> QED
      BY <3>1, <3>2
  <2>3. PICK rest \in SUBSET (Names \X Forms) : op' = [op EXCEPT !.rest = rest]
    <3>1. op.rest \in SUBSET (Names \X Forms) /\ op = [op EXCEPT !.rest = op.rest]
      BY <1>0 DEF Ops
    <3>2. \/ UNCHANGED op
          \/ op' = [op EXCEPT !.rest = op.rest \ {<<"video", "partial">>}]
          \/ op' = [op EXCEPT !.rest = {}]
      BY <1>4 DEF stop_files
    <3> QED
      BY <3>1, <3>2
  <2>4. op' \in Ops /\ op'.kind = "stop" /\ op'.session = s /\ op'.step = "files"
    BY <1>0, <1>a, <2>1, <2>3 DEF Ops
  <2>5. RuntimeTypes' /\ \A t \in Sessions \ {s} : Same(t)
    BY <1>0, <2>1, <2>2, <2>4 DEF RuntimeTypes, Same
  <2>6. Alive(s)' <=> Alive(s)
    BY <2>1 DEF Alive
  <2>7. Capturing(s)' /\ OpSound'
    BY <1>0, <1>a, <1>b, <2>1, <2>4, <2>6 DEF Capturing, OpSound
  <2>8. Holding(s)'
    BY <1>0, <1>b, <2>1 DEF Holding
  <2> QED
    BY <2>1, <2>5, <2>6, <2>7, <2>8, OneSession
<1>5. CASE stop_failed(s) \/ stop_commit(s)
  <2>1. PICK result \in {"RECORDING", "FAILED", "STOPPED"}, listed \in BOOLEAN :
          /\ op.step = "files" /\ op' = Idle
          /\ state' = [state EXCEPT ![s] = result] /\ manifest' = [manifest EXCEPT ![s] = listed]
          /\ UNCHANGED <<authority, locked, exports, tasks, receipts, files, dir, up, worker, registered, stream,
                         interrupted, erasing>>
    <3>1. CASE stop_failed(s)
      <4>1. /\ op.step = "files" /\ op' = Idle /\ (state' = state \/ state' = [state EXCEPT ![s] = "FAILED"])
            /\ UNCHANGED <<authority, locked, manifest, exports, tasks, receipts, files, dir, up, worker, registered, stream,
                           interrupted, erasing>>
        BY <3>1 DEF stop_failed, At, disk, native, threads, history
      <4>2. /\ state = [state EXCEPT ![s] = "RECORDING"]
            /\ manifest = [manifest EXCEPT ![s] = manifest[s]] /\ manifest[s] \in BOOLEAN
        BY <1>0, <1>b, <4>1 DEF RuntimeTypes
      <4> QED
        BY <4>1, <4>2
    <3>2. CASE stop_commit(s)
      BY <3>2 DEF stop_commit, At, disk, native, threads, history
    <3> QED
      BY <1>5, <3>1, <3>2
  <2>2. RuntimeTypes' /\ \A t \in Sessions \ {s} : Same(t)
    BY <1>0, <2>1, IdleRests DEF RuntimeTypes, Same, States
  <2>3. state'[s] = result /\ ~ Alive(s)' /\ ~ stream'[s]
    BY <1>0, <1>b, <2>1 DEF RuntimeTypes, Alive
  <2>4. Capturing(s)'
    BY <2>3 DEF Capturing
  <2>5. Holding(s)'
    BY <1>0, <1>a, <1>b, <2>1, <2>3, StatesNone DEF Holding, States
  <2> QED
    BY <2>1, <2>2, <2>3, <2>4, <2>5, OpEnds, OneSession
<1> QED
  BY <1>1, <1>2, <1>3, <1>4, <1>5 DEF Stop

\* A stopped session is sealed.
LEMMA SealSteps ==
  ASSUME RuntimeInv, NEW s \in Sessions, seal(s)
  PROVE  RuntimeInv'
<1>0. RuntimeTypes /\ Capturing(s) /\ Holding(s)
  BY DEF RuntimeInv
<1>1. /\ state[s] = "STOPPED" /\ verify_artifacts(s) /\ up /\ op' = Idle /\ state' = [state EXCEPT ![s] = "SEALED"]
      /\ UNCHANGED <<authority, locked, manifest, exports, tasks, receipts, files, dir, up, worker, registered,
                     stream, interrupted, erasing>>
  BY DEF seal, Request, disk, native, threads, history
<1>2. RuntimeTypes' /\ \A t \in Sessions \ {s} : Same(t)
  BY <1>0, <1>1, IdleRests DEF RuntimeTypes, Same, States
<1>3. /\ state'[s] = "SEALED" /\ ~ Alive(s)' /\ ~ stream'[s]
      /\ verify_artifacts(s)' <=> verify_artifacts(s)
  BY <1>0, <1>1 DEF RuntimeTypes, Alive, Capturing, verify_artifacts
<1>4. Capturing(s)'
  BY <1>3 DEF Capturing
<1>5. Holding(s)'
  BY <1>0, <1>1, <1>3, StatesNone DEF Holding, States
<1> QED
  BY <1>1, <1>2, <1>3, <1>4, <1>5, OpEnds, OneSession

\* withdraw and withdraw_test_artifacts.
LEMMA WithdrawalSteps ==
  ASSUME RuntimeInv, NEW s \in Sessions, Withdraw(s)
  PROVE  RuntimeInv'
<1>0. RuntimeTypes /\ OpSound /\ Capturing(s) /\ Holding(s) /\ op \in Ops
  BY DEF RuntimeInv, RuntimeTypes
<1>a. op.kind = "withdraw" /\ op.session = s /\ up /\ state[s] \notin {None, "DRAFT", "WITHDRAWN"}
  BY <1>0 DEF Withdraw, withdraw_timeout, withdraw_joined, withdraw_files, withdraw_failed, withdraw_commit, At, OpSound
<1>b. op.step = "files" => erasing[s] /\ ~ Alive(s) /\ ~ stream[s]
  BY <1>0, <1>a DEF OpSound
<1>1. CASE withdraw_timeout(s)
  <2>1. /\ op' = Idle /\ Alive(s)
        /\ state' = [state EXCEPT ![s] = "FAILED"] /\ stream' = [stream EXCEPT ![s] = FALSE]
        /\ UNCHANGED <<authority, locked, manifest, exports, tasks, receipts, files, dir, up, worker, registered,
                       interrupted, erasing>>
    BY <1>1 DEF withdraw_timeout, Joined, Fail, disk, native, history
  <2>2. RuntimeTypes' /\ \A t \in Sessions \ {s} : Same(t)
    BY <1>0, <2>1, IdleRests DEF RuntimeTypes, Same, States
  <2>3. state'[s] = "FAILED" /\ ~ stream'[s] /\ (Alive(s)' <=> Alive(s))
    BY <1>0, <2>1 DEF RuntimeTypes, Alive
  <2>4. Capturing(s)'
    BY <1>0, <2>1, <2>3 DEF Capturing
  <2>5. Holding(s)'
    BY <1>0, <1>a, <2>1, <2>3, StatesNone DEF Holding, States
  <2> QED
    BY <2>1, <2>2, <2>3, <2>4, <2>5, OpEnds, OneSession
<1>2. CASE withdraw_joined(s)
  <2>1. /\ ~ Alive(s)
        /\ registered' = [registered EXCEPT ![s] = FALSE] /\ stream' = [stream EXCEPT ![s] = FALSE]
        /\ StartErasing(s)
        /\ UNCHANGED <<authority, state, locked, manifest, exports, tasks, receipts, files, dir, up, worker, interrupted>>
    BY <1>0, <1>2 DEF withdraw_joined, Joined, Capturing, Unregister, database, disk, native
  <2>2. /\ op' \in Ops
        /\ \/ op'.kind = "idle" /\ op' = Idle /\ erasing' = erasing
           \/ /\ op'.kind = "withdraw" /\ op'.session = s /\ op'.step = "files"
              /\ erasing' = [erasing EXCEPT ![s] = TRUE]
    <3>1. CASE inventory_accepted(s)
      <4>1. PICK rest \in SUBSET (Names \X Forms) : op' = Busy("withdraw", s, "files", op.decision, rest)
        BY <1>0, <2>1, <3>1 DEF StartErasing, Begin, RuntimeTypes
      <4>2. op.decision \in Decisions \cup {None} /\ erasing' = [erasing EXCEPT ![s] = TRUE]
        BY <1>0, <2>1, <3>1 DEF Ops, StartErasing
      <4>3. LET b == Busy("withdraw", s, "files", op.decision, rest)
            IN b \in Ops /\ b.kind = "withdraw" /\ b.session = s /\ b.step = "files"
        BY <4>2, BusyFields
      <4> QED
        BY <4>1, <4>2, <4>3
    <3>2. CASE ~ inventory_accepted(s)
      BY <2>1, <3>2, IdleRests DEF StartErasing
    <3> QED
      BY <3>1, <3>2
  <2>3. RuntimeTypes' /\ \A t \in Sessions \ {s} : Same(t)
    BY <1>0, <2>1, <2>2 DEF RuntimeTypes, Same
  <2>4. /\ ~ Alive(s)' /\ ~ stream'[s] /\ state'[s] = state[s]
        /\ erasing'[s] = erasing[s] \/ erasing'[s]
        /\ op'.kind # "idle" => erasing'[s]
    BY <1>0, <2>1, <2>2 DEF RuntimeTypes, Alive
  <2>5. Capturing(s)' /\ OpSound'
    BY <1>a, <2>1, <2>2, <2>4 DEF Capturing, OpSound
  <2>6. Holding(s)'
    BY <1>0, <2>1, <2>4 DEF Holding, verify_artifacts
  <2> QED
    BY <2>1, <2>3, <2>4, <2>5, <2>6, OneSession
<1>3. CASE withdraw_files(s)
  <2>1. /\ op.step = "files"
        /\ UNCHANGED <<authority, state, locked, manifest, exports, tasks, receipts, up, worker, registered,
                       stream, interrupted, erasing>>
    BY <1>3 DEF withdraw_files, At, database, native, threads, history
  <2>2. PICK left \in SUBSET (Names \X Forms), rest \in SUBSET (Names \X Forms), there \in {"live", "gone", "quarantined"} :
          /\ files' = [files EXCEPT ![s] = left] /\ op' = [op EXCEPT !.rest = rest] /\ dir' = [dir EXCEPT ![s] = there]
    <3>1. /\ op.rest \in SUBSET (Names \X Forms) /\ op = [op EXCEPT !.rest = op.rest]
          /\ files[s] \in SUBSET (Names \X Forms) /\ files = [files EXCEPT ![s] = files[s]]
          /\ dir[s] = "live" /\ dir = [dir EXCEPT ![s] = "live"]
      BY <1>0, <1>3 DEF Ops, RuntimeTypes, withdraw_files
    <3>2. \/ UNCHANGED dir /\ \E f \in op.rest : /\ files' = [files EXCEPT ![s] = files[s] \ {f}]
                                                 /\ op' = [op EXCEPT !.rest = op.rest \ {f}]
          \/ UNCHANGED <<files, op>> /\ dir' = [dir EXCEPT ![s] = "gone"]
          \/ UNCHANGED <<files, op>> /\ dir' = [dir EXCEPT ![s] = "quarantined"]
      BY <1>3 DEF withdraw_files
    <3>3. CASE UNCHANGED dir /\ \E f \in op.rest : /\ files' = [files EXCEPT ![s] = files[s] \ {f}]
                                                   /\ op' = [op EXCEPT !.rest = op.rest \ {f}]
      BY <3>1, <3>3
    <3>4. CASE UNCHANGED <<files, op>> /\ dir' = [dir EXCEPT ![s] = "gone"]
      BY <3>1, <3>4
    <3>5. CASE UNCHANGED <<files, op>> /\ dir' = [dir EXCEPT ![s] = "quarantined"]
      BY <3>1, <3>5
    <3> QED
      BY <3>2, <3>3, <3>4, <3>5
  <2>4. op' \in Ops /\ op'.kind = "withdraw" /\ op'.session = s /\ op'.step = "files"
    BY <1>0, <1>a, <2>1, <2>2 DEF Ops
  <2>5. RuntimeTypes' /\ \A t \in Sessions \ {s} : Same(t)
    BY <1>0, <2>1, <2>2, <2>4 DEF RuntimeTypes, Same
  <2>6. (Alive(s)' <=> Alive(s)) /\ dir'[s] # "none"
    BY <1>0, <2>1, <2>2 DEF Alive, RuntimeTypes
  <2>7. Capturing(s)' /\ OpSound'
    BY <1>0, <1>a, <1>b, <2>1, <2>4, <2>6 DEF Capturing, OpSound
  <2>8. Holding(s)'
    BY <1>0, <1>a, <1>b, <2>1, <2>6 DEF Holding
  <2> QED
    BY <2>1, <2>5, <2>6, <2>7, <2>8, OneSession
<1>4. CASE withdraw_failed(s)
  <2>1. /\ op' = Idle
        /\ UNCHANGED <<authority, state, locked, manifest, exports, tasks, receipts, files, dir, up, worker, registered,
                       stream, interrupted, erasing>>
    BY <1>4 DEF withdraw_failed, database, disk, native, threads, history
  <2>2. RuntimeTypes' /\ \A t \in Sessions : Same(t)
    BY <1>0, <2>1, IdleRests DEF RuntimeTypes, Same
  <2> QED
    BY <2>1, <2>2, OpEnds, NoSession
<1>5. CASE withdraw_commit(s)
  <2>1. /\ op' = Idle /\ op.step = "files" /\ dir[s] # "live" /\ state' = [state EXCEPT ![s] = "WITHDRAWN"]
        /\ \/ /\ s \in Real
              /\ tasks' = [tasks EXCEPT ![s] = @ \cup exports[s]] /\ receipts' = [receipts EXCEPT ![s] = @ + 1]
           \/ s \in Synthetic /\ UNCHANGED <<tasks, receipts>>
        /\ UNCHANGED <<authority, locked, manifest, exports, files, dir, up, worker, registered,
                       stream, interrupted, erasing>>
    BY <1>5 DEF withdraw_commit, At, disk, native, threads, history
  <2>2. RuntimeTypes' /\ \A t \in Sessions \ {s} : Same(t)
    BY <1>0, <2>1, IdleRests DEF RuntimeTypes, Same, States
  <2>3. /\ state'[s] = "WITHDRAWN" /\ ~ Alive(s)' /\ ~ stream'[s] /\ dir'[s] \in {"gone", "quarantined"}
        /\ s \in Real => receipts'[s] = 1 /\ tasks'[s] = exports'[s]
    <3>1. dir[s] \in {"gone", "quarantined"}
      BY <1>0, <1>a, <2>1 DEF Holding, RuntimeTypes
    <3>2. s \in Real => s \notin Synthetic /\ receipts[s] = 0 /\ tasks[s] = {}
      BY <1>0, <1>a, SessionAssumption DEF Holding
    <3>3. state'[s] = "WITHDRAWN" /\ dir'[s] \in {"gone", "quarantined"} /\ ~ Alive(s)' /\ ~ stream'[s]
      BY <1>0, <1>b, <2>1, <3>1 DEF RuntimeTypes, Alive
    <3>4. s \in Real => receipts'[s] = receipts[s] + 1 /\ tasks'[s] = tasks[s] \cup exports[s] /\ exports' = exports
      BY <1>0, <2>1, <3>2 DEF RuntimeTypes
    <3> QED
      BY <3>2, <3>3, <3>4
  <2>4. Capturing(s)'
    BY <2>3 DEF Capturing
  <2>5. Holding(s)'
    BY <2>3 DEF Holding
  <2> QED
    BY <2>1, <2>2, <2>3, <2>4, <2>5, OpEnds, OneSession
<1> QED
  BY <1>1, <1>2, <1>3, <1>4, <1>5 DEF Withdraw

\* The steps of withdraw_test_artifacts keep the invariant.
LEMMA TestArtifactSteps ==
  ASSUME RuntimeInv, NEW s \in Sessions, withdraw_test_artifacts(s)
  PROVE  RuntimeInv'
<1>0. RuntimeTypes /\ Capturing(s) /\ Holding(s)
  BY DEF RuntimeInv
<1>1. /\ up /\ s \in Synthetic /\ state[s] \in {"SEALED", "FAILED"} /\ erasing' = [erasing EXCEPT ![s] = TRUE]
      /\ UNCHANGED <<authority, state, locked, manifest, exports, tasks, receipts, files, dir, up, worker, registered,
                     stream, interrupted>>
  BY DEF withdraw_test_artifacts, Request, database, disk, native, threads
<1>2. PICK rest \in SUBSET (Names \X Forms) : op' = Busy("withdraw", s, "files", "DELETE", rest)
  BY <1>0 DEF withdraw_test_artifacts, Begin, RuntimeTypes
<1>3. op' \in Ops /\ op'.kind = "withdraw" /\ op'.session = s /\ op'.step = "files"
  <2>1. LET b == Busy("withdraw", s, "files", "DELETE", rest)
        IN b \in Ops /\ b.kind = "withdraw" /\ b.session = s /\ b.step = "files"
    <3>1. "DELETE" \in Decisions \cup {None}
      BY DEF Decisions
    <3> QED
      BY <3>1, BusyFields
  <2> QED
    BY <1>2, <2>1
<1>4. RuntimeTypes' /\ \A t \in Sessions \ {s} : Same(t)
  BY <1>0, <1>1, <1>3 DEF RuntimeTypes, Same
<1>5. erasing'[s] /\ ~ Alive(s)' /\ ~ stream'[s]
  BY <1>0, <1>1, SessionAssumption DEF RuntimeTypes, Capturing, Alive
<1>6. OpSound' /\ Capturing(s)'
  BY <1>1, <1>3, <1>5, StatesNone DEF OpSound, Capturing, States
<1>7. Holding(s)'
  BY <1>0, <1>1, <1>5 DEF Holding
<1> QED
  BY <1>1, <1>4, <1>5, <1>6, <1>7, OneSession

\* export_allowlisted.
LEMMA ExportSteps ==
  ASSUME RuntimeInv, NEW s \in Sessions, export_commit(s)
  PROVE  RuntimeInv'
<1>0. RuntimeTypes /\ OpSound /\ Capturing(s) /\ Holding(s)
  BY DEF RuntimeInv
<1>1. PICK e \in Exports : exports' = [exports EXCEPT ![s] = @ \cup {e}]
  BY DEF export_commit
<1>2. /\ op' = Idle /\ op.kind = "export" /\ op.session = s
      /\ UNCHANGED <<authority, state, locked, manifest, tasks, receipts, files, dir, up, worker, registered,
                     stream, interrupted, erasing>>
  BY DEF export_commit, At, disk, native, threads, history
<1>3. RuntimeTypes' /\ \A t \in Sessions \ {s} : Same(t)
  BY <1>0, <1>1, <1>2, IdleRests DEF RuntimeTypes, Same
<1>4. state[s] = "SEALED"
  BY <1>0, <1>2 DEF OpSound
<1>5. (Alive(s)' <=> Alive(s)) /\ (verify_artifacts(s)' <=> verify_artifacts(s))
  BY <1>2 DEF Alive, verify_artifacts
<1>6. Capturing(s)' /\ Holding(s)'
  BY <1>0, <1>2, <1>4, <1>5 DEF Capturing, Holding
<1> QED
  BY <1>2, <1>3, <1>5, <1>6, OpEnds, OneSession

\* recover.
LEMMA RecoverySteps ==
  ASSUME RuntimeInv, NEW s \in Sessions, Recover(s)
  PROVE  RuntimeInv'
<1>0. RuntimeTypes /\ OpSound /\ Capturing(s) /\ Holding(s) /\ op \in Ops
  BY DEF RuntimeInv, RuntimeTypes
<1>a. ~ up /\ state[s] = "RECORDING" /\ ~ Alive(s) /\ ~ stream[s]
  <2>1. ~ up /\ state[s] = "RECORDING"
    BY <1>0 DEF Recover, recover_begin, recover_file, recover_commit, At, OpSound
  <2> QED
    BY <1>0, <2>1 DEF Capturing
<1>1. CASE recover_begin(s)
  <2>1. UNCHANGED <<authority, state, locked, manifest, exports, tasks, receipts, files, dir, up, worker, registered,
                    stream, interrupted, erasing>>
    BY <1>1 DEF recover_begin, database, disk, native, threads, history
  <2>2. op' = Busy("recover", s, "files", None, unfinished(s)) /\ unfinished(s) \in SUBSET (Names \X Forms)
    BY <1>0, <1>1 DEF recover_begin, Begin, unfinished, RuntimeTypes
  <2>3. op' \in Ops /\ op'.kind = "recover" /\ op'.session = s /\ op'.step = "files"
    <3>1. LET b == Busy("recover", s, "files", None, unfinished(s))
          IN b \in Ops /\ b.kind = "recover" /\ b.session = s /\ b.step = "files"
      BY <2>2, BusyFields
    <3> QED
      BY <2>2, <3>1
  <2>4. RuntimeTypes' /\ \A t \in Sessions : Same(t)
    BY <1>0, <2>1, <2>3 DEF RuntimeTypes, Same
  <2>5. OpSound'
    BY <1>a, <2>1, <2>3 DEF OpSound
  <2> QED
    BY <2>1, <2>4, <2>5, NoSession
<1>2. CASE recover_file(s)
  <2>1. /\ op.kind = "recover" /\ op.session = s
        /\ UNCHANGED <<authority, state, locked, manifest, exports, tasks, receipts, dir, up, worker, registered,
                       stream, interrupted, erasing>>
    BY <1>2 DEF recover_file, At, database, native, threads, history
  <2>2. PICK f \in op.rest : /\ files' = [files EXCEPT ![s] = (@ \ {f}) \cup {quarantine(f)}]
                             /\ op' = [op EXCEPT !.rest = @ \ {f}]
    BY <1>2 DEF recover_file
  <2>3. quarantine(f) \in Names \X Forms
    <3>1. f \in Names \X Forms
      BY <1>0, <2>2 DEF Ops
    <3> QED
      BY <3>1 DEF quarantine, Forms
  <2>4. op' \in Ops /\ op'.kind = "recover" /\ op'.session = s
    BY <1>0, <2>1, <2>2 DEF Ops
  <2>5. RuntimeTypes' /\ \A t \in Sessions \ {s} : Same(t)
    BY <1>0, <2>1, <2>2, <2>3, <2>4 DEF RuntimeTypes, Same
  <2>6. Alive(s)' <=> Alive(s)
    BY <2>1 DEF Alive
  <2>7. Capturing(s)' /\ OpSound'
    BY <1>0, <1>a, <2>1, <2>4, <2>6 DEF Capturing, OpSound
  <2>8. Holding(s)'
    BY <1>0, <1>a, <2>1 DEF Holding
  <2> QED
    BY <2>1, <2>5, <2>6, <2>7, <2>8, OneSession
<1>3. CASE recover_commit(s)
  <2>1. /\ op' = Idle /\ state' = [state EXCEPT ![s] = "FAILED"]
        /\ UNCHANGED <<authority, locked, manifest, exports, tasks, receipts, files, dir, up, worker, registered,
                       stream, interrupted, erasing>>
    BY <1>3 DEF recover_commit, disk, native, threads, history
  <2>2. RuntimeTypes' /\ \A t \in Sessions \ {s} : Same(t)
    BY <1>0, <2>1, IdleRests DEF RuntimeTypes, Same, States
  <2>3. state'[s] = "FAILED" /\ ~ Alive(s)' /\ ~ stream'[s]
    BY <1>0, <1>a, <2>1 DEF RuntimeTypes, Alive
  <2>4. Capturing(s)' /\ Holding(s)'
    BY <1>0, <1>a, <2>1, <2>3, StatesNone DEF Capturing, Holding, States
  <2> QED
    BY <2>1, <2>2, <2>3, <2>4, OpEnds, OneSession
<1> QED
  BY <1>1, <1>2, <1>3 DEF Recover

\* The process ends, and serves again when no session says RECORDING.
LEMMA ProcessSteps ==
  ASSUME RuntimeInv, Crash \/ Serve \/ UNCHANGED vars
  PROVE  RuntimeInv'
<1>0. RuntimeTypes /\ OpSound /\ SingleCamera /\ (\A t \in Sessions : Capturing(t) /\ Holding(t))
  BY DEF RuntimeInv
<1>1. CASE Crash
  <2>1. /\ up' = FALSE /\ op' = Idle /\ worker' = [t \in Sessions |-> "none"] /\ registered' = [t \in Sessions |-> FALSE]
        /\ stream' = [t \in Sessions |-> FALSE]
        /\ interrupted' = [t \in Sessions |-> interrupted[t] \/ state[t] = "RECORDING"]
        /\ UNCHANGED <<authority, state, locked, manifest, exports, tasks, receipts, files, dir, erasing>>
    BY <1>1 DEF Crash, database, disk, native
  <2>2. RuntimeTypes'
    BY <1>0, <2>1, IdleRests DEF RuntimeTypes
  <2>3. \A t \in Sessions : ~ Alive(t)' /\ ~ stream'[t]
    BY <2>1 DEF Alive
  <2>4. \A t \in Sessions : Capturing(t)' /\ Holding(t)'
    BY <1>0, <2>1, <2>3 DEF Capturing, Holding, verify_artifacts
  <2> QED
    BY <2>1, <2>2, <2>3, <2>4, OpEnds DEF RuntimeInv, SingleCamera
<1>2. CASE Serve
  <2>1. /\ op = Idle /\ (\A t \in Sessions : state[t] # "RECORDING") /\ up' = TRUE /\ ~ up
        /\ UNCHANGED <<authority, state, locked, manifest, exports, tasks, receipts, files, dir, worker, registered,
                       stream, op, interrupted, erasing>>
    BY <1>2 DEF Serve, database, disk, native, threads, history
  <2>2. RuntimeTypes'
    BY <1>0, <2>1 DEF RuntimeTypes
  <2>3. \A t \in Sessions : ~ Alive(t) /\ ~ Alive(t)' /\ ~ stream'[t]
    BY <1>0, <2>1 DEF Capturing, Alive
  <2>4. \A t \in Sessions : Capturing(t)' /\ Holding(t)'
    BY <1>0, <2>1, <2>3 DEF Capturing, Holding, verify_artifacts
  <2> QED
    BY <2>1, <2>2, <2>3, <2>4, OpEnds DEF RuntimeInv, SingleCamera
<1>3. CASE UNCHANGED vars
  <2>1. UNCHANGED <<authority, state, locked, manifest, exports, tasks, receipts, files, dir, up, worker, registered,
                    stream, op, interrupted, erasing>>
    BY <1>3 DEF vars, database, disk, native, threads, history
  <2>2. RuntimeTypes' /\ \A t \in Sessions : Same(t)
    BY <1>0, <2>1 DEF RuntimeTypes, Same
  <2>3. OpSound'
    BY <1>0, <2>1 DEF OpSound, Alive
  <2> QED
    BY <2>1, <2>2, <2>3, NoSession
<1> QED
  BY <1>1, <1>2, <1>3
-----------------------------------------------------------------------------

\* Every step keeps the invariant.
LEMMA RuntimeStep ==
  ASSUME RuntimeInv, [Next]_vars
  PROVE  RuntimeInv'
<1>1. CASE Next
  BY <1>1, StartSteps, WorkerSteps, RequestSteps, StopSteps, SealSteps, WithdrawalSteps, TestArtifactSteps,
     ExportSteps, RecoverySteps, ProcessSteps
  DEF Next, Continue
<1>2. CASE UNCHANGED vars
  BY <1>2, ProcessSteps
<1> QED
  BY <1>1, <1>2

\* The initial states satisfy the invariant.
LEMMA RuntimeBegins ==
  ASSUME Init
  PROVE  RuntimeInv
<1>1. RuntimeTypes
  BY IdleRests DEF Init, RuntimeTypes
<1>2. \A s \in Sessions : Capturing(s) /\ Holding(s) /\ ~ Alive(s)
  BY StatesNone DEF Init, Capturing, Holding, Alive, States
<1>3. OpSound
  BY IdleRests DEF Init, OpSound
<1> QED
  BY <1>1, <1>2, <1>3 DEF RuntimeInv, SingleCamera

\* What a withdrawn session keeps.
Final(t) == state[t] = "WITHDRAWN" => state'[t] = "WITHDRAWN" /\ exports'[t] = exports[t] /\ dir'[t] = dir[t]

\* A step that leaves a session's state, exports and directory alone leaves it final.
LEMMA FinalElsewhere ==
  ASSUME NEW s \in Sessions, state[s] # "WITHDRAWN",
         \A t \in Sessions \ {s} : state'[t] = state[t] /\ exports'[t] = exports[t] /\ dir'[t] = dir[t]
  PROVE  \A t \in Sessions : Final(t)
BY DEF Final

\* Every step leaves a withdrawn session final.
LEMMA FinalSteps ==
  ASSUME RuntimeInv, [Next]_vars
  PROVE  \A t \in Sessions : Final(t)
<1>0. /\ RuntimeTypes /\ OpSound /\ (\A t \in Sessions : Capturing(t))
      /\ state \in [Sessions -> States \cup {None}] /\ exports \in [Sessions -> SUBSET Exports]
      /\ dir \in [Sessions -> {"none", "live", "gone", "quarantined"}]
  BY DEF RuntimeInv, RuntimeTypes
<1>1. ASSUME UNCHANGED <<state, exports, dir>> PROVE \A t \in Sessions : Final(t)
  BY <1>1 DEF Final
<1>2. ASSUME NEW s \in Sessions, state[s] # "WITHDRAWN",
             \E v : state' = [state EXCEPT ![s] = v],
             exports' = exports \/ \E v : exports' = [exports EXCEPT ![s] = v],
             dir' = dir \/ \E v : dir' = [dir EXCEPT ![s] = v]
      PROVE  \A t \in Sessions : Final(t)
  BY <1>0, <1>2, FinalElsewhere
<1>3. ASSUME NEW s \in Sessions,
             create_session(s) \/ preflight(s) \/ start_real_collection(s) \/ start_synthetic_demo(s) \/ seal(s)
      PROVE  \A t \in Sessions : Final(t)
  <2>1. state[s] \in {None, "DRAFT", "PREFLIGHT_READY", "STOPPED"} /\ \E v : state' = [state EXCEPT ![s] = v]
    BY <1>3, ZenonT(30) DEF create_session, preflight, start_real_collection, start_synthetic_demo, seal
  <2>2. exports' = exports /\ (dir' = dir \/ \E v : dir' = [dir EXCEPT ![s] = v])
    BY <1>3 DEF create_session, preflight, start_real_collection, start_synthetic_demo, seal, disk
  <2> QED
    BY <1>2, <2>1, <2>2, StatesNone DEF States
<1>4. ASSUME NEW s \in Sessions, WorkerStep(s) PROVE \A t \in Sessions : Final(t)
  <2>1. UNCHANGED <<exports, dir>>
    BY <1>4 DEF WorkerStep, worker_loop, ingest_frame, worker_after, worker_fault, database, disk
  <2>2. state' = state \/ (state[s] = "RECORDING" /\ state' = [state EXCEPT ![s] = "FAILED"])
    BY <1>4 DEF WorkerStep, worker_loop, ingest_frame, worker_after, worker_fault, database, Fail
  <2> QED
    BY <1>1, <1>2, <2>1, <2>2
<1>5. ASSUME NEW s \in Sessions, Stop(s) PROVE \A t \in Sessions : Final(t)
  <2>1. UNCHANGED <<exports, dir>>
    BY <1>5 DEF Stop, stop_timeout, stop_refused, stop_joined, stop_files, stop_failed, stop_commit, database, disk
  <2>2. /\ op.kind = "stop" /\ op.session = s
        /\ \/ state' = state
           \/ state[s] = "RECORDING" /\ \E v : state' = [state EXCEPT ![s] = v]
           \/ op.step = "files" /\ \E v : state' = [state EXCEPT ![s] = v]
    BY <1>5 DEF Stop, stop_timeout, stop_refused, stop_joined, stop_files, stop_failed, stop_commit, database, Fail, At
  <2>3. op.step = "files" => state[s] = "RECORDING"
    BY <1>0, <2>2 DEF OpSound
  <2> QED
    BY <1>1, <1>2, <2>1, <2>2, <2>3
<1>6. ASSUME NEW s \in Sessions, Withdraw(s) PROVE \A t \in Sessions : Final(t)
  <2>1. /\ op.kind = "withdraw" /\ op.session = s /\ UNCHANGED exports
        /\ state' = state \/ \E v : state' = [state EXCEPT ![s] = v]
        /\ dir' = dir \/ \E v : dir' = [dir EXCEPT ![s] = v]
    BY <1>6 DEF Withdraw, withdraw_timeout, withdraw_joined, withdraw_files, withdraw_failed, withdraw_commit,
                database, disk, Fail, At
  <2>2. state[s] # "WITHDRAWN" /\ state = [state EXCEPT ![s] = state[s]]
    BY <1>0, <2>1 DEF OpSound
  <2> QED
    BY <1>2, <2>1, <2>2
<1>7. ASSUME NEW s \in Sessions, export_commit(s) PROVE \A t \in Sessions : Final(t)
  <2>1. /\ op.kind = "export" /\ op.session = s /\ UNCHANGED <<state, dir>>
        /\ \E v : exports' = [exports EXCEPT ![s] = v]
    BY <1>7 DEF export_commit, disk, At
  <2>2. state[s] = "SEALED" /\ state = [state EXCEPT ![s] = state[s]]
    BY <1>0, <2>1 DEF OpSound
  <2> QED
    BY <1>2, <2>1, <2>2
<1>8. ASSUME NEW s \in Sessions, Recover(s) PROVE \A t \in Sessions : Final(t)
  <2>1. /\ UNCHANGED <<exports, dir>> /\ (state' = state \/ \E v : state' = [state EXCEPT ![s] = v])
        /\ state[s] = "RECORDING" \/ (op.kind = "recover" /\ op.session = s)
    BY <1>8 DEF Recover, recover_begin, recover_file, recover_commit, database, disk, At
  <2>2. state[s] = "RECORDING"
    BY <1>0, <2>1 DEF OpSound
  <2> QED
    BY <1>1, <1>2, <2>1, <2>2
<1>9. ASSUME NEW s \in Sessions,
             lock(s) \/ stop_begin(s) \/ withdraw_begin(s) \/ withdraw_test_artifacts(s) \/ export_begin(s)
      PROVE  \A t \in Sessions : Final(t)
  BY <1>1, <1>9 DEF lock, stop_begin, withdraw_begin, withdraw_test_artifacts, export_begin, database, disk
<1>10. CASE \/ \E rec \in Records : InstallAuthority(rec)
            \/ RetentionExpires \/ Crash \/ Serve \/ UNCHANGED vars
  BY <1>1, <1>10 DEF InstallAuthority, RetentionExpires, Crash, Serve, vars, database, disk
<1> QED
  BY <1>3, <1>4, <1>5, <1>6, <1>7, <1>8, <1>9, <1>10 DEF Next, Continue

\* No two capture threads live at once, also when a stop or a withdrawal timed out on the

\* first of them (_camera_worker, assert_no_active_collection).
THEOREM SingleCameraInvariant == Spec => []SingleCamera
<1>1. Init => RuntimeInv
  BY RuntimeBegins
<1>2. RuntimeInv /\ [Next]_vars => RuntimeInv'
  BY RuntimeStep
<1>3. RuntimeInv => SingleCamera
  BY DEF RuntimeInv
<1> QED
  BY <1>1, <1>2, <1>3, PTL DEF Spec

\* A sealed session keeps both artifacts and the manifest until its withdrawal removes

\* them, nobody can write to it, and a recording that the end of the process interrupted
\* is never sealed (seal, recover).
THEOREM SealedIntactInvariant == Spec => []SealedIntact
<1>1. Init => RuntimeInv
  BY RuntimeBegins
<1>2. RuntimeInv /\ [Next]_vars => RuntimeInv'
  BY RuntimeStep
<1>3. RuntimeInv => SealedIntact
  BY DEF RuntimeInv, SealedIntact, Capturing, Holding
<1> QED
  BY <1>1, <1>2, <1>3, PTL DEF Spec

\* A session reported as withdrawn has left the artifact directory, nothing writes there,

\* and there is one receipt and a follow-up task for every bundle exported before
\* (withdraw, withdraw_test_artifacts).
THEOREM WithdrawnCompleteInvariant == Spec => []WithdrawnComplete
<1>1. Init => RuntimeInv
  BY RuntimeBegins
<1>2. RuntimeInv /\ [Next]_vars => RuntimeInv'
  BY RuntimeStep
<1>3. RuntimeInv => WithdrawnComplete
  BY DEF RuntimeInv, WithdrawnComplete, Capturing, Holding
<1> QED
  BY <1>1, <1>2, <1>3, PTL DEF Spec

\* No step takes a session out of WITHDRAWN, exports it or touches its directory: not a

\* late worker, a time-out, or recover.
THEOREM WithdrawnIsFinalHolds == Spec => WithdrawnIsFinal
<1> DEFINE Step == \A s \in Sessions : state[s] = "WITHDRAWN" =>
                     state'[s] = "WITHDRAWN" /\ exports'[s] = exports[s] /\ dir'[s] = dir[s]
<1>1. Init => RuntimeInv
  BY RuntimeBegins
<1>2. RuntimeInv /\ [Next]_vars => RuntimeInv'
  BY RuntimeStep
<1>3. RuntimeInv /\ [Next]_vars => [Step]_vars
  BY FinalSteps DEF Final
<1> QED
  BY <1>1, <1>2, <1>3, PTL DEF Spec, WithdrawnIsFinal
=============================================================================
