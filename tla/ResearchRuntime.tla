-------------------------- MODULE ResearchRuntime --------------------------
(***************************************************************************)
(* The collection runtime (research_runtime/service.py): the life of a     *)
(* runtime session, the capture worker thread, the artifact directory, the *)
(* native authority record, exports, withdrawal, and recovery after the    *)
(* process died.                                                           *)
(*                                                                         *)
(* Who runs concurrently.  Operator requests reach the service through     *)
(* WorkspaceService, which holds its own lock for the whole request: one   *)
(* request at a time, `op`.  The capture worker is a thread of its own and *)
(* takes the service's lock only inside ingest_frame.  stop and withdraw   *)
(* release that lock while they join the worker, export_allowlisted while  *)
(* it builds the bundle.  The authority record is a file that              *)
(* install-authority replaces at any time from another process.            *)
(*                                                                         *)
(* Files and database.  Renames and unlinks happen inside an open          *)
(* transaction but are not undone with it, so they are steps of their own: *)
(* a crash or an OSError between them loses the database half only.        *)
(***************************************************************************)
EXTENDS Naturals, FiniteSets

CONSTANTS Real,          \* sessions with source_kind REAL
          Synthetic,     \* sessions with a synthetic source_kind
          Exports,       \* export ids
          MaxCrashes,    \* bound: how often the process dies
          MaxInstalls,   \* bound: how often the authority record is replaced
          None

Sessions == Real \cup Synthetic

ASSUME SessionAssumption == Real \cap Synthetic = {} /\ IsFiniteSet(Sessions)
ASSUME BoundAssumption == MaxCrashes \in Nat /\ MaxInstalls \in Nat
ASSUME NoneAssumption == None \notin Sessions

VARIABLES
  state,        \* runtime_sessions.state, None while the row is absent
  locked,       \* runtime_sessions.locked
  manifest,     \* both rows of runtime_artifacts are present
  exports,      \* runtime_exports by session
  tasks,        \* runtime_withdrawal_tasks (EXTERNAL_EXPORT_FOLLOW_UP) by session
  receipts,     \* number of WITHDRAWAL_RECORDED events by session
  files,        \* the artifact directory: <<artifact, form>>
  dir,          \* the directory itself: "none", "live", "gone" or "quarantined"
  authority,    \* research-authority record: None or what it says
  installs,
  up,           \* the process serves
  worker,       \* the capture thread of a session
  registered,   \* _capture_threads and _capture_stops hold an entry
  stopSet,      \* the session's stop event
  stream,       \* _streams holds an open writer
  op,           \* the operator request or recovery in progress
  crashes,
  interrupted,  \* history: the process died while the session was RECORDING
  erasing       \* history: a deletion of the session's files was begun

database == <<state, locked, manifest, exports, tasks, receipts>>
disk     == <<files, dir>>
native   == <<authority, installs>>
threads  == <<worker, registered, stopSet, stream>>
history  == <<interrupted, erasing>>
vars     == <<database, disk, native, up, threads, op, crashes, history>>

States == {"DRAFT", "PREFLIGHT_READY", "RECORDING", "STOPPED", "SEALED", "FAILED", "WITHDRAWN"}

ASSUME StatesNone == None \notin States

Names  == {"video", "pose"}
Forms  == {"partial", "final", "quarantined", "requarantined"}
Decisions == {"DELETE", "QUARANTINE"}

\* A record names one session; valid: APPROVED, consent CONFIRMED and not
\* expired; decision: what it says about withdrawal, if anything.
Records == [session : Real, valid : BOOLEAN, decision : Decisions \cup {None}]

Idle == [kind |-> "idle", session |-> None, step |-> "none", decision |-> None, rest |-> {}]
Ops == [kind : {"idle", "stop", "withdraw", "export", "recover"},
        session : Sessions \cup {None},
        step : {"none", "join", "build", "files", "commit"},
        decision : Decisions \cup {None},
        rest : SUBSET (Names \X Forms)]
Busy(kind, s, step, decision, rest) ==
  [kind |-> kind, session |-> s, step |-> step, decision |-> decision, rest |-> rest]

Alive(s) == worker[s] \in {"loop", "ingest", "after", "fault"}

\* The service's lock is held across the file steps of an operation.
LockFree == op.step \notin {"files", "commit"}

Init ==
  /\ state = [s \in Sessions |-> None]
  /\ locked = [s \in Sessions |-> FALSE]
  /\ manifest = [s \in Sessions |-> FALSE]
  /\ exports = [s \in Sessions |-> {}]
  /\ tasks = [s \in Sessions |-> {}]
  /\ receipts = [s \in Sessions |-> 0]
  /\ files = [s \in Sessions |-> {}]
  /\ dir = [s \in Sessions |-> "none"]
  /\ authority = None
  /\ installs = 0
  /\ up = TRUE
  /\ worker = [s \in Sessions |-> "none"]
  /\ registered = [s \in Sessions |-> FALSE]
  /\ stopSet = [s \in Sessions |-> FALSE]
  /\ stream = [s \in Sessions |-> FALSE]
  /\ op = Idle
  /\ crashes = 0
  /\ interrupted = [s \in Sessions |-> FALSE]
  /\ erasing = [s \in Sessions |-> FALSE]

------------------------------------------------------------------------------
(* The authority record, replaced by install-authority or expiring by itself. *)

InstallAuthority(rec) ==
  /\ installs < MaxInstalls
  /\ installs' = installs + 1
  /\ authority' = rec
  /\ UNCHANGED <<database, disk, up, threads, op, crashes, history>>

RetentionExpires ==
  /\ authority # None
  /\ authority.valid
  /\ authority' = [authority EXCEPT !.valid = FALSE]
  /\ UNCHANGED <<database, disk, installs, up, threads, op, crashes, history>>

validate_export_authority(s) ==
  authority # None /\ authority.session = s /\ authority.valid

withdrawal_authority(s) ==
  authority # None /\ authority.session = s /\ authority.decision # None

------------------------------------------------------------------------------
(* Requests that are one transaction. *)

Request == up /\ op = Idle

create_session(s) ==
  /\ Request
  /\ state[s] = None
  /\ state' = [state EXCEPT ![s] = "DRAFT"]
  /\ dir' = [dir EXCEPT ![s] = "live"]
  /\ UNCHANGED <<locked, manifest, exports, tasks, receipts, files, native, up, threads, op,
                 crashes, history>>

\* mutant: a session may be preflighted again unless it is recording
preflight_again(s) ==
  /\ Request
  /\ state[s] \notin {None, "RECORDING"}
  /\ \E result \in {"PREFLIGHT_READY", "FAILED"} : state' = [state EXCEPT ![s] = result]
  /\ UNCHANGED <<locked, manifest, exports, tasks, receipts, disk, native, up, threads, op,
                 crashes, history>>

preflight(s) ==
  /\ Request
  /\ state[s] = "DRAFT"
  /\ \E result \in {"PREFLIGHT_READY", "FAILED"} : state' = [state EXCEPT ![s] = result]
  /\ UNCHANGED <<locked, manifest, exports, tasks, receipts, disk, native, up, threads, op,
                 crashes, history>>

\* mutant: only the database is asked who records
no_recording_row == \A s \in Sessions : state[s] # "RECORDING"

assert_no_active_collection ==
  /\ \A s \in Sessions : state[s] # "RECORDING"
  /\ \A s \in Sessions : ~ (registered[s] /\ Alive(s))

start_real_collection(s) ==
  /\ Request
  /\ s \in Real
  /\ state[s] = "PREFLIGHT_READY"
  /\ validate_export_authority(s)
  /\ assert_no_active_collection
  /\ state' = [state EXCEPT ![s] = "RECORDING"]
  /\ worker' = [worker EXCEPT ![s] = "loop"]
  /\ registered' = [registered EXCEPT ![s] = TRUE]
  /\ stopSet' = [stopSet EXCEPT ![s] = FALSE]
  /\ UNCHANGED <<locked, manifest, exports, tasks, receipts, disk, native, up, stream, op,
                 crashes, history>>

\* The writer creates the video file before the pose timeline and may fail after
\* either.
Partials == Names \X {"partial"}
Opened == {{}, {<<"video", "partial">>}, Partials}

Write(s, created) == files' = [files EXCEPT ![s] = @ \cup created]

\* The fixture is written in the starting transaction; it may fail half way.
start_synthetic_demo(s) ==
  /\ Request
  /\ s \in Synthetic
  /\ state[s] = "PREFLIGHT_READY"
  /\ assert_no_active_collection
  /\ \/ /\ state' = [state EXCEPT ![s] = "RECORDING"]
        /\ stream' = [stream EXCEPT ![s] = TRUE]
        /\ Write(s, Partials)
     \/ /\ state' = [state EXCEPT ![s] = "FAILED"]
        /\ \E created \in Opened : Write(s, created)
        /\ UNCHANGED stream
  /\ UNCHANGED <<locked, manifest, exports, tasks, receipts, dir, native, up, worker,
                 registered, stopSet, op, crashes, history>>

verify_artifacts(s) ==
  manifest[s] /\ dir[s] = "live" /\ (Names \X {"final"}) \subseteq files[s]

\* mutant: the manifest is not verified before the seal
seal_unverified(s) ==
  /\ Request
  /\ state[s] = "STOPPED"
  /\ state' = [state EXCEPT ![s] = "SEALED"]
  /\ UNCHANGED <<locked, manifest, exports, tasks, receipts, disk, native, up, threads, op,
                 crashes, history>>

seal(s) ==
  /\ Request
  /\ state[s] = "STOPPED"
  /\ verify_artifacts(s)
  /\ state' = [state EXCEPT ![s] = "SEALED"]
  /\ UNCHANGED <<locked, manifest, exports, tasks, receipts, disk, native, up, threads, op,
                 crashes, history>>

\* The reviews that lock requires are not modelled here.
lock(s) ==
  /\ Request
  /\ state[s] = "SEALED"
  /\ ~ locked[s]
  /\ locked' = [locked EXCEPT ![s] = TRUE]
  /\ UNCHANGED <<state, manifest, exports, tasks, receipts, disk, native, up, threads, op,
                 crashes, history>>

------------------------------------------------------------------------------
(* The capture worker. *)

Fail(s) ==
  /\ state' = [state EXCEPT ![s] = "FAILED"]
  /\ stream' = [stream EXCEPT ![s] = FALSE]

WorkerGoes(s, pc) == worker' = [worker EXCEPT ![s] = pc]

\* Top of the loop: the stop event, else a read that gives a frame or raises.
worker_loop(s) ==
  /\ worker[s] = "loop"
  /\ \/ stopSet[s] /\ WorkerGoes(s, "dead")
     \/ ~ stopSet[s] /\ \E pc \in {"ingest", "fault"} : WorkerGoes(s, pc)
  /\ UNCHANGED <<database, disk, native, up, registered, stopSet, stream, op, crashes, history>>

\* mutant: the authority is validated at the start of the collection only
ingest_trusting(s) ==
  /\ worker[s] = "ingest"
  /\ LockFree
  /\ \/ /\ state[s] # "RECORDING"
        /\ WorkerGoes(s, "dead")
        /\ UNCHANGED <<state, files, stream>>
     \/ /\ state[s] = "RECORDING"
        /\ Write(s, Partials)
        /\ stream' = [stream EXCEPT ![s] = TRUE]
        /\ WorkerGoes(s, "after")
        /\ UNCHANGED state
  /\ UNCHANGED <<locked, manifest, exports, tasks, receipts, dir, native, up, registered,
                 stopSet, op, crashes, history>>

\* Under the lock: a session that records no longer raises InvalidTransition and
\* ends the thread; the authority is validated for every frame; a frame that is
\* invalid or cannot be written fails the session; and when even that fails (an
\* fsync or SQLite error) the row is rolled back, the writer is gone and the
\* exception reaches _camera_worker.
ingest_frame(s) ==
  /\ worker[s] = "ingest"
  /\ LockFree
  /\ \/ /\ state[s] # "RECORDING"
        /\ WorkerGoes(s, "dead")
        /\ UNCHANGED <<state, files, stream>>
     \/ /\ state[s] = "RECORDING"
        /\ validate_export_authority(s)
        /\ Write(s, Partials)
        /\ stream' = [stream EXCEPT ![s] = TRUE]
        /\ WorkerGoes(s, "after")
        /\ UNCHANGED state
     \/ /\ state[s] = "RECORDING"
        /\ Fail(s)
        /\ \E created \in Opened : Write(s, created)
        /\ WorkerGoes(s, "after")
     \/ /\ state[s] = "RECORDING"
        /\ stream' = [stream EXCEPT ![s] = FALSE]
        /\ \E created \in Opened : Write(s, created)
        /\ WorkerGoes(s, "fault")
        /\ UNCHANGED state
  /\ UNCHANGED <<locked, manifest, exports, tasks, receipts, dir, native, up, registered,
                 stopSet, op, crashes, history>>

worker_after(s) ==
  /\ worker[s] = "after"
  /\ LockFree
  /\ WorkerGoes(s, IF state[s] = "RECORDING" THEN "loop" ELSE "dead")
  /\ UNCHANGED <<database, disk, native, up, registered, stopSet, stream, op, crashes, history>>

\* The except clause of _camera_worker.  If recording the failure fails too, the
\* thread ends and the row still says RECORDING.
worker_fault(s) ==
  /\ worker[s] = "fault"
  /\ LockFree
  /\ \/ state[s] = "RECORDING" /\ Fail(s)
     \/ state[s] = "RECORDING" /\ stream' = [stream EXCEPT ![s] = FALSE] /\ UNCHANGED state
     \/ state[s] # "RECORDING" /\ UNCHANGED <<state, stream>>
  /\ WorkerGoes(s, "dead")
  /\ UNCHANGED <<locked, manifest, exports, tasks, receipts, disk, native, up, registered,
                 stopSet, op, crashes, history>>

WorkerStep(s) == worker_loop(s) \/ ingest_frame(s) \/ worker_after(s) \/ worker_fault(s)

------------------------------------------------------------------------------
(* stop: signal, join without the lock, finalise the artifacts, commit. *)

Begin(kind, s, step, decision, rest) == op' = Busy(kind, s, step, decision, rest)

\* A request in progress at a step of its own.
At(kind, s, step) == op.kind = kind /\ op.session = s /\ op.step = step

SignalStop(s) == stopSet' = [stopSet EXCEPT ![s] = @ \/ registered[s]]

Unregister(s) == registered' = [registered EXCEPT ![s] = FALSE]

\* join returned: the thread is dead, or was never there
Joined(s) == ~ (registered[s] /\ Alive(s))

stop_begin(s) ==
  /\ Request
  /\ state[s] = "RECORDING"
  /\ SignalStop(s)
  /\ Begin("stop", s, "join", None, {})
  /\ UNCHANGED <<database, disk, native, up, worker, registered, stream, crashes, history>>

\* The join may time out.  Only a session that still records is failed; for any
\* other _require_state raises.  The thread stays registered.
stop_timeout(s) ==
  /\ At("stop", s, "join")
  /\ ~ Joined(s)
  /\ IF state[s] = "RECORDING" THEN Fail(s) ELSE UNCHANGED <<state, stream>>
  /\ op' = Idle
  /\ UNCHANGED <<locked, manifest, exports, tasks, receipts, disk, native, up, worker,
                 registered, stopSet, crashes, history>>

\* The worker failed the session while it was being joined.
stop_refused(s) ==
  /\ At("stop", s, "join")
  /\ Joined(s)
  /\ state[s] # "RECORDING"
  /\ op' = Idle
  /\ UNCHANGED <<database, disk, native, up, threads, crashes, history>>

\* _close_stream_locked(finalize=True) closes the writer; without one there is
\* nothing to finalise and the session stops with no manifest.
stop_joined(s) ==
  /\ At("stop", s, "join")
  /\ Joined(s)
  /\ state[s] = "RECORDING"
  /\ Unregister(s)
  /\ stream' = [stream EXCEPT ![s] = FALSE]
  /\ \/ stream[s] /\ Begin("stop", s, "files", None, Partials) /\ UNCHANGED state
     \/ /\ ~ stream[s]
        /\ state' = [state EXCEPT ![s] = "STOPPED"]
        /\ op' = Idle
  /\ UNCHANGED <<locked, manifest, exports, tasks, receipts, disk, native, up, worker,
                 stopSet, crashes, history>>

\* The transcoded video is moved into place before its source is removed; the
\* pose timeline is renamed last.
stop_files(s) ==
  /\ At("stop", s, "files")
  /\ op.rest # {}
  /\ \/ /\ <<"video", "partial">> \in op.rest
        /\ <<"video", "final">> \notin files[s]
        /\ files' = [files EXCEPT ![s] = @ \cup {<<"video", "final">>}]
        /\ UNCHANGED op
     \/ /\ <<"video", "final">> \in files[s]
        /\ <<"video", "partial">> \in op.rest
        /\ files' = [files EXCEPT ![s] = @ \ {<<"video", "partial">>}]
        /\ op' = [op EXCEPT !.rest = @ \ {<<"video", "partial">>}]
     \/ /\ op.rest = {<<"pose", "partial">>}
        /\ files' = [files EXCEPT ![s] = (@ \ op.rest) \cup {<<"pose", "final">>}]
        /\ op' = [op EXCEPT !.rest = {}]
  /\ UNCHANGED <<database, dir, native, up, threads, crashes, history>>

\* Any of these steps can raise: ARTIFACT_WRITE_FAILED; so can writing the row, and
\* then the transaction is rolled back to RECORDING.
stop_failed(s) ==
  /\ At("stop", s, "files")
  /\ state' \in {state, [state EXCEPT ![s] = "FAILED"]}
  /\ op' = Idle
  /\ UNCHANGED <<locked, manifest, exports, tasks, receipts, disk, native, up, threads,
                 crashes, history>>

stop_commit(s) ==
  /\ At("stop", s, "files")
  /\ op.rest = {}
  /\ manifest' = [manifest EXCEPT ![s] = TRUE]
  /\ state' = [state EXCEPT ![s] = "STOPPED"]
  /\ op' = Idle
  /\ UNCHANGED <<locked, exports, tasks, receipts, disk, native, up, threads, crashes, history>>

------------------------------------------------------------------------------
(* withdraw (REAL) and withdraw_test_artifacts (synthetic). *)

\* _withdrawal_artifact_inventory_locked: what it accepts while the directory
\* exists.  A SEALED session must still verify; any other may hold artifacts under
\* their final, partial or once-quarantined names.
inventory_accepted(s) ==
  \/ dir[s] # "live"
  \/ state[s] = "SEALED" /\ verify_artifacts(s) /\ files[s] \subseteq Names \X {"final"}
  \/ state[s] # "SEALED" /\ \A f \in files[s] : f[2] # "requarantined"

withdraw_begin(s) ==
  /\ Request
  /\ s \in Real
  /\ state[s] \notin {None, "DRAFT", "WITHDRAWN"}
  /\ withdrawal_authority(s)
  /\ SignalStop(s)
  /\ Begin("withdraw", s, "join", authority.decision, {})
  /\ UNCHANGED <<database, disk, native, up, worker, registered, stream, crashes, history>>

withdraw_timeout(s) ==
  /\ At("withdraw", s, "join")
  /\ ~ Joined(s)
  /\ Fail(s)
  /\ op' = Idle
  /\ UNCHANGED <<locked, manifest, exports, tasks, receipts, disk, native, up, worker,
                 registered, stopSet, crashes, history>>

\* The inventory is taken once; it raises on an artifact it does not accept.
StartErasing(s) ==
  IF inventory_accepted(s)
  THEN /\ Begin("withdraw", s, "files", op.decision, IF dir[s] = "live" THEN files[s] ELSE {})
       /\ erasing' = [erasing EXCEPT ![s] = TRUE]
  ELSE op' = Idle /\ UNCHANGED erasing

\* mutant: the withdrawal does not look whether the join timed out
withdraw_unjoined(s) ==
  /\ At("withdraw", s, "join")
  /\ Unregister(s)
  /\ stream' = [stream EXCEPT ![s] = FALSE]
  /\ StartErasing(s)
  /\ UNCHANGED <<database, disk, native, up, worker, stopSet, crashes, interrupted>>

withdraw_joined(s) ==
  /\ At("withdraw", s, "join")
  /\ Joined(s)
  /\ Unregister(s)
  /\ stream' = [stream EXCEPT ![s] = FALSE]
  /\ StartErasing(s)
  /\ UNCHANGED <<database, disk, native, up, worker, stopSet, crashes, interrupted>>

withdraw_test_artifacts(s) ==
  /\ Request
  /\ s \in Synthetic
  /\ state[s] \in {"SEALED", "FAILED"}
  /\ inventory_accepted(s)
  /\ Begin("withdraw", s, "files", "DELETE", IF dir[s] = "live" THEN files[s] ELSE {})
  /\ erasing' = [erasing EXCEPT ![s] = TRUE]
  /\ UNCHANGED <<database, disk, native, up, threads, crashes, interrupted>>

\* DELETE unlinks the inventory in the order of its names, then removes the
\* directory; QUARANTINE moves the whole directory.
withdraw_files(s) ==
  /\ At("withdraw", s, "files")
  /\ dir[s] = "live"
  /\ \/ /\ op.decision = "DELETE"
        /\ \E f \in op.rest :
              /\ f[1] = "video" => \A g \in op.rest : g[1] = "video"
              /\ files' = [files EXCEPT ![s] = @ \ {f}]
              /\ op' = [op EXCEPT !.rest = @ \ {f}]
        /\ UNCHANGED dir
     \/ /\ op.decision = "DELETE"
        /\ op.rest = {}
        /\ dir' = [dir EXCEPT ![s] = "gone"]
        /\ UNCHANGED <<files, op>>
     \/ /\ op.decision = "QUARANTINE"
        /\ dir' = [dir EXCEPT ![s] = "quarantined"]
        /\ UNCHANGED <<files, op>>
  /\ UNCHANGED <<database, native, up, threads, crashes, history>>

\* An unlink, rmdir or rename that raises rolls the transaction back, not the disk.
withdraw_failed(s) ==
  /\ At("withdraw", s, "files")
  /\ dir[s] = "live"
  /\ op' = Idle
  /\ UNCHANGED <<database, disk, native, up, threads, crashes, history>>

withdraw_commit(s) ==
  /\ At("withdraw", s, "files")
  /\ dir[s] # "live"
  /\ state' = [state EXCEPT ![s] = "WITHDRAWN"]
  /\ \/ /\ s \in Real
        /\ tasks' = [tasks EXCEPT ![s] = @ \cup exports[s]]
        /\ receipts' = [receipts EXCEPT ![s] = @ + 1]
     \/ s \in Synthetic /\ UNCHANGED <<tasks, receipts>>
  /\ op' = Idle
  /\ UNCHANGED <<locked, manifest, exports, disk, native, up, threads, crashes, history>>

------------------------------------------------------------------------------
(* export_allowlisted: checks under the lock, builds without it, records the id.
   The set Exports bounds how many bundles are made. *)

export_begin(s) ==
  /\ Request
  /\ state[s] = "SEALED"
  /\ verify_artifacts(s)
  /\ locked[s]
  /\ s \in Real => validate_export_authority(s)
  /\ UNION {exports[t] : t \in Sessions} # Exports
  /\ Begin("export", s, "build", None, {})
  /\ UNCHANGED <<database, disk, native, up, threads, crashes, history>>

export_commit(s) ==
  /\ At("export", s, "build")
  /\ \E e \in Exports \ UNION {exports[t] : t \in Sessions} :
        exports' = [exports EXCEPT ![s] = @ \cup {e}]
  /\ op' = Idle
  /\ UNCHANGED <<state, locked, manifest, tasks, receipts, disk, native, up, threads, crashes,
                 history>>

------------------------------------------------------------------------------
(* The end of the process (a crash, or close) and recover at the next start. *)

Crash ==
  /\ crashes < MaxCrashes
  /\ crashes' = crashes + 1
  /\ up' = FALSE
  /\ op' = Idle
  /\ worker' = [s \in Sessions |-> "none"]
  /\ registered' = [s \in Sessions |-> FALSE]
  /\ stopSet' = [s \in Sessions |-> FALSE]
  /\ stream' = [s \in Sessions |-> FALSE]
  /\ interrupted' = [s \in Sessions |-> interrupted[s] \/ state[s] = "RECORDING"]
  /\ UNCHANGED <<database, disk, native, erasing>>

\* The glob *.partial* also matches a name that recover quarantined before.
unfinished(s) == {f \in files[s] : f[2] # "final"}

recover_begin(s) ==
  /\ ~ up
  /\ op = Idle
  /\ state[s] = "RECORDING"
  /\ Begin("recover", s, "files", None, unfinished(s))
  /\ UNCHANGED <<database, disk, native, up, threads, crashes, history>>

\* name -> name.quarantine; a third pass over one file is not told from a second
quarantine(f) == <<f[1], IF f[2] = "partial" THEN "quarantined" ELSE "requarantined">>

recover_file(s) ==
  /\ At("recover", s, "files")
  /\ \E f \in op.rest :
        /\ files' = [files EXCEPT ![s] = (@ \ {f}) \cup {quarantine(f)}]
        /\ op' = [op EXCEPT !.rest = @ \ {f}]
  /\ UNCHANGED <<database, dir, native, up, threads, crashes, history>>

recover_commit(s) ==
  /\ At("recover", s, "files")
  /\ op.rest = {}
  /\ state' = [state EXCEPT ![s] = "FAILED"]
  /\ op' = Idle
  /\ UNCHANGED <<locked, manifest, exports, tasks, receipts, disk, native, up, threads, crashes,
                 history>>

Serve ==
  /\ ~ up
  /\ op = Idle
  /\ \A s \in Sessions : state[s] # "RECORDING"
  /\ up' = TRUE
  /\ UNCHANGED <<database, disk, native, threads, op, crashes, history>>

------------------------------------------------------------------------------
Stop(s) == \/ stop_timeout(s) \/ stop_refused(s) \/ stop_joined(s)
           \/ stop_files(s) \/ stop_failed(s) \/ stop_commit(s)

Withdraw(s) == \/ withdraw_timeout(s) \/ withdraw_joined(s)
               \/ withdraw_files(s) \/ withdraw_failed(s) \/ withdraw_commit(s)

Recover(s) == recover_begin(s) \/ recover_file(s) \/ recover_commit(s)

\* Steps the code takes by itself once an operation has begun.
Continue == \/ \E s \in Sessions : Stop(s) \/ Withdraw(s) \/ Recover(s) \/ export_commit(s)
            \/ Serve

Next ==
  \/ \E rec \in Records : InstallAuthority(rec)
  \/ RetentionExpires
  \/ \E s \in Sessions :
        \/ create_session(s) \/ preflight(s)
        \/ start_real_collection(s) \/ start_synthetic_demo(s)
        \/ WorkerStep(s)
        \/ stop_begin(s) \/ seal(s) \/ lock(s)
        \/ withdraw_begin(s) \/ withdraw_test_artifacts(s)
        \/ export_begin(s)
  \/ Continue
  \/ Crash

Spec == Init /\ [][Next]_vars

\* The lock is handed over: a thread that waits for it gets it in the end, and an
\* operation once begun goes on.
FairSpec ==
  /\ Spec
  /\ WF_vars(Continue)
  /\ \A s \in Sessions : SF_vars(WorkerStep(s))

------------------------------------------------------------------------------
(* Properties *)

\* Every variable has its type.
TypeOK ==
  /\ state \in [Sessions -> States \cup {None}]
  /\ locked \in [Sessions -> BOOLEAN]
  /\ manifest \in [Sessions -> BOOLEAN]
  /\ exports \in [Sessions -> SUBSET Exports]
  /\ tasks \in [Sessions -> SUBSET Exports]
  /\ receipts \in [Sessions -> 0 .. 1]
  /\ files \in [Sessions -> SUBSET (Names \X Forms)]
  /\ dir \in [Sessions -> {"none", "live", "gone", "quarantined"}]
  /\ authority \in Records \cup {None}
  /\ installs \in 0 .. MaxInstalls
  /\ up \in BOOLEAN
  /\ worker \in [Sessions -> {"none", "loop", "ingest", "after", "fault", "dead"}]
  /\ registered \in [Sessions -> BOOLEAN]
  /\ stopSet \in [Sessions -> BOOLEAN]
  /\ stream \in [Sessions -> BOOLEAN]
  /\ op \in Ops
  /\ crashes \in 0 .. MaxCrashes
  /\ interrupted \in [Sessions -> BOOLEAN]
  /\ erasing \in [Sessions -> BOOLEAN]

\* _camera_worker is "the only runtime camera owner": no two capture threads live
\* at once, also when a stop or a withdrawal timed out on the first of them.
SingleCamera == \A s, t \in Sessions : Alive(s) /\ Alive(t) => s = t

\* A sealed session has both artifacts, finalised and in the manifest, until its
\* withdrawal begins to remove them, and no writer that could still change them.  And
\* recover: "a partial recording is never sealed": a session that was recording when
\* the process died is never taken for a stopped or sealed one.
SealedIntact ==
  \A s \in Sessions :
    /\ state[s] = "SEALED" =>
         /\ ~ stream[s] /\ ~ Alive(s)
         /\ erasing[s] \/ verify_artifacts(s)
    /\ interrupted[s] => state[s] \notin {"STOPPED", "SEALED"}

\* When withdraw reports WITHDRAWN, nothing of the session is left in its directory,
\* nothing can write there any more, exactly one receipt was recorded and every
\* bundle exported before has a follow-up task.
WithdrawnComplete ==
  \A s \in Sessions : state[s] = "WITHDRAWN" =>
    /\ dir[s] \in {"gone", "quarantined"}
    /\ ~ stream[s] /\ ~ Alive(s)
    /\ s \in Real => receipts[s] = 1 /\ exports[s] = tasks[s]

\* While the process serves and no operation is in progress, a withdrawal that an
\* installed decision authorises can be carried out: DATA_GOVERNANCE.md, "The
\* participant can withdraw before or after a session".
WithdrawalAvailable ==
  up /\ op = Idle =>
    \A s \in Real : state[s] \notin {None, "DRAFT", "WITHDRAWN"} => inventory_accepted(s)

\* WITHDRAWN is final: no later step of a late worker, a timeout or recover takes a
\* session out of it, and nothing is exported afterwards.
WithdrawnIsFinal ==
  [][\A s \in Sessions : state[s] = "WITHDRAWN" =>
       state'[s] = "WITHDRAWN" /\ exports'[s] = exports[s] /\ dir'[s] = dir[s]]_vars

\* ingest_frame validates the authority for every frame: a camera whose session does
\* not record, or whose authority lapsed, was revoked or was replaced, is released
\* (unless the authority is restored first).
CameraReleased ==
  \A s \in Real :
    LET Allowed == state[s] = "RECORDING" /\ validate_export_authority(s)
    IN  Alive(s) /\ ~ Allowed ~> ~ Alive(s) \/ Allowed
============================================================================
