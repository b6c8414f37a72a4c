--------------------------- MODULE CaptureWorker ---------------------------
(***************************************************************************)
(* One D1 capture attempt (m2_d1_native.py and m2_d1_n2_native.py): the    *)
(* supervisor that launches a suspended worker into a Windows job, watches *)
(* its phase messages against deadlines and drains the job; the worker     *)
(* that opens the camera through one video child, inspects every frame and *)
(* cleans up; and the worker's reader thread, which fills two buffers.     *)
(*                                                                         *)
(* Three threads of control and the kernel interleave: supervisor, worker, *)
(* reader, and the job that kills its members when its last handle closes. *)
(* Time is counted in ticks from the ingress of the first frame, because   *)
(* the capture window is anchored there; the deadlines of the other phases *)
(* pass whenever the worker is slow.  Everything that can go wrong in the  *)
(* environment is recorded in `disturbed`, so that a property can speak of *)
(* the attempt in which nothing, or one thing, did.                        *)
(***************************************************************************)
EXTENDS Integers, Sequences, FiniteSets

CONSTANTS Lines,       \* the capture lines considered, among "N1" and "N2"
          Windows,     \* values of the monitor's capture_timeout, in ticks
          Preflight,   \* PREFLIGHT_SECONDS, in ticks
          MaxNow,      \* bound: ticks after the first frame
          MaxDisturb   \* bound: disturbances of an attempt, slowness aside

ASSUME LinesAssumption == Lines \subseteq {"N1", "N2"}
ASSUME TimeAssumption == /\ Preflight \in Nat /\ MaxNow \in Nat /\ MaxDisturb \in Nat
                         /\ Windows \subseteq 0 .. MaxNow /\ Preflight < MaxNow

VARIABLES
  line,      \* the line this attempt belongs to
  window,    \* its capture_timeout
  sup,       \* where the supervisor is
  mon,       \* what its monitor has observed
  verdict,   \* the result of the attempt
  inJob,     \* the worker is assigned to the job
  pipe,      \* the worker's stdout, with the lines already queued for the monitor
  w,         \* the worker: where it is and the state of its run
  child,     \* the video child
  rd,        \* the reader thread and its two queues
  content,   \* what each frame buffer holds
  seen,      \* ingress of the newest frame read, or -1
  now,       \* ticks since the first frame
  disturbed  \* what has gone wrong so far

vars == <<line, window, sup, mon, verdict, inJob, pipe, w, child, rd, content, seen, now, disturbed>>

None == "none"
Buffers == {0, 1}
NoBuffer == -1                     \* also the sentinel of _FrameReader.stop
Phases == {"AUTHORIZED", "PRIVACY_READY", "CAPTURE_STARTING", "FIRST_FRAME", "CAPTURE_CLOSED"}
AllClean == {"child", "reader", "pipe", "zero", "rest"}
Failures == {"POSE_ENGINE_UNAVAILABLE", "SCHEMA_INCOMPATIBLE", "INPUT_UNAVAILABLE",
             "INPUT_MALFORMED", "FRAME_STALLED", "FRAME_READER_EXCEPTION", "PRIVACY_STOP",
             "POSE_ENGINE_EXCEPTION", "QUALITY_INSUFFICIENT", "CLEANUP_INCOMPLETE",
             "CAPTURE_RUNTIME_EXCEPTION"}
Codes == Failures \cup {"PASS"}
NoReceipt == [code |-> None, raw |-> FALSE, clean |-> {}]

Alive == w.pc \notin {"absent", "suspended", "gone"}
Disturb(d) == /\ Cardinality(disturbed \ {"slow"}) < MaxDisturb
              /\ disturbed' = disturbed \cup {d}
Calm == UNCHANGED disturbed
Slow == disturbed' = disturbed \cup {"slow"}

Init ==
  /\ line \in Lines /\ window \in Windows
  /\ sup = "launch"
  /\ mon = [ran |-> FALSE, armed |-> FALSE, phases |-> {}, timed_out |-> FALSE, malformed |-> FALSE,
            payload |-> NoReceipt, drained |-> FALSE, forced |-> FALSE, closed |-> FALSE]
  /\ verdict = None
  /\ inJob = FALSE /\ pipe = <<>> /\ child = None
  /\ w = [pc |-> "absent", exit |-> None, first |-> FALSE, held |-> NoBuffer, at |-> -1, last |-> -1,
          closed |-> -1, failure |-> None, raw |-> FALSE, clean |-> {}]
  /\ rd = [pc |-> "off", buf |-> NoBuffer, free |-> <<0, 1>>, ready |-> <<>>]
  /\ content = [b \in Buffers |-> "zero"]
  /\ seen = -1 /\ now = 0 /\ disturbed = {}

-----------------------------------------------------------------------------
(* The job object, by what the kernel does to its members. *)

\* KILL_ON_JOB_CLOSE and TerminateJobObject end every member.
Killed == IF inJob /\ w.pc \notin {"absent", "gone"}
          THEN [w EXCEPT !.pc = "gone", !.exit = "killed"] ELSE w
KilledChild == IF inJob /\ child = "alive" THEN "dead" ELSE child
KillMembers == w' = Killed /\ child' = KilledChild

-----------------------------------------------------------------------------
(* The supervisor: launch. *)

\* _WindowsCaptureJob() and CreateProcess with CREATE_SUSPENDED.
Launch ==
  /\ sup = "launch" /\ sup' = "assign"
  /\ w' = [w EXCEPT !.pc = "suspended"]
  /\ UNCHANGED <<line, window, mon, verdict, inJob, pipe, child, rd, content, seen, now, disturbed>>

\* before_resume = job.assign.
Assign ==
  /\ sup = "assign" /\ sup' = "resume" /\ inJob' = TRUE
  /\ UNCHANGED <<line, window, mon, verdict, pipe, w, child, rd, content, seen, now, disturbed>>

\* An image check, the assignment or the resume fails: the child is killed.
LaunchFails ==
  /\ sup \in {"assign", "resume"} /\ Disturb("launch")
  /\ sup' = "close"
  /\ w' = [w EXCEPT !.pc = "gone", !.exit = "killed"]
  /\ UNCHANGED <<line, window, mon, verdict, inJob, pipe, child, rd, content, seen, now>>

Resume ==
  /\ sup = "resume" /\ sup' = "proceed"
  /\ w' = [w EXCEPT !.pc = "boot"]
  /\ UNCHANGED <<line, window, mon, verdict, inJob, pipe, child, rd, content, seen, now, disturbed>>

\* The grant is written to the worker's stdin; a failed write ends in the
\* finally clause, which closes the job, and which N2's driver precedes with
\* terminate_and_drain.
Proceed ==
  /\ sup = "proceed"
  /\ \/ Calm /\ sup' = "monitor" /\ mon' = [mon EXCEPT !.ran = TRUE] /\ UNCHANGED <<w, child>>
     \/ /\ Disturb("proceed") /\ sup' = "close" /\ UNCHANGED mon
        /\ IF line = "N2" THEN KillMembers ELSE UNCHANGED <<w, child>>
  /\ UNCHANGED <<line, window, verdict, inJob, pipe, rd, content, seen, now>>

-----------------------------------------------------------------------------
(* The worker. *)

Message(event) == [event |-> event, ts |-> now, receipt |-> NoReceipt]
Send(m) == pipe' = Append(pipe, m)

\* The event sink of the line: N1's serializer knows two phases and raises
\* for the others.
Emits(event) == line = "N2" \/ event \in {"PRIVACY_READY", "CAPTURE_STARTING"}

\* Job membership and grant are checked before anything else.
WorkerBoot ==
  /\ w.pc = "boot" /\ sup \in {"monitor", "drain"}
  /\ \/ inJob /\ Calm /\ w' = [w EXCEPT !.pc = "liveness"] /\ Send(Message("AUTHORIZED"))
     \/ /\ (~inJob /\ Calm) \/ Disturb("refused")
        /\ w' = [w EXCEPT !.pc = "gone", !.exit = "nonzero"] /\ UNCHANGED pipe
  /\ UNCHANGED <<line, window, sup, mon, verdict, inJob, child, rd, content, seen, now>>

FailsWith(code, pc) == w' = [w EXCEPT !.pc = pc, !.failure = code]

WorkerLiveness ==
  /\ w.pc = "liveness"
  /\ \/ Calm /\ w' = [w EXCEPT !.pc = "device"] /\ Send(Message("PRIVACY_READY"))
     \/ Disturb("engine") /\ FailsWith("POSE_ENGINE_UNAVAILABLE", "report") /\ UNCHANGED pipe
  /\ UNCHANGED <<line, window, sup, mon, verdict, inJob, child, rd, content, seen, now>>

\* Camera enumeration, the leased FFmpeg image, the video mutex; an exception
\* there is a code of its own in N2.
WorkerDevice ==
  /\ w.pc = "device"
  /\ \/ Calm /\ w' = [w EXCEPT !.pc = "start"]
     \/ Disturb("device") /\ FailsWith("SCHEMA_INCOMPATIBLE", "report")
     \/ line = "N2" /\ Disturb("device") /\ FailsWith("CAPTURE_RUNTIME_EXCEPTION", "report")
  /\ UNCHANGED <<line, window, sup, mon, verdict, inJob, pipe, child, rd, content, seen, now>>

\* The two buffers, CAPTURE_STARTING, the video child and the reader thread.
WorkerStart ==
  /\ w.pc = "start" /\ Send(Message("CAPTURE_STARTING"))
  /\ \/ /\ Calm
        /\ child' = "alive" /\ rd' = [rd EXCEPT !.pc = "get"]
        /\ w' = [w EXCEPT !.pc = "next", !.raw = TRUE]
     \/ /\ Disturb("spawn") /\ UNCHANGED <<child, rd>>
        /\ w' = [w EXCEPT !.pc = "terminate", !.raw = TRUE, !.failure = "CAPTURE_RUNTIME_EXCEPTION"]
  /\ UNCHANGED <<line, window, sup, mon, verdict, inJob, content, seen, now>>

\* mutant: the buffer is released before it is inspected
WorkerTakesReleasing ==
  /\ w.pc = "next" /\ rd.ready # <<>> /\ Head(rd.ready).kind = "frame" /\ (w.first \/ Emits("FIRST_FRAME"))
  /\ LET e == Head(rd.ready)
     IN /\ rd' = [rd EXCEPT !.ready = Tail(@), !.free = Append(@, e.buf)]
        /\ w' = [w EXCEPT !.pc = "inspect", !.held = e.buf, !.first = TRUE, !.at = e.at]
  /\ UNCHANGED <<line, window, sup, mon, verdict, inJob, pipe, child, content, seen, now, disturbed>>

\* reader.next() returned: the loop's checks up to the privacy inspection.
WorkerTakes ==
  /\ w.pc = "next" /\ rd.ready # <<>>
  /\ LET e == Head(rd.ready)
         fail == CASE e.kind = "eof" -> IF w.last = -1 THEN "INPUT_UNAVAILABLE" ELSE "INPUT_MALFORMED"
                   [] e.kind = "exception" -> "FRAME_READER_EXCEPTION"
                   [] e.kind = "short" -> "INPUT_MALFORMED"
                   [] e.kind = "frame" /\ ~w.first /\ ~Emits("FIRST_FRAME") -> "CAPTURE_RUNTIME_EXCEPTION"
                   [] OTHER -> None
         first == w.first \/ e.kind = "frame"
     IN /\ rd' = [rd EXCEPT !.ready = Tail(@)]
        /\ w' = [w EXCEPT !.pc = IF fail = None THEN "inspect" ELSE "terminate",
                          !.failure = fail, !.held = e.buf, !.first = first,
                          !.at = IF e.kind = "frame" THEN e.at ELSE @]
        /\ IF fail = None /\ ~w.first
           THEN Send([Message("FIRST_FRAME") EXCEPT !.ts = e.at]) ELSE UNCHANGED pipe
  /\ UNCHANGED <<line, window, sup, mon, verdict, inJob, child, content, seen, now, disturbed>>

\* No frame within a second, or one a second after its predecessor.
WorkerStalls ==
  /\ w.pc = "next" /\ Disturb("stall")
  /\ rd.ready # <<>> => w.last # -1 /\ Head(rd.ready).kind = "frame"
  /\ FailsWith(IF rd.ready = <<>> /\ rd.pc = "end" THEN "FRAME_READER_EXCEPTION" ELSE "FRAME_STALLED",
               "terminate")
  /\ UNCHANGED <<line, window, sup, mon, verdict, inJob, pipe, child, rd, content, seen, now>>

\* inspect_face, inspect_pose, record, and the buffer goes back.
WorkerInspects ==
  /\ w.pc = "inspect"
  /\ \/ /\ Calm
        /\ w' = [w EXCEPT !.pc = IF w.at >= Preflight THEN "terminate" ELSE "next",
                          !.last = w.at, !.held = NoBuffer]
        /\ rd' = [rd EXCEPT !.free = Append(@, w.held)]
     \/ Disturb("person") /\ FailsWith("PRIVACY_STOP", "terminate") /\ UNCHANGED rd
     \/ Disturb("pose") /\ FailsWith("POSE_ENGINE_EXCEPTION", "terminate") /\ UNCHANGED rd
  /\ UNCHANGED <<line, window, sup, mon, verdict, inJob, pipe, child, content, seen, now>>

\* _cleanup_child: terminate or kill the child and wait for it, then ask the
\* reader to stop.  Ending a process takes time: the clock has moved on since
\* the last frame's ingress.
WorkerTerminates ==
  /\ w.pc = "terminate" /\ now > w.at
  /\ \/ child = None /\ Calm /\ UNCHANGED child /\ w' = [w EXCEPT !.pc = "join"]
     \/ child # None /\ Calm /\ child' = "dead"
        /\ w' = [w EXCEPT !.pc = "join", !.clean = @ \cup {"child"}]
     \/ child = "alive" /\ Disturb("unkillable") /\ UNCHANGED child /\ w' = [w EXCEPT !.pc = "join"]
  /\ rd' = IF rd.pc # "off" /\ Len(rd.free) < 2 THEN [rd EXCEPT !.free = Append(@, NoBuffer)] ELSE rd
  /\ UNCHANGED <<line, window, sup, mon, verdict, inJob, pipe, content, seen, now>>

\* A child that did not end within the two waits may end later: the kill takes effect
\* after all, or it writes to the pipe that the clean-up has closed.
ChildDiesLate ==
  /\ child = "alive" /\ "unkillable" \in disturbed
  /\ child' = "dead"
  /\ UNCHANGED <<line, window, sup, mon, verdict, inJob, pipe, w, rd, content, seen, now, disturbed>>

\* The join succeeded: close the pipe, zero the buffers.
WorkerJoins ==
  /\ w.pc = "join" /\ rd.pc \in {"off", "end"}
  /\ \/ Calm /\ w' = [w EXCEPT !.pc = "close", !.raw = FALSE,
                               !.clean = @ \cup {"reader", "zero"}
                                           \cup (IF child = None THEN {} ELSE {"pipe"})]
     \/ child # None /\ Disturb("pipe")
        /\ w' = [w EXCEPT !.pc = "close", !.raw = FALSE, !.clean = @ \cup {"reader", "zero"}]
  /\ content' = [b \in Buffers |-> "zero"]
  /\ UNCHANGED <<line, window, sup, mon, verdict, inJob, pipe, child, rd, seen, now>>

\* The join timed out: the reader may still write, so nothing is zeroed.
WorkerJoinTimesOut ==
  /\ w.pc = "join" /\ rd.pc \in {"get", "read"}
  /\ (child = "alive" /\ Calm) \/ Disturb("stuck")
  /\ w' = [w EXCEPT !.pc = "close"]
  /\ UNCHANGED <<line, window, sup, mon, verdict, inJob, pipe, child, rd, content, seen, now>>

\* Media, FFmpeg lease and mutex; the cleanup verdict; CAPTURE_CLOSED.
WorkerCloses ==
  /\ w.pc = "close"
  /\ \E rest \in {{}, {"rest"}} :
       /\ IF rest = {} THEN Disturb("leak") ELSE Calm
       /\ LET clean == w.clean \cup rest
              swept == IF clean # AllClean /\ w.failure # "PRIVACY_STOP"
                       THEN "CLEANUP_INCOMPLETE" ELSE w.failure
              announce == {"pipe", "child", "reader"} \subseteq clean
              fail == IF announce /\ ~Emits("CAPTURE_CLOSED") /\ swept # "PRIVACY_STOP"
                      THEN "CAPTURE_RUNTIME_EXCEPTION" ELSE swept
          IN /\ w' = [w EXCEPT !.pc = "report", !.clean = clean, !.failure = fail, !.closed = now]
             /\ IF announce /\ Emits("CAPTURE_CLOSED")
                THEN Send(Message("CAPTURE_CLOSED")) ELSE UNCHANGED pipe
  /\ UNCHANGED <<line, window, sup, mon, verdict, inJob, child, rd, content, seen, now>>

\* The receipt; without a failure the measured quality decides.
WorkerReports ==
  /\ w.pc = "report"
  /\ \E code \in Codes :
       /\ \/ w.failure # None /\ code = w.failure /\ Calm
          \/ w.failure = None /\ code = "PASS" /\ Calm
          \/ w.failure = None /\ code = "QUALITY_INSUFFICIENT" /\ Disturb("quality")
       /\ Send([Message("RECEIPT") EXCEPT !.receipt = [code |-> code, raw |-> w.raw, clean |-> w.clean]])
  /\ w' = [w EXCEPT !.pc = "return"]
  /\ UNCHANGED <<line, window, sup, mon, verdict, inJob, child, rd, content, seen, now>>

WorkerReturns ==
  /\ w.pc = "return" /\ w' = [w EXCEPT !.pc = "gone", !.exit = "zero"]
  /\ UNCHANGED <<line, window, sup, mon, verdict, inJob, pipe, child, rd, content, seen, now, disturbed>>

\* The worker process dies; its child does not die with it.
WorkerCrash ==
  /\ Alive /\ Disturb("worker") /\ w' = [w EXCEPT !.pc = "gone", !.exit = "nonzero"]
  /\ UNCHANGED <<line, window, sup, mon, verdict, inJob, pipe, child, rd, content, seen, now>>

-----------------------------------------------------------------------------
(* The reader thread, _FrameReader._run. *)

Ready(kind) == [kind |-> kind, buf |-> rd.buf, at |-> now]

\* index = self._free.get()
ReaderGets ==
  /\ Alive /\ rd.pc = "get" /\ rd.free # <<>>
  /\ rd' = [rd EXCEPT !.free = Tail(@), !.buf = Head(rd.free),
                      !.pc = IF Head(rd.free) = NoBuffer THEN "end" ELSE "read"]
  /\ UNCHANGED <<line, window, sup, mon, verdict, inJob, pipe, w, child, content, seen, now, disturbed>>

\* readinto fills the buffer, and the ingress time is taken.
ReaderFills ==
  /\ Alive /\ rd.pc = "read" /\ child = "alive" /\ seen < now /\ now < MaxNow
  /\ content' = [content EXCEPT ![rd.buf] = "frame"]
  /\ rd' = [rd EXCEPT !.pc = "get", !.ready = Append(@, Ready("frame"))]
  /\ seen' = now
  /\ UNCHANGED <<line, window, sup, mon, verdict, inJob, pipe, w, child, now, disturbed>>

\* Part of a frame: the camera misbehaves, or the child died while writing.
ReaderFillsShort ==
  /\ Alive /\ rd.pc = "read"
  /\ (child = "dead" /\ Calm) \/ Disturb("short")
  /\ content' = [content EXCEPT ![rd.buf] = "frame"]
  /\ rd' = [rd EXCEPT !.pc = "get", !.ready = Append(@, Ready("short"))]
  /\ UNCHANGED <<line, window, sup, mon, verdict, inJob, pipe, w, child, seen, now>>

\* End of file or an exception ends the thread.
ReaderEnds ==
  /\ Alive /\ rd.pc = "read"
  /\ \E kind \in {"eof", "exception"} :
       /\ (kind = "eof" /\ child = "dead" /\ Calm) \/ Disturb(kind)
       /\ child' = IF kind = "eof" THEN "dead" ELSE child
       /\ rd' = [rd EXCEPT !.pc = "end", !.ready = Append(@, Ready(kind))]
  /\ UNCHANGED <<line, window, sup, mon, verdict, inJob, pipe, w, content, seen, now>>

-----------------------------------------------------------------------------
(* The supervisor's monitor, _monitor_capture_worker. *)

\* While frames are captured the deadline is the first frame's ingress plus
\* capture_timeout; every other phase has a deadline of its own.
Capturing == "FIRST_FRAME" \in mon.phases /\ "CAPTURE_CLOSED" \notin mon.phases
\* mutant: only the capture window has a deadline
ExpiresCapturing == Capturing /\ now >= window /\ Calm
Expires == IF Capturing THEN now >= window /\ Calm ELSE Slow

\* remaining = deadline - time.monotonic(), then the wait on the queue.
MonitorArms ==
  /\ sup = "monitor" /\ ~mon.armed /\ (Capturing => now < window)
  /\ mon' = [mon EXCEPT !.armed = TRUE]
  /\ UNCHANGED <<line, window, sup, verdict, inJob, pipe, w, child, rd, content, seen, now, disturbed>>

\* Past the deadline on entry, or queue.Empty: a line already queued wins.
MonitorTimesOut ==
  /\ sup = "monitor" /\ sup' = "drain" /\ (mon.armed => pipe = <<>>)
  /\ Expires
  /\ mon' = [mon EXCEPT !.timed_out = TRUE]
  /\ UNCHANGED <<line, window, verdict, inJob, pipe, w, child, rd, content, seen, now>>

\* End of the worker's output before a receipt.
MonitorSeesEnd ==
  /\ sup = "monitor" /\ sup' = "drain" /\ mon.armed /\ pipe = <<>> /\ w.pc = "gone"
  /\ UNCHANGED <<line, window, mon, verdict, inJob, pipe, w, child, rd, content, seen, now, disturbed>>

Opening == {"AUTHORIZED", "PRIVACY_READY", "CAPTURE_STARTING"}
\* mutant: the closing stamp is not compared with the window
CloseAnyTime(m) == TRUE
CloseInWindow(m) == "FIRST_FRAME" \in mon.phases => m.ts <= window

\* The conditions under which a phase message is well placed.
Accepts(m) ==
  CASE m.event = "AUTHORIZED" -> mon.phases \cap {"AUTHORIZED", "FIRST_FRAME"} = {}
    [] m.event = "PRIVACY_READY" ->
         "AUTHORIZED" \in mon.phases /\ mon.phases \subseteq {"AUTHORIZED"}
    [] m.event = "CAPTURE_STARTING" ->
         "PRIVACY_READY" \in mon.phases /\ mon.phases \cap {"CAPTURE_STARTING", "FIRST_FRAME"} = {}
    [] m.event = "FIRST_FRAME" -> Opening \subseteq mon.phases /\ "FIRST_FRAME" \notin mon.phases
    [] m.event = "CAPTURE_CLOSED" -> /\ Opening \subseteq mon.phases
                                     /\ "CAPTURE_CLOSED" \notin mon.phases
                                     /\ CloseInWindow(m)
    [] OTHER -> TRUE

Stamped == {"CAPTURE_STARTING", "FIRST_FRAME", "CAPTURE_CLOSED"}

\* One line of the worker.  The supervisor's clock and the worker's need not
\* agree: a stamp that lies in the supervisor's future is malformed.
MonitorReads ==
  /\ sup = "monitor" /\ mon.armed /\ pipe # <<>>
  /\ LET m == Head(pipe)
         late == m.event = "FIRST_FRAME" /\ window <= now
     IN \/ /\ Accepts(m) /\ m.event # "RECEIPT" /\ Calm
           /\ mon' = [mon EXCEPT !.armed = FALSE, !.phases = @ \cup {m.event}, !.timed_out = late]
           /\ sup' = IF late THEN "drain" ELSE sup
        \/ /\ m.event = "RECEIPT" /\ Calm
           /\ mon' = [mon EXCEPT !.payload = m.receipt] /\ sup' = "drain"
        \/ /\ (~Accepts(m) /\ Calm) \/ (m.event \in Stamped /\ Disturb("skew"))
           /\ mon' = [mon EXCEPT !.malformed = TRUE] /\ sup' = "drain"
  /\ pipe' = Tail(pipe)
  /\ UNCHANGED <<line, window, verdict, inJob, w, child, rd, content, seen, now>>

Reported == mon.payload # NoReceipt /\ ~mon.timed_out /\ ~mon.malformed
JobEmpty == w.pc = "gone" /\ child # "alive"

\* wait_drained: the worker has ended and the job has no active process.
DrainGracefully ==
  /\ sup = "drain" /\ Reported /\ JobEmpty
  /\ sup' = "close" /\ mon' = [mon EXCEPT !.drained = TRUE]
  /\ UNCHANGED <<line, window, verdict, inJob, pipe, w, child, rd, content, seen, now, disturbed>>

\* terminate_and_drain, at once or after wait_drained gave up.
DrainByForce ==
  /\ sup = "drain" /\ ~(Reported /\ JobEmpty)
  /\ sup' = "close"
  /\ \/ /\ IF Reported /\ w.pc # "gone" THEN Slow ELSE Calm
        /\ KillMembers /\ mon' = [mon EXCEPT !.forced = TRUE, !.drained = TRUE]
     \/ Disturb("terminate") /\ UNCHANGED <<w, child>> /\ mon' = [mon EXCEPT !.forced = TRUE]
  /\ UNCHANGED <<line, window, verdict, inJob, pipe, rd, content, seen, now>>

-----------------------------------------------------------------------------
(* The verdict. *)

\* _monitor_allows_candidate, with the job closed.
Allowed(closed) ==
  /\ mon.ran /\ Reported /\ "AUTHORIZED" \in mon.phases
  /\ mon.drained /\ ~mon.forced /\ w.exit = "zero" /\ closed

\* _monitor_failure_code
MonitorFailure(closed) ==
  CASE mon.timed_out ->
         IF "AUTHORIZED" \notin mon.phases \/ "CAPTURE_CLOSED" \in mon.phases
           THEN "WORKER_PROTOCOL_FAILURE"
         ELSE IF "PRIVACY_READY" \notin mon.phases \/ "FIRST_FRAME" \in mon.phases
           THEN "PRIVACY_GUARD_TIMEOUT" ELSE "CAPTURE_STARTUP_TIMEOUT"
    [] ~mon.timed_out /\ (~closed \/ ~mon.drained) -> "CLEANUP_INCOMPLETE"
    [] OTHER -> "WORKER_PROTOCOL_FAILURE"

\* _worker_failure_phases_valid: a NO_GO code at a phase it can arise in.
PhasesValid(r) ==
  LET ready == "PRIVACY_READY" \in mon.phases
      starting == "CAPTURE_STARTING" \in mon.phases
      first == "FIRST_FRAME" \in mon.phases
      ended == "CAPTURE_CLOSED" \in mon.phases
  IN CASE r.code = "POSE_ENGINE_UNAVAILABLE" -> mon.phases \subseteq {"AUTHORIZED"}
       [] r.code = "SCHEMA_INCOMPATIBLE" -> ready /\ ~starting /\ ~first /\ ~ended
       [] r.code = "INPUT_UNAVAILABLE" -> ready /\ starting /\ ~first /\ ended
       [] r.code = "CLEANUP_INCOMPLETE" -> ready /\ starting /\ (ended \/ r.clean # AllClean)
       [] r.code \in {"PRIVACY_STOP", "POSE_ENGINE_EXCEPTION", "QUALITY_INSUFFICIENT"} ->
            ready /\ starting /\ first /\ (ended \/ r.clean # AllClean)
       [] OTHER -> ready /\ starting

\* _run_windows_capture_worker, from the monitor's result on.
N1Verdict(closed) ==
  LET r == mon.payload
  IN IF ~mon.ran THEN "UNKNOWN_TECHNICAL_FAILURE"
     ELSE IF ~Allowed(closed) THEN MonitorFailure(closed)
     ELSE IF IF r.code = "PASS" THEN mon.phases = Phases /\ r.clean = AllClean ELSE PhasesValid(r)
       THEN r.code ELSE "WORKER_PROTOCOL_FAILURE"

\* mutant: a privacy stop is reported like any other failure
N2CodeCoarse(code) ==
  IF code \in {"PASS", "FRAME_STALLED", "QUALITY_INSUFFICIENT"} THEN code ELSE "CAPTURE_RUNTIME_FAILED"

\* The coarser codes of an N2 receipt.
N2Code(code) ==
  CASE code \in {"PASS", "PRIVACY_STOP", "FRAME_STALLED", "QUALITY_INSUFFICIENT",
                 "CLEANUP_INCOMPLETE"} -> code
    [] OTHER -> "CAPTURE_RUNTIME_FAILED"

\* The terminal evidence: nothing retained, every cleanup flag it lists, and for a
\* PASS every phase.  The child's termination is not in the list: the job that was
\* drained stands for it.
Evidence(r) ==
  /\ ~r.raw
  /\ AllClean \ {"child"} \subseteq r.clean
  /\ r.code = "PASS" => mon.phases = Phases

\* The driver's `clean`, then the evidence; "FAILED" leaves no terminal record.
N2Verdict(closed) ==
  IF Allowed(closed) /\ Evidence(mon.payload) THEN N2Code(mon.payload.code) ELSE "FAILED"

Verdict(closed) == IF line = "N1" THEN N1Verdict(closed) ELSE N2Verdict(closed)

\* lease.close() and job.close(): either may fail, and the job's handle then
\* may stay open.
CloseJob ==
  /\ sup = "close" /\ sup' = "done"
  /\ \/ Calm /\ KillMembers /\ mon' = [mon EXCEPT !.closed = TRUE] /\ verdict' = Verdict(TRUE)
     \/ /\ Disturb("handle") /\ verdict' = Verdict(FALSE) /\ UNCHANGED mon
        /\ KillMembers \/ UNCHANGED <<w, child>>
  /\ UNCHANGED <<line, window, inJob, pipe, rd, content, seen, now>>

\* The supervisor's process ends: the kernel closes the job's last handle.
SupervisorCrash ==
  /\ sup \notin {"launch", "done", "dead"} /\ Disturb("supervisor")
  /\ sup' = "dead" /\ KillMembers
  /\ UNCHANGED <<line, window, mon, verdict, inJob, pipe, rd, content, seen, now>>

-----------------------------------------------------------------------------
\* Time passes.  It passes on time when everyone has done the tick's work:
\* the frame of this tick is inspected, or the child is being ended, and the
\* monitor has read every line; anything else is slowness.
Tick ==
  /\ sup = "monitor" /\ seen # -1 /\ now < MaxNow
  /\ now' = now + 1
  /\ IF /\ pipe = <<>>
        /\ \/ w.pc = "next" /\ rd.ready = <<>> /\ w.last = now
           \/ w.pc = "terminate" /\ w.at = now
     THEN Calm ELSE Slow
  /\ UNCHANGED <<line, window, sup, mon, verdict, inJob, pipe, w, child, rd, content, seen>>

Supervisor ==
  \/ Launch \/ Assign \/ Resume \/ Proceed
  \/ MonitorArms \/ MonitorTimesOut \/ MonitorSeesEnd \/ MonitorReads
  \/ DrainGracefully \/ DrainByForce \/ CloseJob

Worker ==
  \/ WorkerBoot \/ WorkerLiveness \/ WorkerDevice \/ WorkerStart
  \/ WorkerTakes \/ WorkerStalls \/ WorkerInspects
  \/ WorkerTerminates \/ WorkerJoins \/ WorkerJoinTimesOut \/ WorkerCloses
  \/ WorkerReports \/ WorkerReturns

Reader == ReaderGets \/ ReaderFills \/ ReaderFillsShort \/ ReaderEnds

Next == \/ Supervisor \/ LaunchFails \/ SupervisorCrash
        \/ Worker \/ WorkerCrash \/ ChildDiesLate \/ Reader \/ Tick

Spec == Init /\ [][Next]_vars

\* Only the supervisor and the clock are sure to move on.
FairSpec == Spec /\ WF_vars(Supervisor) /\ WF_vars(Tick)

-----------------------------------------------------------------------------
(* Properties. *)

Ended == sup \in {"done", "dead"}

TypeOK ==
  /\ line \in {"N1", "N2"} /\ window \in Windows
  /\ sup \in {"launch", "assign", "resume", "proceed", "monitor", "drain", "close", "done", "dead"}
  /\ mon \in [ran : BOOLEAN, armed : BOOLEAN, phases : SUBSET Phases, timed_out : BOOLEAN,
              malformed : BOOLEAN, payload : [code : Codes \cup {None}, raw : BOOLEAN,
                                              clean : SUBSET AllClean],
              drained : BOOLEAN, forced : BOOLEAN, closed : BOOLEAN]
  /\ inJob \in BOOLEAN /\ child \in {None, "alive", "dead"}
  /\ w.failure \in Failures \cup {None} /\ w.clean \subseteq AllClean
  /\ w.at \in -1 .. MaxNow /\ w.last \in -1 .. MaxNow
  /\ rd.pc \in {"off", "get", "read", "end"} /\ Len(rd.free) <= 2 /\ Len(rd.ready) <= 2
  /\ content \in [Buffers -> {"zero", "frame"}]
  /\ seen \in -1 .. MaxNow /\ now \in 0 .. MaxNow

\* The holders of a buffer: the queues, the reader's read, the inspection.
Uses(b) == Cardinality({i \in DOMAIN rd.free : rd.free[i] = b})
         + Cardinality({i \in DOMAIN rd.ready : rd.ready[i].buf = b})
         + (IF rd.pc = "read" /\ rd.buf = b THEN 1 ELSE 0)
         + (IF w.pc = "inspect" /\ w.held = b THEN 1 ELSE 0)

\* A buffer has one holder: the reader never writes into the frame that is
\* being inspected, nor reads a second frame into one still queued
\* (_FrameReader, and the order of inspection and release in the loop).  And
\* once the worker has found its buffers cleared, no frame appears in them
\* again, however late the reader thread is (raw_retained of the receipt).
FrameOwnership ==
  \A b \in Buffers :
    /\ Uses(b) <= 1
    /\ Alive /\ "zero" \in w.clean => content[b] = "zero"

\* A PASS was earned: the worker ended by itself, child and job are gone, the
\* frames span the preflight, nobody was seen, every buffer was cleared, and
\* the capture was closed inside its window, even if the closing message
\* raced the deadline.
PassIsEarned ==
  verdict = "PASS" =>
    /\ w.exit = "zero" /\ child = "dead" /\ ~mon.forced /\ mon.closed
    /\ w.last >= Preflight /\ w.closed <= window
    /\ "person" \notin disturbed /\ w.failure = None /\ w.clean = AllClean

\* What a disturbance may be reported as by a completed N2 attempt.  A child that
\* would not end leaves no terminal record, unless it ends late enough to be reported
\* and early enough for the job to drain by itself.
Diagnoses(d) ==
  CASE d = "person" -> {"PRIVACY_STOP"}
    [] d = "quality" -> {"QUALITY_INSUFFICIENT"}
    [] d = "stall" -> {"FRAME_STALLED"}
    [] d = "pose" -> {"CAPTURE_RUNTIME_FAILED"}
    [] d \in {"eof", "short", "exception"} -> {"CAPTURE_RUNTIME_FAILED", "PASS"}
    [] d = "unkillable" -> {"CLEANUP_INCOMPLETE", "FAILED"}
    [] OTHER -> {"FAILED"}

\* When the window leaves the worker time to close, an attempt with no
\* disturbance passes, and one with a single disturbance ends with that
\* disturbance's code: no cleanup step or protocol check replaces it.
DiagnosisExact ==
  sup = "done" /\ line = "N2" /\ window >= Preflight + 2 =>
    /\ disturbed = {} => verdict = "PASS"
    /\ \A d \in disturbed : disturbed = {d} /\ d # "slow" => verdict \in Diagnoses(d)

\* An attempt in which nothing goes wrong ends in the positive outcome.
UndisturbedPasses == sup = "done" /\ disturbed = {} => verdict = "PASS"

\* Whatever the worker does, even nothing, the attempt ends.
AttemptEnds == <>Ended
============================================================================
