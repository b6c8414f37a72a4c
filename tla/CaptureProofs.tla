--------------------------- MODULE CaptureProofs ---------------------------
(***************************************************************************)
(* The proofs of FrameOwnership, PassIsEarned and DiagnosisExact: a frame  *)
(* buffer has one holder and stays clear once it was cleared; a PASS was   *)
(* earned by the worker that it is about; and a single disturbance is what *)
(* the attempt reports.                                                    *)
(*                                                                         *)
(* Where the worker is bounds what its record, its receipt and its phase   *)
(* messages may say; a message says nothing that is not so when the        *)
(* monitor reads it, because the fields it repeats are final by then.  For *)
(* the diagnosis, each fatal disturbance leaves a mark that stays, and an  *)
(* attempt without one runs through its protocol on time.                  *)
(***************************************************************************)
EXTENDS CaptureWorker, FiniteSetTheorems, SequenceTheorems, TLAPS

Flags == BOOLEAN

Places == {"absent", "suspended", "boot", "liveness", "device", "start", "next", "inspect",
           "terminate", "join", "close", "report", "return", "gone"}

Receipts == [code : Codes \cup {None}, raw : Flags, clean : SUBSET AllClean]

WorkerType == [pc : Places, exit : {None, "killed", "nonzero", "zero"}, first : Flags,
               held : Buffers \cup {NoBuffer}, at : Int, last : Int, closed : Int,
               failure : Failures \cup {None}, raw : Flags, clean : SUBSET AllClean]

Entries == [kind : {"frame", "short", "eof", "exception"}, buf : Buffers, at : Int]

ReaderType == [pc : {"off", "get", "read", "end"}, buf : Buffers \cup {NoBuffer},
               free : Seq(Buffers \cup {NoBuffer}), ready : Seq(Entries)]

Messages == [event : Phases \cup {"RECEIPT"}, ts : Int, receipt : Receipts]

Monitors == [ran : Flags, armed : Flags, phases : SUBSET Phases, timed_out : Flags,
             malformed : Flags, payload : Receipts, drained : Flags, forced : Flags,
             closed : Flags]

CaptureTypes ==
  /\ window \in Int /\ now \in Int
  /\ w \in WorkerType
  /\ rd \in ReaderType
  /\ pipe \in Seq(Messages)
  /\ mon \in Monitors
  /\ content \in [Buffers -> {"zero", "frame"}]
  /\ child \in {None, "alive", "dead"}
  /\ rd.pc = "read" => rd.buf \in Buffers

\* A buffer is in one place only.
Ownership ==
  /\ \A i, j \in 1 .. Len(rd.free) : rd.free[i] \in Buffers /\ rd.free[i] = rd.free[j] => i = j
  /\ \A i, j \in 1 .. Len(rd.ready) : rd.ready[i].buf = rd.ready[j].buf => i = j
  /\ \A i \in 1 .. Len(rd.free), j \in 1 .. Len(rd.ready) : rd.free[i] # rd.ready[j].buf
  /\ rd.pc = "read" =>
       /\ \A i \in 1 .. Len(rd.free) : rd.free[i] # rd.buf
       /\ \A i \in 1 .. Len(rd.ready) : rd.ready[i].buf # rd.buf
  /\ w.pc = "inspect" =>
       /\ w.held \in Buffers
       /\ \A i \in 1 .. Len(rd.free) : rd.free[i] # w.held
       /\ \A i \in 1 .. Len(rd.ready) : rd.ready[i].buf # w.held
       /\ rd.pc = "read" => rd.buf # w.held

\* Where the worker is, while the supervisor launches it and once it has ended by itself.
Stages ==
  /\ sup = "launch" => w.pc = "absent"
  /\ sup \in {"assign", "resume"} => w.pc = "suspended"
  /\ w.exit = "zero" => w.pc = "gone"
  /\ verdict # None => sup = "done"

\* What the worker has cleaned up stays so.
Cleaned ==
  /\ "zero" \in w.clean => /\ w.pc \in {"close", "report", "return", "gone"}
                           /\ rd.pc \in {"off", "end"}
                           /\ \A b \in Buffers : content[b] = "zero"
  /\ "child" \in w.clean => /\ w.pc \in {"join", "close", "report", "return", "gone"}
                            /\ child = "dead"

\* A worker without a failure saw a whole preflight and nobody, and cleaned up.
Unfailed ==
  /\ "person" \in disturbed => /\ w.pc \in {"terminate", "join", "close", "report", "return", "gone"}
                               /\ w.failure = "PRIVACY_STOP"
  /\ w.pc \in {"terminate", "join", "close", "report", "return"} \/ w.exit = "zero" =>
       (w.failure = None => w.last >= Preflight)
  /\ w.pc \in {"report", "return"} \/ w.exit = "zero" => (w.failure = None => w.clean = AllClean)

\* A receipt and a closing message repeat what is final in the worker's record.
Truthful ==
  /\ \A i \in 1 .. Len(pipe) :
       /\ pipe[i].receipt.code = "PASS" => w.failure = None /\ w.pc \in {"return", "gone"}
       /\ pipe[i].event = "CAPTURE_CLOSED" =>
            /\ w.pc \in {"report", "return", "gone"}
            /\ pipe[i].ts = w.closed
            /\ \A j \in 1 .. Len(pipe) : i < j => pipe[j].event # "FIRST_FRAME"
  /\ mon.payload.code = "PASS" => w.failure = None /\ w.pc \in {"return", "gone"}
  /\ "CAPTURE_CLOSED" \in mon.phases =>
       /\ w.pc \in {"report", "return", "gone"}
       /\ \A i \in 1 .. Len(pipe) : pipe[i].event # "FIRST_FRAME"
       /\ "FIRST_FRAME" \in mon.phases => w.closed <= window

CaptureInv ==
  /\ CaptureTypes
  /\ Ownership
  /\ Stages
  /\ Cleaned
  /\ Unfailed
  /\ Truthful
  /\ PassIsEarned

-----------------------------------------------------------------------------
(* Updates of the records *)

\* The worker only moves.
LEMMA MovedTo ==
  ASSUME w \in WorkerType, NEW p \in Places, NEW v, v = [w EXCEPT !.pc = p]
  PROVE  /\ v \in WorkerType /\ v.pc = p /\ v.exit = w.exit /\ v.held = w.held /\ v.last = w.last
         /\ v.closed = w.closed /\ v.failure = w.failure /\ v.clean = w.clean
BY DEF WorkerType

\* The worker ends.
LEMMA EndedWith ==
  ASSUME w \in WorkerType, NEW x \in {"killed", "nonzero", "zero"}, NEW v, v = [w EXCEPT !.pc = "gone", !.exit = x]
  PROVE  /\ v \in WorkerType /\ v.pc = "gone" /\ v.exit = x /\ v.held = w.held /\ v.last = w.last
         /\ v.closed = w.closed /\ v.failure = w.failure /\ v.clean = w.clean
BY DEF WorkerType, Places

\* A phase message.
LEMMA MessageFields ==
  ASSUME now \in Int, NEW e \in Phases
  PROVE  LET m == Message(e) IN m \in Messages /\ m.event = e /\ m.ts = now /\ m.receipt.code # "PASS"
BY DEF Message, Messages, NoReceipt, Receipts, Flags, None

\* No failure is None.
LEMMA FailuresAreSome == None \notin Failures /\ "PASS" \notin Failures
BY DEF None, Failures

-----------------------------------------------------------------------------
(* What a step leaves alone *)

\* The reader's queues stay, and no frame is taken for inspection.
LEMMA OwnershipFrame ==
  ASSUME Ownership, rd' = rd, w'.pc = "inspect" => w.pc = "inspect" /\ w'.held = w.held
  PROVE  Ownership'
BY DEF Ownership

\* A PASS can no longer be disturbed: the attempt is over and the worker gone.
LEMMA PassFrame ==
  ASSUME CaptureInv, verdict' = verdict, sup # "done" \/ w.pc # "gone"
  PROVE  PassIsEarned'
<1>1. verdict = "PASS" => sup = "done" /\ w.pc = "gone"
  BY DEF CaptureInv, Stages, PassIsEarned, None
<1> QED
  BY <1>1 DEF PassIsEarned

\* Before the worker reports there is nothing in the pipe that could be final.
LEMMA TruthfulBefore ==
  ASSUME CaptureInv, w.pc \notin {"report", "return", "gone"}, window' = window, mon' = mon,
         \/ pipe' = pipe
         \/ \E m \in Messages : pipe' = Append(pipe, m) /\ m.receipt.code # "PASS" /\ m.event # "CAPTURE_CLOSED"
  PROVE  Truthful' /\ pipe' \in Seq(Messages)
<1>1. pipe \in Seq(Messages) /\ Truthful
  BY DEF CaptureInv, CaptureTypes
<1>2. CASE pipe' = pipe
  BY <1>1, <1>2 DEF Truthful
<1>3. CASE \E m \in Messages : pipe' = Append(pipe, m) /\ m.receipt.code # "PASS" /\ m.event # "CAPTURE_CLOSED"
  <2>1. PICK m \in Messages : pipe' = Append(pipe, m) /\ m.receipt.code # "PASS" /\ m.event # "CAPTURE_CLOSED"
    BY <1>3
  <2>2. /\ pipe' \in Seq(Messages) /\ Len(pipe') = Len(pipe) + 1 /\ Len(pipe) \in Nat
        /\ pipe'[Len(pipe) + 1] = m /\ \A i \in 1 .. Len(pipe) : pipe'[i] = pipe[i]
    BY <1>1, <2>1
  <2>3. \A i \in 1 .. Len(pipe') : i \in 1 .. Len(pipe) \/ i = Len(pipe) + 1
    BY <2>2
  <2>4. \A i \in 1 .. Len(pipe) : pipe[i].receipt.code # "PASS" /\ pipe[i].event # "CAPTURE_CLOSED"
    BY <1>1 DEF Truthful
  <2>5. \A i \in 1 .. Len(pipe') : pipe'[i].receipt.code # "PASS" /\ pipe'[i].event # "CAPTURE_CLOSED"
    BY <2>1, <2>2, <2>3, <2>4
  <2>6. mon.payload.code # "PASS" /\ "CAPTURE_CLOSED" \notin mon.phases
    BY <1>1 DEF Truthful
  <2> QED
    BY <2>2, <2>5, <2>6 DEF Truthful
<1> QED
  BY <1>2, <1>3

\* What is final in the worker's record stays.
LEMMA TruthfulFrame ==
  ASSUME Truthful, pipe' = pipe, window' = window, mon'.payload = mon.payload, mon'.phases = mon.phases,
         w.pc \in {"report", "return", "gone"} => w'.pc \in {"report", "return", "gone"} /\ w'.closed = w.closed,
         w.pc \in {"return", "gone"} => w'.pc \in {"return", "gone"} /\ w'.failure = w.failure
  PROVE  Truthful'
BY DEF Truthful

\* The worker stays as it is or is ended by somebody else.
Ends ==
  \/ w' = w
  \/ w.pc # "gone" /\ \E x \in {"killed", "nonzero"} : w' = [w EXCEPT !.pc = "gone", !.exit = x]

\* Everybody else's step.
LEMMA EndsFrame ==
  ASSUME CaptureInv, Ends, window' = window, now' \in Int, rd' = rd, content' = content, pipe' = pipe,
         mon' \in Monitors, mon'.payload = mon.payload, mon'.phases = mon.phases,
         child' \in {child, "dead"}, "person" \in disturbed' => "person" \in disturbed
  PROVE  CaptureTypes' /\ Ownership' /\ Cleaned' /\ Unfailed' /\ Truthful'
<1>1. CaptureTypes /\ Ownership /\ Cleaned /\ Unfailed /\ Truthful /\ Stages /\ w \in WorkerType
  BY DEF CaptureInv, CaptureTypes
<1>2. CASE w' = w
  <2>1. CaptureTypes'
    BY <1>1, <1>2 DEF CaptureTypes
  <2>2. Ownership'
    BY <1>1, <1>2, OwnershipFrame
  <2>3. Cleaned' /\ Unfailed' /\ Truthful'
    BY <1>1, <1>2 DEF Cleaned, Unfailed, Truthful
  <2> QED
    BY <2>1, <2>2, <2>3
<1>3. ASSUME NEW x \in {"killed", "nonzero"}, w' = [w EXCEPT !.pc = "gone", !.exit = x], w.pc # "gone"
      PROVE  CaptureTypes' /\ Ownership' /\ Cleaned' /\ Unfailed' /\ Truthful'
  <2>1. /\ w' \in WorkerType /\ w'.pc = "gone" /\ w'.exit = x /\ w'.last = w.last
        /\ w'.closed = w.closed /\ w'.failure = w.failure /\ w'.clean = w.clean
    BY <1>1, <1>3, EndedWith
  <2>2. CaptureTypes'
    BY <1>1, <2>1 DEF CaptureTypes
  <2>3. Ownership'
    BY <1>1, <2>1, OwnershipFrame
  <2>4. Cleaned'
    BY <1>1, <2>1 DEF Cleaned
  <2>5. Unfailed'
    BY <1>1, <2>1 DEF Unfailed
  <2>6. Truthful'
    BY <1>1, <2>1, TruthfulFrame
  <2> QED
    BY <2>2, <2>3, <2>4, <2>5, <2>6
<1> QED
  BY <1>2, <1>3 DEF Ends

\* The kernel ends the members of the job.
LEMMA KillingEnds ==
  ASSUME CaptureInv, KillMembers
  PROVE  Ends /\ child' \in {child, "dead"}
BY DEF KillMembers, Killed, KilledChild, Ends

-----------------------------------------------------------------------------
(* The launch and the worker's first steps *)

Early == {"absent", "suspended", "boot", "liveness", "device", "start"}

\* Before the capture starts the worker moves on, or reports a failure.
LEMMA EarlyStep ==
  ASSUME CaptureInv, w.pc \in Early, w' \in WorkerType, w'.pc \in Early \cup {"report"},
         w'.exit = w.exit, w'.clean = w.clean, w'.pc = "report" => w'.failure # None,
         window' = window, now' = now, rd' = rd, content' = content, child' = child, mon' = mon,
         verdict' = verdict, "person" \in disturbed' => "person" \in disturbed,
         \/ pipe' = pipe
         \/ \E m \in Messages : pipe' = Append(pipe, m) /\ m.receipt.code # "PASS" /\ m.event # "CAPTURE_CLOSED"
  PROVE  CaptureTypes' /\ Ownership' /\ Cleaned' /\ Unfailed' /\ Truthful' /\ PassIsEarned'
<1>1. CaptureTypes /\ Ownership /\ Cleaned /\ Unfailed /\ Stages
  BY DEF CaptureInv
<1>2. "zero" \notin w.clean /\ "child" \notin w.clean /\ "person" \notin disturbed /\ w.exit # "zero"
  BY <1>1 DEF Cleaned, Unfailed, Stages, Early
<1>3. Truthful' /\ pipe' \in Seq(Messages)
  BY TruthfulBefore DEF Early
<1>4. CaptureTypes'
  BY <1>1, <1>3 DEF CaptureTypes
<1>5. Ownership'
  BY <1>1, OwnershipFrame DEF Early
<1>6. Cleaned'
  BY <1>2 DEF Cleaned
<1>7. Unfailed'
  BY <1>2 DEF Unfailed, Early
<1>8. PassIsEarned'
  BY PassFrame DEF Early
<1> QED
  BY <1>3, <1>4, <1>5, <1>6, <1>7, <1>8

\* The supervisor creates the worker, assigns it to the job and resumes it (Launch, Assign,
\* Resume, LaunchFails, Proceed).
LEMMA LaunchSteps ==
  ASSUME CaptureInv, Launch \/ Assign \/ Resume \/ LaunchFails \/ Proceed
  PROVE  CaptureInv'
<1>1. CaptureTypes /\ Stages /\ w \in WorkerType /\ now \in Int /\ mon \in Monitors
  BY DEF CaptureInv, CaptureTypes
<1>2. CASE Launch \/ Resume
  <2>1. PICK p \in {"suspended", "boot"} : w' = [w EXCEPT !.pc = p] /\ (p = "suspended" => sup' = "assign")
                                           /\ (p = "boot" => sup' = "proceed")
    BY <1>2 DEF Launch, Resume
  <2>2. p \in Places
    BY DEF Places
  <2>3. /\ w' \in WorkerType /\ w'.pc = p /\ w'.exit = w.exit /\ w'.clean = w.clean
    BY <1>1, <2>1, <2>2, MovedTo
  <2>4. w.pc \in Early /\ w'.pc \in Early /\ w.exit # "zero" /\ w.pc # "gone" /\ sup # "done"
    BY <1>1, <1>2, <2>3 DEF Launch, Resume, Stages, Early
  <2>5. /\ window' = window /\ now' = now /\ rd' = rd /\ content' = content /\ child' = child /\ mon' = mon
        /\ verdict' = verdict /\ disturbed' = disturbed /\ pipe' = pipe
    BY <1>2 DEF Launch, Resume
  <2>6. CaptureTypes' /\ Ownership' /\ Cleaned' /\ Unfailed' /\ Truthful' /\ PassIsEarned'
    BY <2>3, <2>4, <2>5, EarlyStep DEF Early
  <2>7. Stages'
    BY <1>1, <2>1, <2>3, <2>4, <2>5 DEF Stages
  <2> QED
    BY <2>6, <2>7 DEF CaptureInv
<1>3. CASE Assign
  <2>1. /\ w' = w /\ window' = window /\ now' = now /\ rd' = rd /\ content' = content /\ child' = child /\ mon' = mon
        /\ verdict' = verdict /\ disturbed' = disturbed /\ pipe' = pipe /\ sup = "assign" /\ sup' = "resume"
    BY <1>3 DEF Assign
  <2>2. CaptureTypes' /\ Ownership' /\ Cleaned' /\ Unfailed' /\ Truthful'
    BY <1>1, <2>1, EndsFrame DEF Ends
  <2>3. Stages' /\ PassIsEarned'
    BY <1>1, <2>1, PassFrame DEF Stages
  <2> QED
    BY <2>2, <2>3 DEF CaptureInv
<1>4. CASE LaunchFails
  <2>1. /\ window' = window /\ now' = now /\ rd' = rd /\ content' = content /\ child' = child /\ mon' = mon
        /\ verdict' = verdict /\ pipe' = pipe /\ sup \in {"assign", "resume"} /\ sup' = "close"
        /\ w' = [w EXCEPT !.pc = "gone", !.exit = "killed"]
        /\ "person" \in disturbed' => "person" \in disturbed
    BY <1>4 DEF LaunchFails, Disturb
  <2>2. Ends /\ w'.exit = "killed"
    BY <1>1, <2>1, EndedWith DEF Ends, Stages
  <2>3. CaptureTypes' /\ Ownership' /\ Cleaned' /\ Unfailed' /\ Truthful'
    BY <1>1, <2>1, <2>2, EndsFrame
  <2>4. Stages' /\ PassIsEarned'
    BY <1>1, <2>1, <2>2, PassFrame DEF Stages
  <2> QED
    BY <2>3, <2>4 DEF CaptureInv
<1>5. CASE Proceed
  <2>1. /\ window' = window /\ now' = now /\ rd' = rd /\ content' = content
        /\ verdict' = verdict /\ pipe' = pipe /\ sup = "proceed" /\ sup' \in {"monitor", "close"}
        /\ mon' = mon \/ mon' = [mon EXCEPT !.ran = TRUE]
        /\ KillMembers \/ (w' = w /\ child' = child)
        /\ "person" \in disturbed' => "person" \in disturbed
    BY <1>5 DEF Proceed, Calm, Disturb
  <2>2. mon' \in Monitors /\ mon'.payload = mon.payload /\ mon'.phases = mon.phases
    BY <1>1, <2>1 DEF Monitors, Flags
  <2>3. Ends /\ child' \in {child, "dead"}
    BY <2>1, KillingEnds DEF Ends
  <2>4. CaptureTypes' /\ Ownership' /\ Cleaned' /\ Unfailed' /\ Truthful'
    BY <1>1, <2>1, <2>2, <2>3, EndsFrame
  <2>5. w'.exit = "zero" => w'.pc = "gone"
    BY <1>1, <2>3, EndedWith DEF Ends, Stages
  <2>6. Stages' /\ PassIsEarned'
    BY <1>1, <2>1, <2>5, PassFrame DEF Stages
  <2> QED
    BY <2>4, <2>6 DEF CaptureInv
<1> QED
  BY <1>2, <1>3, <1>4, <1>5

\* The worker checks its grant, its engine and its device (WorkerBoot, WorkerLiveness,
\* WorkerDevice).
LEMMA WorkerBegins ==
  ASSUME CaptureInv, WorkerBoot \/ WorkerLiveness \/ WorkerDevice
  PROVE  CaptureInv'
<1>1. CaptureTypes /\ Stages /\ w \in WorkerType /\ now \in Int /\ mon \in Monitors
  BY DEF CaptureInv, CaptureTypes
<1>2. /\ window' = window /\ now' = now /\ rd' = rd /\ content' = content /\ child' = child /\ mon' = mon
      /\ verdict' = verdict /\ sup' = sup /\ w.pc \in {"boot", "liveness", "device"}
      /\ "person" \in disturbed' => "person" \in disturbed
  BY DEF WorkerBoot, WorkerLiveness, WorkerDevice, Calm, Disturb, FailsWith
<1>3. \/ pipe' = pipe
      \/ \E m \in Messages : pipe' = Append(pipe, m) /\ m.receipt.code # "PASS" /\ m.event # "CAPTURE_CLOSED"
  <2>1. \/ pipe' = pipe
        \/ \E e \in {"AUTHORIZED", "PRIVACY_READY"} : pipe' = Append(pipe, Message(e))
    BY DEF WorkerBoot, WorkerLiveness, WorkerDevice, Send
  <2>2. \A e \in {"AUTHORIZED", "PRIVACY_READY"} :
          Message(e) \in Messages /\ Message(e).receipt.code # "PASS" /\ Message(e).event # "CAPTURE_CLOSED"
    BY <1>1, MessageFields DEF Phases
  <2> QED
    BY <2>1, <2>2
<1>4. sup \notin {"launch", "assign", "resume"} /\ w.pc # "gone" /\ w.exit # "zero"
  BY <1>1, <1>2 DEF Stages
<1>5. CASE pipe' = pipe /\ w' = [w EXCEPT !.pc = "gone", !.exit = "nonzero"]
  <2>1. Ends /\ w'.exit = "nonzero"
    BY <1>1, <1>4, <1>5, EndedWith DEF Ends
  <2>2. CaptureTypes' /\ Ownership' /\ Cleaned' /\ Unfailed' /\ Truthful'
    BY <1>1, <1>2, <1>5, <2>1, EndsFrame
  <2>3. Stages' /\ PassIsEarned'
    BY <1>1, <1>2, <1>4, <2>1, PassFrame DEF Stages
  <2> QED
    BY <2>2, <2>3 DEF CaptureInv
<1>6. ASSUME NEW p \in {"liveness", "device", "start"}, w' = [w EXCEPT !.pc = p]
      PROVE  CaptureInv'
  <2>1. p \in Places /\ p \in Early /\ w.pc \in Early
    BY <1>2 DEF Places, Early
  <2>2. w' \in WorkerType /\ w'.pc = p /\ w'.exit = w.exit /\ w'.clean = w.clean
    BY <1>1, <1>6, <2>1, MovedTo
  <2>3. CaptureTypes' /\ Ownership' /\ Cleaned' /\ Unfailed' /\ Truthful' /\ PassIsEarned'
    BY <1>2, <1>3, <2>1, <2>2, EarlyStep
  <2>4. Stages'
    BY <1>1, <1>2, <1>4, <2>2 DEF Stages
  <2> QED
    BY <2>3, <2>4 DEF CaptureInv
<1>7. ASSUME NEW code \in Failures, w' = [w EXCEPT !.pc = "report", !.failure = code]
      PROVE  CaptureInv'
  <2>1. "report" \in Places /\ w.pc \in Early
    BY <1>2 DEF Places, Early
  <2>2. w' \in WorkerType /\ w'.pc = "report" /\ w'.exit = w.exit /\ w'.clean = w.clean /\ w'.failure = code
    BY <1>1, <1>7, <2>1 DEF WorkerType
  <2>3. CaptureTypes' /\ Ownership' /\ Cleaned' /\ Unfailed' /\ Truthful' /\ PassIsEarned'
    BY <1>2, <1>3, <2>1, <2>2, FailuresAreSome, EarlyStep
  <2>4. Stages'
    BY <1>1, <1>2, <1>4, <2>2 DEF Stages
  <2> QED
    BY <2>3, <2>4 DEF CaptureInv
<1>8. CASE WorkerBoot
  BY <1>8, <1>5, <1>6 DEF WorkerBoot
<1>9. CASE WorkerLiveness \/ WorkerDevice
  <2>1. \/ \E p \in {"liveness", "device", "start"} : w' = [w EXCEPT !.pc = p]
        \/ \E code \in Failures : w' = [w EXCEPT !.pc = "report", !.failure = code]
    BY <1>9 DEF WorkerLiveness, WorkerDevice, FailsWith, Failures
  <2> QED
    BY <2>1, <1>6, <1>7
<1> QED
  BY <1>8, <1>9

-----------------------------------------------------------------------------
(* The monitor and the job *)

\* The monitor waits, gives up, drains the job; the supervisor or the worker dies; time
\* passes.
LEMMA OtherSteps ==
  ASSUME CaptureInv,
         \/ MonitorArms \/ MonitorTimesOut \/ MonitorSeesEnd \/ DrainGracefully \/ DrainByForce
         \/ SupervisorCrash \/ WorkerCrash \/ Tick
  PROVE  CaptureInv'
<1>1. CaptureTypes /\ Stages /\ w \in WorkerType /\ now \in Int /\ mon \in Monitors
  BY DEF CaptureInv, CaptureTypes
<1>2. /\ window' = window /\ rd' = rd /\ content' = content /\ verdict' = verdict /\ pipe' = pipe
      /\ sup # "done" \/ w.pc # "gone"
      /\ sup' \notin {"launch", "assign", "resume"} \/ (sup' = sup /\ w.pc \notin {"absent", "suspended", "gone"})
      /\ sup # "launch" \/ sup' = sup
  BY DEF MonitorArms, MonitorTimesOut, MonitorSeesEnd, DrainGracefully, DrainByForce, SupervisorCrash,
         WorkerCrash, Tick, Alive
<1>3. "person" \in disturbed' => "person" \in disturbed
  BY DEF MonitorArms, MonitorTimesOut, MonitorSeesEnd, DrainGracefully, DrainByForce, SupervisorCrash,
         WorkerCrash, Tick, Expires, Calm, Slow, Disturb
<1>4. now' \in Int
  BY <1>1 DEF MonitorArms, MonitorTimesOut, MonitorSeesEnd, DrainGracefully, DrainByForce, SupervisorCrash,
              WorkerCrash, Tick
<1>5. mon' \in Monitors /\ mon'.payload = mon.payload /\ mon'.phases = mon.phases
  <2>1. \/ mon' = mon \/ mon' = [mon EXCEPT !.armed = TRUE] \/ mon' = [mon EXCEPT !.timed_out = TRUE]
        \/ mon' = [mon EXCEPT !.drained = TRUE] \/ mon' = [mon EXCEPT !.forced = TRUE, !.drained = TRUE]
        \/ mon' = [mon EXCEPT !.forced = TRUE]
    BY DEF MonitorArms, MonitorTimesOut, MonitorSeesEnd, DrainGracefully, DrainByForce, SupervisorCrash,
           WorkerCrash, Tick
  <2>2. TRUE \in Flags
    BY DEF Flags
  <2> QED
    BY <1>1, <2>1, <2>2 DEF Monitors
<1>6. Ends /\ child' \in {child, "dead"}
  <2>1. \/ KillMembers
        \/ w' = w /\ child' = child
        \/ w.pc # "gone" /\ w' = [w EXCEPT !.pc = "gone", !.exit = "nonzero"] /\ child' = child
    BY DEF MonitorArms, MonitorTimesOut, MonitorSeesEnd, DrainGracefully, DrainByForce, SupervisorCrash,
           WorkerCrash, Tick, Alive
  <2> QED
    BY <2>1, KillingEnds DEF Ends
<1>7. CaptureTypes' /\ Ownership' /\ Cleaned' /\ Unfailed' /\ Truthful'
  BY <1>1, <1>2, <1>3, <1>4, <1>5, <1>6, EndsFrame
<1>8. w'.exit = "zero" => w'.pc = "gone"
  BY <1>1, <1>6, EndedWith DEF Ends, Stages
<1>9. verdict # None => sup' = "done"
  BY <1>1 DEF Stages, MonitorArms, MonitorTimesOut, MonitorSeesEnd, DrainGracefully, DrainByForce, SupervisorCrash,
              WorkerCrash, Tick
<1>10. Stages'
  BY <1>1, <1>2, <1>8, <1>9 DEF Stages
<1>11. PassIsEarned'
  BY <1>2, PassFrame
<1> QED
  BY <1>7, <1>10, <1>11 DEF CaptureInv

\* One line of the worker is read (MonitorReads).
LEMMA ReadStep ==
  ASSUME CaptureInv, MonitorReads
  PROVE  CaptureInv'
<1>1. /\ CaptureTypes /\ Ownership /\ Stages /\ Cleaned /\ Unfailed /\ Truthful
      /\ w \in WorkerType /\ now \in Int /\ mon \in Monitors /\ pipe \in Seq(Messages)
  BY DEF CaptureInv, CaptureTypes
<1>2. /\ sup = "monitor" /\ sup' \in {"monitor", "drain"} /\ pipe # <<>> /\ pipe' = Tail(pipe)
      /\ window' = window /\ now' = now /\ rd' = rd /\ content' = content /\ child' = child
      /\ verdict' = verdict /\ w' = w
      /\ "person" \in disturbed' => "person" \in disturbed
  BY DEF MonitorReads, Calm, Disturb
<1>3. PICK n \in Nat : n + 1 = Len(pipe)
  <2>1. Len(pipe) \in Nat /\ Len(pipe) # 0
    BY <1>1, <1>2, EmptySeq
  <2>2. Len(pipe) - 1 \in Nat /\ (Len(pipe) - 1) + 1 = Len(pipe)
    BY <2>1
  <2> QED
    BY <2>2
<1>4. /\ pipe' \in Seq(Messages) /\ Len(pipe') = n
      /\ \A i \in 1 .. n : pipe'[i] = pipe[i + 1] /\ i + 1 \in 1 .. Len(pipe)
  BY <1>1, <1>2, <1>3
<1>5. PICK m \in Messages : m = Head(pipe) /\ m = pipe[1]
  BY <1>1, <1>2, <1>3
<1>6. 1 \in 1 .. Len(pipe)
  BY <1>3
<1>7. \/ /\ m.event \in Phases /\ Accepts(m)
         /\ \E late \in BOOLEAN :
              mon' = [mon EXCEPT !.armed = FALSE, !.phases = @ \cup {m.event}, !.timed_out = late]
      \/ m.event = "RECEIPT" /\ mon' = [mon EXCEPT !.payload = m.receipt]
      \/ mon' = [mon EXCEPT !.malformed = TRUE]
  <2>1. m.event \in Phases \cup {"RECEIPT"}
    BY DEF Messages
  <2> DEFINE late == m.event = "FIRST_FRAME" /\ window <= now
  <2>2. \/ /\ Accepts(m) /\ m.event # "RECEIPT"
           /\ mon' = [mon EXCEPT !.armed = FALSE, !.phases = @ \cup {m.event}, !.timed_out = late]
        \/ m.event = "RECEIPT" /\ mon' = [mon EXCEPT !.payload = m.receipt]
        \/ mon' = [mon EXCEPT !.malformed = TRUE]
    BY <1>5 DEF MonitorReads
  <2>3. late \in BOOLEAN
    OBVIOUS
  <2> HIDE DEF late
  <2> QED
    BY <2>1, <2>2, <2>3
<1>8. /\ mon' \in Monitors
      /\ mon'.payload \in {mon.payload, m.receipt}
      /\ \/ mon'.phases = mon.phases
         \/ mon'.phases = mon.phases \cup {m.event} /\ Accepts(m) /\ m.event \in Phases
  <2>1. m.receipt \in Receipts /\ TRUE \in Flags /\ FALSE \in Flags /\ \A l \in BOOLEAN : l \in Flags
    BY DEF Messages, Flags
  <2>2. CASE m.event = "RECEIPT" /\ mon' = [mon EXCEPT !.payload = m.receipt]
    BY <1>1, <2>1, <2>2 DEF Monitors
  <2>3. CASE mon' = [mon EXCEPT !.malformed = TRUE]
    BY <1>1, <2>1, <2>3 DEF Monitors
  <2>4. ASSUME NEW late \in Flags, m.event \in Phases, Accepts(m),
               mon' = [mon EXCEPT !.armed = FALSE, !.phases = @ \cup {m.event}, !.timed_out = late]
        PROVE  mon' \in Monitors /\ mon'.payload = mon.payload /\ mon'.phases = mon.phases \cup {m.event}
    BY <1>1, <2>1, <2>4 DEF Monitors
  <2> QED
    BY <1>7, <2>1, <2>2, <2>3, <2>4
<1>9. CaptureTypes' /\ Ownership' /\ Cleaned' /\ Unfailed' /\ Stages'
  <2>1. CaptureTypes'
    BY <1>1, <1>2, <1>4, <1>8 DEF CaptureTypes
  <2>2. Ownership'
    BY <1>1, <1>2, OwnershipFrame
  <2>3. Cleaned' /\ Unfailed' /\ Stages'
    BY <1>1, <1>2 DEF Cleaned, Unfailed, Stages
  <2> QED
    BY <2>1, <2>2, <2>3
<1>10. Truthful'
  <2>1. /\ m.receipt.code = "PASS" => w.failure = None /\ w.pc \in {"return", "gone"}
        /\ m.event = "CAPTURE_CLOSED" =>
             w.pc \in {"report", "return", "gone"} /\ m.ts = w.closed
             /\ \A j \in 1 .. Len(pipe) : 1 < j => pipe[j].event # "FIRST_FRAME"
    BY <1>1, <1>5, <1>6 DEF Truthful
  <2>2. \A i \in 1 .. n :
          /\ pipe'[i].receipt.code = "PASS" => w.failure = None /\ w.pc \in {"return", "gone"}
          /\ pipe'[i].event = "CAPTURE_CLOSED" =>
               /\ w.pc \in {"report", "return", "gone"}
               /\ pipe'[i].ts = w.closed
               /\ \A j \in 1 .. n : i < j => pipe'[j].event # "FIRST_FRAME"
    <3> SUFFICES ASSUME NEW i \in 1 .. n
                 PROVE  /\ pipe[i + 1].receipt.code = "PASS" => w.failure = None /\ w.pc \in {"return", "gone"}
                        /\ pipe[i + 1].event = "CAPTURE_CLOSED" =>
                             /\ w.pc \in {"report", "return", "gone"}
                             /\ pipe[i + 1].ts = w.closed
                             /\ \A j \in 1 .. n : i < j => pipe[j + 1].event # "FIRST_FRAME"
      BY <1>4
    <3>1. i + 1 \in 1 .. Len(pipe) /\ \A j \in 1 .. n : j + 1 \in 1 .. Len(pipe) /\ (i < j => i + 1 < j + 1)
      BY <1>3
    <3> QED
      BY <3>1, <1>1 DEF Truthful
  <2>3. mon'.payload.code = "PASS" => w.failure = None /\ w.pc \in {"return", "gone"}
    BY <1>1, <1>8, <2>1 DEF Truthful
  <2>4. ASSUME "CAPTURE_CLOSED" \in mon'.phases
        PROVE  /\ w.pc \in {"report", "return", "gone"}
               /\ \A i \in 1 .. n : pipe'[i].event # "FIRST_FRAME"
               /\ "FIRST_FRAME" \in mon'.phases => w.closed <= window
    <3>1. CASE "CAPTURE_CLOSED" \in mon.phases
      <4>1. /\ w.pc \in {"report", "return", "gone"}
            /\ \A i \in 1 .. Len(pipe) : pipe[i].event # "FIRST_FRAME"
            /\ "FIRST_FRAME" \in mon.phases => w.closed <= window
        BY <3>1, <1>1 DEF Truthful
      <4>2. m.event # "FIRST_FRAME"
        BY <4>1, <1>5, <1>6
      <4> QED
        BY <4>1, <4>2, <1>4, <1>8
    <3>2. CASE "CAPTURE_CLOSED" \notin mon.phases
      <4>1. m.event = "CAPTURE_CLOSED" /\ Accepts(m) /\ mon'.phases = mon.phases \cup {"CAPTURE_CLOSED"}
        BY <3>2, <2>4, <1>8
      <4>2. "FIRST_FRAME" \in mon.phases => m.ts <= window
        BY <4>1 DEF Accepts, CloseInWindow
      <4>3. \A i \in 1 .. n : 1 < i + 1
        BY <1>3
      <4> QED
        BY <4>1, <4>2, <4>3, <2>1, <1>4
    <3> QED
      BY <3>1, <3>2
  <2> QED
    BY <2>2, <2>3, <2>4, <1>2, <1>4 DEF Truthful
<1>11. PassIsEarned'
  BY <1>2, PassFrame
<1> QED
  BY <1>9, <1>10, <1>11 DEF CaptureInv

\* A verdict of PASS needs a closed job, a worker that ended by itself and was not forced,
\* a receipt that says PASS, and every phase.
LEMMA PassNeeds ==
  ASSUME NEW closed \in BOOLEAN, Verdict(closed) = "PASS"
  PROVE  /\ closed /\ ~ mon.forced /\ w.exit = "zero"
         /\ mon.payload.code = "PASS" /\ mon.phases = Phases
<1>1. MonitorFailure(closed) # "PASS"
  BY DEF MonitorFailure
<1>2. CASE line = "N1"
  <2>1. N1Verdict(closed) = "PASS"
    BY <1>2 DEF Verdict
  <2>2. Allowed(closed) /\ mon.payload.code = "PASS" /\ mon.phases = Phases
    BY <2>1, <1>1 DEF N1Verdict
  <2> QED
    BY <2>2 DEF Allowed
<1>3. CASE line # "N1"
  <2>1. N2Verdict(closed) = "PASS"
    BY <1>3 DEF Verdict
  <2>2. Allowed(closed) /\ Evidence(mon.payload) /\ N2Code(mon.payload.code) = "PASS"
    BY <2>1 DEF N2Verdict
  <2>3. mon.payload.code = "PASS"
    BY <2>2 DEF N2Code
  <2> QED
    BY <2>2, <2>3 DEF Allowed, Evidence
<1> QED
  BY <1>2, <1>3

\* The job is closed and the verdict given (CloseJob).
LEMMA VerdictStep ==
  ASSUME CaptureInv, CloseJob
  PROVE  CaptureInv'
<1>1. /\ CaptureTypes /\ Stages /\ Cleaned /\ Unfailed /\ Truthful
      /\ w \in WorkerType /\ now \in Int /\ mon \in Monitors
  BY DEF CaptureInv, CaptureTypes
<1>2. /\ sup' = "done" /\ window' = window /\ now' = now /\ rd' = rd /\ content' = content /\ pipe' = pipe
      /\ KillMembers \/ (w' = w /\ child' = child)
      /\ "person" \in disturbed' => "person" \in disturbed
      /\ \/ mon' = [mon EXCEPT !.closed = TRUE] /\ verdict' = Verdict(TRUE)
         \/ mon' = mon /\ verdict' = Verdict(FALSE)
  BY DEF CloseJob, Calm, Disturb
<1>3. /\ mon' \in Monitors /\ mon'.payload = mon.payload /\ mon'.phases = mon.phases /\ mon'.forced = mon.forced
      /\ mon' = [mon EXCEPT !.closed = TRUE] => mon'.closed = TRUE
  <2>1. TRUE \in Flags
    BY DEF Flags
  <2> QED
    BY <1>1, <1>2, <2>1 DEF Monitors
<1>4. Ends /\ child' \in {child, "dead"}
  BY <1>2, KillingEnds DEF Ends
<1>5. CaptureTypes' /\ Ownership' /\ Cleaned' /\ Unfailed' /\ Truthful'
  BY <1>1, <1>2, <1>3, <1>4, EndsFrame
<1>6. Stages'
  BY <1>1, <1>2, <1>4, EndedWith DEF Ends, Stages
<1>7. PassIsEarned'
  <2> SUFFICES ASSUME verdict' = "PASS"
               PROVE  /\ w'.exit = "zero" /\ child' = "dead" /\ ~mon'.forced /\ mon'.closed
                      /\ w'.last >= Preflight /\ w'.closed <= window'
                      /\ "person" \notin disturbed' /\ w'.failure = None /\ w'.clean = AllClean
    BY DEF PassIsEarned
  <2>1. verdict' # Verdict(FALSE)
    BY PassNeeds
  <2>2. Verdict(TRUE) = "PASS" /\ mon'.closed
    BY <2>1, <1>2, <1>3
  <2>3. ~ mon.forced /\ w.exit = "zero" /\ mon.payload.code = "PASS" /\ mon.phases = Phases
    BY <2>2, PassNeeds
  <2>4. w.pc = "gone" /\ w' = w
    BY <2>3, <1>1, <1>4 DEF Stages, Ends
  <2>5. w.failure = None
    BY <2>3, <1>1 DEF Truthful
  <2>6. w.last >= Preflight /\ w.clean = AllClean /\ "person" \notin disturbed
    BY <2>3, <2>5, <1>1 DEF Unfailed, None
  <2>7. child = "dead"
    BY <2>6, <1>1 DEF Cleaned, AllClean
  <2>8. w.closed <= window
    BY <2>3, <1>1 DEF Truthful, Phases
  <2> QED
    BY <2>2, <2>3, <2>4, <2>5, <2>6, <2>7, <2>8, <1>2, <1>3, <1>4
<1> QED
  BY <1>5, <1>6, <1>7 DEF CaptureInv

\* A child that would not end dies after all (ChildDiesLate).
LEMMA LateStep ==
  ASSUME CaptureInv, ChildDiesLate
  PROVE  CaptureInv'
<1>1. CaptureTypes /\ Stages /\ PassIsEarned
  BY DEF CaptureInv
<1>2. /\ UNCHANGED <<window, sup, mon, verdict, pipe, w, rd, content, now, disturbed>> /\ child' = "dead"
  BY DEF ChildDiesLate
<1>3. CaptureTypes' /\ Ownership' /\ Cleaned' /\ Unfailed' /\ Truthful'
  BY <1>1, <1>2, EndsFrame DEF Ends, CaptureTypes
<1>4. Stages' /\ PassIsEarned'
  BY <1>1, <1>2 DEF Stages, PassIsEarned
<1> QED
  BY <1>3, <1>4 DEF CaptureInv

-----------------------------------------------------------------------------
(* The worker *)

\* The video child and the reader are started, or the spawn fails (WorkerStart).
LEMMA StartStep ==
  ASSUME CaptureInv, WorkerStart
  PROVE  CaptureInv'
<1>1. /\ CaptureTypes /\ Ownership /\ Stages /\ Cleaned /\ Unfailed
      /\ w \in WorkerType /\ now \in Int /\ rd \in ReaderType
  BY DEF CaptureInv, CaptureTypes
<1>2. /\ window' = window /\ now' = now /\ content' = content /\ mon' = mon
      /\ verdict' = verdict /\ sup' = sup /\ w.pc = "start"
      /\ "person" \in disturbed' => "person" \in disturbed
      /\ child' \in {child, "alive"} /\ (rd' = rd \/ rd' = [rd EXCEPT !.pc = "get"])
      /\ pipe' = Append(pipe, Message("CAPTURE_STARTING"))
  BY DEF WorkerStart, Calm, Disturb, Send
<1>3. /\ w' \in WorkerType /\ w'.pc \in {"next", "terminate"} /\ w'.exit = w.exit /\ w'.clean = w.clean
      /\ w'.pc = "terminate" => w'.failure # None
  <2>1. TRUE \in Flags /\ "next" \in Places /\ "terminate" \in Places
        /\ "CAPTURE_RUNTIME_EXCEPTION" \in Failures /\ "CAPTURE_RUNTIME_EXCEPTION" # None
    BY DEF Flags, Places, Failures, None
  <2>2. \/ w' = [w EXCEPT !.pc = "next", !.raw = TRUE]
        \/ w' = [w EXCEPT !.pc = "terminate", !.raw = TRUE, !.failure = "CAPTURE_RUNTIME_EXCEPTION"]
    BY DEF WorkerStart
  <2> QED
    BY <1>1, <2>1, <2>2 DEF WorkerType
<1>4. /\ rd' \in ReaderType /\ rd'.pc \in {rd.pc, "get"} /\ rd'.buf = rd.buf /\ rd'.free = rd.free /\ rd'.ready = rd.ready
      /\ rd'.pc = "read" => rd.pc = "read"
  BY <1>1, <1>2 DEF ReaderType
<1>5. "zero" \notin w.clean /\ "child" \notin w.clean /\ "person" \notin disturbed /\ w.exit # "zero"
      /\ sup \notin {"launch", "assign", "resume"}
  BY <1>1, <1>2 DEF Cleaned, Unfailed, Stages
<1>6. Truthful' /\ pipe' \in Seq(Messages)
  <2>1. PICK m \in Messages : m = Message("CAPTURE_STARTING") /\ m.receipt.code # "PASS" /\ m.event # "CAPTURE_CLOSED"
    BY <1>1, MessageFields DEF Phases
  <2> QED
    BY <1>2, <2>1, TruthfulBefore
<1>7. CaptureTypes'
  BY <1>1, <1>2, <1>3, <1>4, <1>6 DEF CaptureTypes
<1>8. Ownership'
  BY <1>1, <1>3, <1>4 DEF Ownership
<1>9. Cleaned' /\ Unfailed' /\ Stages'
  BY <1>1, <1>2, <1>3, <1>5 DEF Cleaned, Unfailed, Stages
<1>10. PassIsEarned'
  BY <1>2, PassFrame
<1> QED
  BY <1>6, <1>7, <1>8, <1>9, <1>10 DEF CaptureInv

\* The loop takes what the reader has put into its queue (WorkerTakes).
LEMMA TakeStep ==
  ASSUME CaptureInv, WorkerTakes
  PROVE  CaptureInv'
<1>1. /\ CaptureTypes /\ Ownership /\ Stages /\ Cleaned /\ Unfailed
      /\ w \in WorkerType /\ now \in Int /\ rd \in ReaderType /\ rd.ready \in Seq(Entries)
  BY DEF CaptureInv, CaptureTypes, ReaderType
<1>2. /\ window' = window /\ now' = now /\ content' = content /\ mon' = mon /\ child' = child
      /\ verdict' = verdict /\ sup' = sup /\ w.pc = "next" /\ disturbed' = disturbed /\ rd.ready # <<>>
      /\ rd' = [rd EXCEPT !.ready = Tail(@)]
  BY DEF WorkerTakes
<1>3. PICK n \in Nat : n + 1 = Len(rd.ready)
  <2>1. Len(rd.ready) \in Nat /\ Len(rd.ready) # 0
    BY <1>1, <1>2, EmptySeq
  <2>2. Len(rd.ready) - 1 \in Nat /\ (Len(rd.ready) - 1) + 1 = Len(rd.ready)
    BY <2>1
  <2> QED
    BY <2>2
<1>4. PICK e \in Entries : e = Head(rd.ready) /\ e = rd.ready[1]
  BY <1>1, <1>2, <1>3
<1>5. /\ rd' \in ReaderType /\ rd'.pc = rd.pc /\ rd'.buf = rd.buf /\ rd'.free = rd.free
      /\ Len(rd'.ready) = n /\ \A i \in 1 .. n : rd'.ready[i] = rd.ready[i + 1] /\ i + 1 \in 1 .. Len(rd.ready)
  <2>1. Tail(rd.ready) \in Seq(Entries) /\ Len(Tail(rd.ready)) = n
        /\ \A i \in 1 .. n : Tail(rd.ready)[i] = rd.ready[i + 1] /\ i + 1 \in 1 .. Len(rd.ready)
    BY <1>1, <1>2, <1>3
  <2>2. rd'.ready = Tail(rd.ready)
    BY <1>1, <1>2 DEF ReaderType
  <2>3. rd' \in ReaderType /\ rd'.pc = rd.pc /\ rd'.buf = rd.buf /\ rd'.free = rd.free
    BY <1>1, <1>2, <2>1 DEF ReaderType
  <2> QED
    BY <2>1, <2>2, <2>3
<1>6. PICK fail \in Failures \cup {None}, first \in Flags :
        /\ w' = [w EXCEPT !.pc = IF fail = None THEN "inspect" ELSE "terminate",
                          !.failure = fail, !.held = e.buf, !.first = first,
                          !.at = IF e.kind = "frame" THEN e.at ELSE @]
        /\ pipe' = pipe \/ pipe' = Append(pipe, [Message("FIRST_FRAME") EXCEPT !.ts = e.at])
  <2> DEFINE f == CASE e.kind = "eof" -> IF w.last = -1 THEN "INPUT_UNAVAILABLE" ELSE "INPUT_MALFORMED"
                    [] e.kind = "exception" -> "FRAME_READER_EXCEPTION"
                    [] e.kind = "short" -> "INPUT_MALFORMED"
                    [] e.kind = "frame" /\ ~w.first /\ ~Emits("FIRST_FRAME") -> "CAPTURE_RUNTIME_EXCEPTION"
                    [] OTHER -> None
             first == w.first \/ e.kind = "frame"
  <2>1. f \in Failures \cup {None}
    BY DEF Failures
  <2>2. first \in Flags
    BY DEF Flags
  <2>3. /\ w' = [w EXCEPT !.pc = IF f = None THEN "inspect" ELSE "terminate",
                          !.failure = f, !.held = e.buf, !.first = first,
                          !.at = IF e.kind = "frame" THEN e.at ELSE @]
        /\ pipe' = pipe \/ pipe' = Append(pipe, [Message("FIRST_FRAME") EXCEPT !.ts = e.at])
    BY <1>4 DEF WorkerTakes, Send
  <2> HIDE DEF f, first
  <2> QED
    BY <2>1, <2>2, <2>3
<1>7. /\ w' \in WorkerType /\ w'.pc = (IF fail = None THEN "inspect" ELSE "terminate") /\ w'.held = e.buf
      /\ w'.failure = fail /\ w'.exit = w.exit /\ w'.clean = w.clean
  <2>1. e.buf \in Buffers /\ e.at \in Int /\ "inspect" \in Places /\ "terminate" \in Places
    BY DEF Entries, Places
  <2> QED
    BY <1>1, <1>6, <2>1 DEF WorkerType
<1>8. "zero" \notin w.clean /\ "child" \notin w.clean /\ "person" \notin disturbed /\ w.exit # "zero"
      /\ sup \notin {"launch", "assign", "resume"}
  BY <1>1, <1>2 DEF Cleaned, Unfailed, Stages
<1>9. Truthful' /\ pipe' \in Seq(Messages)
  <2>1. e.at \in Int
    BY DEF Entries
  <2>2. PICK m \in Messages : /\ m = [Message("FIRST_FRAME") EXCEPT !.ts = e.at]
                              /\ m.receipt.code # "PASS" /\ m.event # "CAPTURE_CLOSED"
    <3>1. PICK m0 \in Messages : m0 = Message("FIRST_FRAME") /\ m0.event = "FIRST_FRAME" /\ m0.receipt.code # "PASS"
      BY <1>1, MessageFields DEF Phases
    <3>2. /\ [m0 EXCEPT !.ts = e.at] \in Messages
          /\ [m0 EXCEPT !.ts = e.at].event = "FIRST_FRAME"
          /\ [m0 EXCEPT !.ts = e.at].receipt = m0.receipt
      BY <3>1, <2>1 DEF Messages
    <3> QED
      BY <3>1, <3>2
  <2> QED
    BY <1>2, <1>6, <2>2, TruthfulBefore
<1>10. CaptureTypes'
  BY <1>1, <1>2, <1>5, <1>7, <1>9 DEF CaptureTypes
<1>11. Ownership'
  <2> DEFINE F == 1 .. Len(rd.free)
             R == 1 .. Len(rd.ready)
  <2>0. /\ \A i, j \in F : rd.free[i] \in Buffers /\ rd.free[i] = rd.free[j] => i = j
        /\ \A i, j \in R : rd.ready[i].buf = rd.ready[j].buf => i = j
        /\ \A i \in F, j \in R : rd.free[i] # rd.ready[j].buf
        /\ rd.pc = "read" => /\ \A i \in F : rd.free[i] # rd.buf
                             /\ \A i \in R : rd.ready[i].buf # rd.buf
    BY <1>1 DEF Ownership
  <2>a. 1 \in R /\ \A i \in 1 .. n : i \in Int /\ i + 1 \in R /\ i + 1 # 1 /\ rd'.ready[i].buf = rd.ready[i + 1].buf
    <3>1. \A i \in 1 .. n : rd'.ready[i] = rd.ready[i + 1]
      BY <1>5
    <3>2. 1 \in R /\ \A i \in 1 .. n : i \in Int /\ i + 1 \in R /\ i + 1 # 1
      BY <1>3
    <3> QED
      BY <3>1, <3>2
  <2> HIDE DEF F, R
  <2>1. /\ \A i \in F : rd.free[i] # e.buf
        /\ \A i \in 1 .. n : rd'.ready[i].buf # e.buf
        /\ rd.pc = "read" => rd.buf # e.buf
    BY <2>0, <2>a, <1>4
  <2>2. \A i, j \in 1 .. n : rd'.ready[i].buf = rd'.ready[j].buf => i = j
    <3>1. \A i, j \in 1 .. n : i + 1 = j + 1 => i = j
      BY <2>a
    <3>2. \A i, j \in 1 .. n : rd.ready[i + 1].buf = rd.ready[j + 1].buf => i + 1 = j + 1
      BY <2>0, <2>a
    <3> QED
      BY <3>1, <3>2, <2>a
  <2>3. /\ \A i \in F, j \in 1 .. n : rd.free[i] # rd'.ready[j].buf
        /\ rd.pc = "read" => /\ \A i \in F : rd.free[i] # rd.buf
                             /\ \A i \in 1 .. n : rd'.ready[i].buf # rd.buf
    BY <2>0, <2>a
  <2>4. e.buf \in Buffers
    BY DEF Entries
  <2> QED
    BY <2>0, <2>1, <2>2, <2>3, <2>4, <1>5, <1>7 DEF Ownership, F
<1>12. Cleaned' /\ Unfailed' /\ Stages'
  BY <1>1, <1>2, <1>7, <1>8 DEF Cleaned, Unfailed, Stages
<1>13. PassIsEarned'
  BY <1>2, PassFrame
<1> QED
  BY <1>9, <1>10, <1>11, <1>12, <1>13 DEF CaptureInv

\* The loop gives up, or the inspection of a frame finds a person or fails (WorkerStalls,
\* WorkerInspects).
LEMMA LoopFails ==
  ASSUME CaptureInv, w.pc \in {"next", "inspect"}, NEW code \in Failures,
         w' = [w EXCEPT !.pc = "terminate", !.failure = code],
         "person" \in disturbed' => "person" \in disturbed \/ code = "PRIVACY_STOP",
         UNCHANGED <<window, now, content, mon, child, verdict, sup, rd, pipe>>
  PROVE  CaptureInv'
<1>1. /\ CaptureTypes /\ Ownership /\ Stages /\ Cleaned /\ Unfailed /\ w \in WorkerType
  BY DEF CaptureInv, CaptureTypes
<1>2. /\ w' \in WorkerType /\ w'.pc = "terminate" /\ w'.failure = code /\ w'.exit = w.exit /\ w'.clean = w.clean
  <2>1. "terminate" \in Places
    BY DEF Places
  <2> QED
    BY <1>1, <2>1 DEF WorkerType
<1>3. "zero" \notin w.clean /\ "child" \notin w.clean /\ "person" \notin disturbed /\ w.exit # "zero"
      /\ sup \notin {"launch", "assign", "resume"}
  BY <1>1 DEF Cleaned, Unfailed, Stages
<1>4. Truthful' /\ pipe' \in Seq(Messages)
  BY TruthfulBefore
<1>5. CaptureTypes'
  BY <1>1, <1>2, <1>4 DEF CaptureTypes
<1>6. Ownership'
  BY <1>1, <1>2, OwnershipFrame
<1>7. Cleaned' /\ Unfailed' /\ Stages'
  BY <1>1, <1>2, <1>3, FailuresAreSome DEF Cleaned, Unfailed, Stages
<1>8. PassIsEarned'
  BY PassFrame
<1> QED
  BY <1>4, <1>5, <1>6, <1>7, <1>8 DEF CaptureInv

\* A frame is inspected and its buffer goes back (WorkerInspects).
LEMMA InspectStep ==
  ASSUME CaptureInv, WorkerInspects \/ WorkerStalls
  PROVE  CaptureInv'
<1>1. /\ CaptureTypes /\ Ownership /\ Stages /\ Cleaned /\ Unfailed
      /\ w \in WorkerType /\ rd \in ReaderType /\ rd.free \in Seq(Buffers \cup {NoBuffer})
  BY DEF CaptureInv, CaptureTypes, ReaderType
<1>2. UNCHANGED <<window, now, content, mon, child, verdict, sup, pipe>> /\ w.pc \in {"next", "inspect"}
  BY DEF WorkerInspects, WorkerStalls
<1>3. CASE rd' = rd
  <2>1. PICK code \in Failures : /\ w' = [w EXCEPT !.pc = "terminate", !.failure = code]
                                 /\ "person" \in disturbed' => "person" \in disturbed \/ code = "PRIVACY_STOP"
    <3>1. CASE WorkerStalls
      <4>1. {"FRAME_READER_EXCEPTION", "FRAME_STALLED"} \subseteq Failures
        BY DEF Failures
      <4>2. "person" \in disturbed' => "person" \in disturbed
        BY <3>1 DEF WorkerStalls, Disturb
      <4> QED
        BY <3>1, <4>1, <4>2 DEF WorkerStalls, FailsWith
    <3>2. CASE WorkerInspects
      <4>1. "PRIVACY_STOP" \in Failures /\ "POSE_ENGINE_EXCEPTION" \in Failures
        BY DEF Failures
      <4>2. CASE Disturb("person") /\ FailsWith("PRIVACY_STOP", "terminate")
        BY <4>1, <4>2 DEF FailsWith
      <4>3. CASE Disturb("pose") /\ FailsWith("POSE_ENGINE_EXCEPTION", "terminate")
        <5>1. "person" \in disturbed' => "person" \in disturbed
          BY <4>3 DEF Disturb
        <5> QED
          BY <4>1, <4>3, <5>1 DEF FailsWith
      <4>4. ~ (rd' = [rd EXCEPT !.free = Append(@, w.held)])
        <5> SUFFICES ASSUME rd' = [rd EXCEPT !.free = Append(@, w.held)]
                     PROVE  FALSE
          OBVIOUS
        <5>1. w.held \in Buffers \cup {NoBuffer}
          BY <1>1 DEF WorkerType
        <5>2. rd'.free = Append(rd.free, w.held)
          BY <1>1 DEF ReaderType
        <5>3. Len(Append(rd.free, w.held)) = Len(rd.free) + 1 /\ Len(rd.free) \in Nat
          BY <1>1, <5>1
        <5>4. Append(rd.free, w.held) = rd.free
          BY <1>3, <5>2
        <5>5. Len(rd.free) = Len(rd.free) + 1
          BY <5>3, <5>4
        <5> QED
          BY <5>3, <5>5
      <4> QED
        BY <3>2, <4>2, <4>3, <4>4 DEF WorkerInspects
    <3> QED
      BY <3>1, <3>2
  <2> QED
    BY <1>2, <1>3, <2>1, LoopFails
<1>4. CASE rd' # rd
  <2>1. /\ w.pc = "inspect" /\ disturbed' = disturbed
        /\ w' = [w EXCEPT !.pc = IF w.at >= Preflight THEN "terminate" ELSE "next",
                          !.last = w.at, !.held = NoBuffer]
        /\ rd' = [rd EXCEPT !.free = Append(@, w.held)]
    BY <1>4 DEF WorkerInspects, WorkerStalls, Calm
  <2>2. w.held \in Buffers
    BY <1>1, <2>1 DEF Ownership
  <2>3. /\ w' \in WorkerType /\ w'.pc \in {"terminate", "next"} /\ w'.failure = w.failure /\ w'.exit = w.exit
        /\ w'.clean = w.clean /\ w'.pc = "terminate" => w'.last >= Preflight
    <3>1. "terminate" \in Places /\ "next" \in Places /\ w.at \in Int /\ NoBuffer \in Buffers \cup {NoBuffer}
      BY <1>1 DEF Places, WorkerType
    <3> QED
      BY <1>1, <2>1, <3>1 DEF WorkerType
  <2>4. PICK n \in Nat : n = Len(rd.free)
    BY <1>1
  <2>5. /\ rd' \in ReaderType /\ rd'.pc = rd.pc /\ rd'.buf = rd.buf /\ rd'.ready = rd.ready
        /\ Len(rd'.free) = n + 1 /\ rd'.free[n + 1] = w.held /\ \A i \in 1 .. n : rd'.free[i] = rd.free[i]
    <3>1. /\ Append(rd.free, w.held) \in Seq(Buffers \cup {NoBuffer}) /\ Len(Append(rd.free, w.held)) = n + 1
          /\ Append(rd.free, w.held)[n + 1] = w.held
          /\ \A i \in 1 .. n : Append(rd.free, w.held)[i] = rd.free[i]
      BY <1>1, <2>2, <2>4
    <3>2. rd'.free = Append(rd.free, w.held)
      BY <1>1, <2>1 DEF ReaderType
    <3>3. rd' \in ReaderType /\ rd'.pc = rd.pc /\ rd'.buf = rd.buf /\ rd'.ready = rd.ready
      BY <1>1, <2>1, <3>1 DEF ReaderType
    <3> QED
      BY <3>1, <3>2, <3>3
  <2>6. \A i \in 1 .. n + 1 : i \in 1 .. n \/ i = n + 1
    BY <2>4
  <2>7. Ownership'
    <3>1. \A i, j \in 1 .. n + 1 : rd'.free[i] \in Buffers /\ rd'.free[i] = rd'.free[j] => i = j
      BY <1>1, <2>1, <2>4, <2>5, <2>6 DEF Ownership
    <3>2. \A i \in 1 .. n + 1, j \in 1 .. Len(rd.ready) : rd'.free[i] # rd.ready[j].buf
      BY <1>1, <2>1, <2>4, <2>5, <2>6 DEF Ownership
    <3>3. rd.pc = "read" => \A i \in 1 .. n + 1 : rd'.free[i] # rd.buf
      BY <1>1, <2>1, <2>4, <2>5, <2>6 DEF Ownership
    <3> QED
      BY <3>1, <3>2, <3>3, <1>1, <2>3, <2>5 DEF Ownership
  <2>8. "zero" \notin w.clean /\ "child" \notin w.clean /\ "person" \notin disturbed /\ w.exit # "zero"
        /\ sup \notin {"launch", "assign", "resume"}
    BY <1>1, <2>1 DEF Cleaned, Unfailed, Stages
  <2>9. Truthful' /\ pipe' \in Seq(Messages)
    BY <1>2, TruthfulBefore
  <2>10. CaptureTypes'
    BY <1>1, <1>2, <2>3, <2>5, <2>9 DEF CaptureTypes
  <2>11. Cleaned' /\ Unfailed' /\ Stages'
    BY <1>1, <1>2, <2>1, <2>3, <2>8 DEF Cleaned, Unfailed, Stages
  <2>12. PassIsEarned'
    BY <1>2, PassFrame
  <2> QED
    BY <2>7, <2>9, <2>10, <2>11, <2>12 DEF CaptureInv
<1> QED
  BY <1>3, <1>4

\* The child is ended and the reader asked to stop (WorkerTerminates).
LEMMA TerminateStep ==
  ASSUME CaptureInv, WorkerTerminates
  PROVE  CaptureInv'
<1>1. /\ CaptureTypes /\ Ownership /\ Stages /\ Cleaned /\ Unfailed
      /\ w \in WorkerType /\ rd \in ReaderType /\ rd.free \in Seq(Buffers \cup {NoBuffer})
      /\ rd.ready \in Seq(Entries)
  BY DEF CaptureInv, CaptureTypes, ReaderType
<1>2. /\ UNCHANGED <<window, now, content, mon, verdict, sup, pipe>> /\ w.pc = "terminate"
      /\ "person" \in disturbed' => "person" \in disturbed
      /\ child' \in {child, "dead"}
      /\ \/ w' = [w EXCEPT !.pc = "join"]
         \/ child' = "dead" /\ w' = [w EXCEPT !.pc = "join", !.clean = @ \cup {"child"}]
      /\ rd' = rd \/ rd' = [rd EXCEPT !.free = Append(@, NoBuffer)]
  BY DEF WorkerTerminates, Calm, Disturb
<1>3. /\ w' \in WorkerType /\ w'.pc = "join" /\ w'.failure = w.failure /\ w'.exit = w.exit /\ w'.last = w.last
      /\ "zero" \in w'.clean => "zero" \in w.clean
      /\ "child" \in w'.clean => "child" \in w.clean \/ child' = "dead"
  <2>1. "join" \in Places /\ {"child"} \subseteq AllClean
    BY DEF Places, AllClean
  <2>2. CASE w' = [w EXCEPT !.pc = "join"]
    BY <1>1, <2>1, <2>2 DEF WorkerType
  <2>3. CASE child' = "dead" /\ w' = [w EXCEPT !.pc = "join", !.clean = @ \cup {"child"}]
    <3>1. /\ w' \in WorkerType /\ w'.pc = "join" /\ w'.failure = w.failure /\ w'.exit = w.exit /\ w'.last = w.last
          /\ w'.clean = w.clean \cup {"child"}
      BY <1>1, <2>1, <2>3 DEF WorkerType
    <3> QED
      BY <2>3, <3>1
  <2> QED
    BY <1>2, <2>2, <2>3
<1>4. "zero" \notin w.clean /\ "child" \notin w.clean /\ w.exit # "zero"
      /\ sup \notin {"launch", "assign", "resume"}
  BY <1>1, <1>2 DEF Cleaned, Stages
<1>5. Truthful' /\ pipe' \in Seq(Messages)
  BY <1>2, TruthfulBefore
<1>6. rd' \in ReaderType /\ Ownership' /\ rd'.pc = rd.pc /\ rd'.buf = rd.buf
  <2>1. CASE rd' = rd
    BY <1>1, <1>3, <2>1, OwnershipFrame
  <2>2. CASE rd' = [rd EXCEPT !.free = Append(@, NoBuffer)]
    <3>1. PICK n \in Nat : n = Len(rd.free)
      BY <1>1
    <3>2. /\ Append(rd.free, NoBuffer) \in Seq(Buffers \cup {NoBuffer}) /\ Len(Append(rd.free, NoBuffer)) = n + 1
          /\ Append(rd.free, NoBuffer)[n + 1] = NoBuffer
          /\ \A i \in 1 .. n : Append(rd.free, NoBuffer)[i] = rd.free[i]
      BY <1>1, <3>1
    <3>3. rd'.free = Append(rd.free, NoBuffer)
      BY <1>1, <2>2 DEF ReaderType
    <3>4. rd' \in ReaderType /\ rd'.pc = rd.pc /\ rd'.buf = rd.buf /\ rd'.ready = rd.ready
      BY <1>1, <2>2, <3>2 DEF ReaderType
    <3>5. \A i \in 1 .. n + 1 : i \in 1 .. n \/ i = n + 1
      BY <3>1
    <3>6. NoBuffer \notin Buffers /\ (rd.pc = "read" => rd.buf \in Buffers)
      BY <1>1 DEF NoBuffer, Buffers, CaptureTypes
    <3>7. \A j \in 1 .. Len(rd.ready) : rd.ready[j].buf \in Buffers
      <4>1. \A j \in 1 .. Len(rd.ready) : rd.ready[j] \in Entries
        BY <1>1
      <4>2. \A e \in Entries : e.buf \in Buffers
        BY DEF Entries
      <4> QED
        BY <4>1, <4>2
    <3>8. \A i, j \in 1 .. n + 1 : rd'.free[i] \in Buffers /\ rd'.free[i] = rd'.free[j] => i = j
      BY <1>1, <3>1, <3>2, <3>3, <3>5, <3>6 DEF Ownership
    <3>9. \A i \in 1 .. n + 1, j \in 1 .. Len(rd.ready) : rd'.free[i] # rd.ready[j].buf
      BY <1>1, <3>1, <3>2, <3>3, <3>5, <3>6, <3>7 DEF Ownership
    <3>10. rd.pc = "read" => \A i \in 1 .. n + 1 : rd'.free[i] # rd.buf
      BY <1>1, <3>1, <3>2, <3>3, <3>5, <3>6 DEF Ownership
    <3> QED
      BY <3>2, <3>3, <3>4, <3>8, <3>9, <3>10, <1>1, <1>3 DEF Ownership
  <2> QED
    BY <1>2, <2>1, <2>2
<1>7. CaptureTypes'
  BY <1>1, <1>2, <1>3, <1>5, <1>6 DEF CaptureTypes
<1>8. Cleaned' /\ Unfailed' /\ Stages'
  BY <1>1, <1>2, <1>3, <1>4 DEF Cleaned, Unfailed, Stages
<1>9. PassIsEarned'
  BY <1>2, PassFrame
<1> QED
  BY <1>5, <1>6, <1>7, <1>8, <1>9 DEF CaptureInv

\* The reader has ended and the buffers are cleared, or it is left behind (WorkerJoins,
\* WorkerJoinTimesOut).
LEMMA JoinStep ==
  ASSUME CaptureInv, WorkerJoins \/ WorkerJoinTimesOut
  PROVE  CaptureInv'
<1>1. CaptureTypes /\ Ownership /\ Stages /\ Cleaned /\ Unfailed /\ w \in WorkerType
  BY DEF CaptureInv, CaptureTypes
<1>2. /\ UNCHANGED <<window, now, mon, verdict, sup, pipe, child, rd>> /\ w.pc = "join"
      /\ "person" \in disturbed' => "person" \in disturbed
      /\ \/ w' = [w EXCEPT !.pc = "close"] /\ content' = content
         \/ /\ \E c \in {{"reader", "zero"}, {"reader", "zero", "pipe"}} :
                 w' = [w EXCEPT !.pc = "close", !.raw = FALSE, !.clean = @ \cup c]
            /\ rd.pc \in {"off", "end"} /\ content' = [b \in Buffers |-> "zero"]
  <2>1. CASE WorkerJoins
    <3>1. \E c \in {{"reader", "zero"}, {"reader", "zero", "pipe"}} :
            w' = [w EXCEPT !.pc = "close", !.raw = FALSE, !.clean = @ \cup c]
      <4>1. {"reader", "zero"} \cup {} = {"reader", "zero"} /\ {"reader", "zero"} \cup {"pipe"} = {"reader", "zero", "pipe"}
        OBVIOUS
      <4>2. /\ (w.clean \cup {"reader", "zero"}) \cup {} = w.clean \cup {"reader", "zero"}
            /\ (w.clean \cup {"reader", "zero"}) \cup {"pipe"} = w.clean \cup {"reader", "zero", "pipe"}
        OBVIOUS
      <4> QED
        BY <2>1, <4>1, <4>2 DEF WorkerJoins
    <3>2. "person" \in disturbed' => "person" \in disturbed
      BY <2>1 DEF WorkerJoins, Calm, Disturb
    <3> QED
      BY <2>1, <3>1, <3>2 DEF WorkerJoins
  <2>2. CASE WorkerJoinTimesOut
    BY <2>2 DEF WorkerJoinTimesOut, Calm, Disturb
  <2> QED
    BY <2>1, <2>2
<1>3. /\ w' \in WorkerType /\ w'.pc = "close" /\ w'.failure = w.failure /\ w'.exit = w.exit /\ w'.last = w.last
      /\ "child" \in w'.clean => "child" \in w.clean
      /\ "zero" \in w'.clean =>
           \/ "zero" \in w.clean
           \/ rd.pc \in {"off", "end"} /\ content' = [b \in Buffers |-> "zero"]
  <2>1. "close" \in Places /\ FALSE \in Flags /\ {"reader", "zero"} \subseteq AllClean
        /\ {"reader", "zero", "pipe"} \subseteq AllClean
    BY DEF Places, AllClean, Flags
  <2>2. CASE w' = [w EXCEPT !.pc = "close"]
    BY <1>1, <2>1, <2>2 DEF WorkerType
  <2>3. ASSUME NEW c \in {{"reader", "zero"}, {"reader", "zero", "pipe"}},
               w' = [w EXCEPT !.pc = "close", !.raw = FALSE, !.clean = @ \cup c]
        PROVE  /\ w' \in WorkerType /\ w'.pc = "close" /\ w'.failure = w.failure /\ w'.exit = w.exit
               /\ w'.last = w.last /\ w'.clean = w.clean \cup c /\ "child" \notin c
    BY <1>1, <2>1, <2>3 DEF WorkerType
  <2> QED
    BY <1>2, <2>2, <2>3
<1>4. "zero" \notin w.clean /\ w.exit # "zero" /\ sup \notin {"launch", "assign", "resume"}
  BY <1>1, <1>2 DEF Cleaned, Stages
<1>5. Truthful' /\ pipe' \in Seq(Messages)
  BY <1>2, TruthfulBefore
<1>6. content' \in [Buffers -> {"zero", "frame"}]
  BY <1>1, <1>2 DEF CaptureTypes
<1>7. CaptureTypes'
  BY <1>1, <1>2, <1>3, <1>5, <1>6 DEF CaptureTypes
<1>8. Ownership'
  BY <1>1, <1>2, <1>3, OwnershipFrame
<1>9. Cleaned'
  BY <1>1, <1>2, <1>3, <1>4 DEF Cleaned
<1>10. Unfailed' /\ Stages'
  BY <1>1, <1>2, <1>3, <1>4 DEF Unfailed, Stages
<1>11. PassIsEarned'
  BY <1>2, PassFrame
<1> QED
  BY <1>5, <1>7, <1>8, <1>9, <1>10, <1>11 DEF CaptureInv

\* The cleanup verdict and the closing message (WorkerCloses).
LEMMA CloseStep ==
  ASSUME CaptureInv, WorkerCloses
  PROVE  CaptureInv'
<1>1. /\ CaptureTypes /\ Ownership /\ Stages /\ Cleaned /\ Unfailed /\ Truthful
      /\ w \in WorkerType /\ now \in Int /\ pipe \in Seq(Messages)
  BY DEF CaptureInv, CaptureTypes
<1>2. /\ UNCHANGED <<window, now, mon, verdict, sup, content, child, rd>> /\ w.pc = "close"
      /\ "person" \in disturbed' => "person" \in disturbed
      /\ pipe' = pipe \/ pipe' = Append(pipe, Message("CAPTURE_CLOSED"))
  BY DEF WorkerCloses, Calm, Disturb, Send
<1>3. w.failure \in Failures \cup {None} /\ w.clean \subseteq AllClean
  BY <1>1 DEF WorkerType
<1>4. PICK rest \in {{}, {"rest"}}, f \in Failures \cup {None} :
        /\ w' = [w EXCEPT !.pc = "report", !.clean = w.clean \cup rest, !.failure = f, !.closed = now]
        /\ f = None => w.failure = None /\ w.clean \cup rest = AllClean
        /\ w.failure = "PRIVACY_STOP" => f = "PRIVACY_STOP"
  <2>1. PICK rest \in {{}, {"rest"}} :
          LET clean == w.clean \cup rest
              swept == IF clean # AllClean /\ w.failure # "PRIVACY_STOP"
                       THEN "CLEANUP_INCOMPLETE" ELSE w.failure
              announce == {"pipe", "child", "reader"} \subseteq clean
              fail == IF announce /\ ~Emits("CAPTURE_CLOSED") /\ swept # "PRIVACY_STOP"
                      THEN "CAPTURE_RUNTIME_EXCEPTION" ELSE swept
          IN w' = [w EXCEPT !.pc = "report", !.clean = clean, !.failure = fail, !.closed = now]
    BY DEF WorkerCloses
  <2> DEFINE c == w.clean \cup rest
             swept == IF c # AllClean /\ w.failure # "PRIVACY_STOP"
                      THEN "CLEANUP_INCOMPLETE" ELSE w.failure
             f == IF {"pipe", "child", "reader"} \subseteq c /\ ~Emits("CAPTURE_CLOSED") /\ swept # "PRIVACY_STOP"
                  THEN "CAPTURE_RUNTIME_EXCEPTION" ELSE swept
  <2>2. w' = [w EXCEPT !.pc = "report", !.clean = c, !.failure = f, !.closed = now]
    BY <2>1
  <2>3. {"CLEANUP_INCOMPLETE", "CAPTURE_RUNTIME_EXCEPTION", "PRIVACY_STOP"} \subseteq Failures
    BY DEF Failures
  <2> HIDE DEF c
  <2>4. swept \in Failures \cup {None} /\ (swept = None => w.failure = None /\ c = AllClean)
        /\ (w.failure = "PRIVACY_STOP" => swept = "PRIVACY_STOP")
    BY <1>3, <2>3, FailuresAreSome
  <2> HIDE DEF swept
  <2>5. f \in Failures \cup {None} /\ (f = None => w.failure = None /\ c = AllClean)
        /\ (w.failure = "PRIVACY_STOP" => f = "PRIVACY_STOP")
    BY <2>4, <2>3, FailuresAreSome
  <2> HIDE DEF f
  <2> QED
    BY <2>2, <2>5 DEF c
<1>5. /\ w' \in WorkerType /\ w'.pc = "report" /\ w'.failure = f /\ w'.exit = w.exit /\ w'.last = w.last
      /\ w'.clean = w.clean \cup rest /\ w'.closed = now
  <2>1. "report" \in Places /\ rest \subseteq AllClean
    BY DEF Places, AllClean
  <2> QED
    BY <1>1, <1>4, <2>1 DEF WorkerType
<1>6. /\ w.exit # "zero" /\ sup \notin {"launch", "assign", "resume"}
      /\ "zero" \in w'.clean => "zero" \in w.clean
      /\ "child" \in w'.clean => "child" \in w.clean
  BY <1>1, <1>2, <1>5 DEF Stages
<1>7. Truthful' /\ pipe' \in Seq(Messages)
  <2>1. /\ \A i \in 1 .. Len(pipe) : pipe[i].receipt.code # "PASS" /\ pipe[i].event # "CAPTURE_CLOSED"
        /\ mon.payload.code # "PASS" /\ "CAPTURE_CLOSED" \notin mon.phases
    BY <1>1, <1>2 DEF Truthful
  <2>2. CASE pipe' = pipe
    BY <1>1, <1>2, <2>1, <2>2 DEF Truthful
  <2>3. CASE pipe' = Append(pipe, Message("CAPTURE_CLOSED"))
    <3>1. PICK m \in Messages : m = Message("CAPTURE_CLOSED") /\ m.receipt.code # "PASS" /\ m.ts = now
      BY <1>1, MessageFields DEF Phases
    <3>2. PICK n \in Nat : n = Len(pipe)
      BY <1>1
    <3>3. /\ pipe' \in Seq(Messages) /\ Len(pipe') = n + 1 /\ pipe'[n + 1] = m
          /\ \A i \in 1 .. n : pipe'[i] = pipe[i]
      BY <1>1, <2>3, <3>1, <3>2
    <3>4. \A i \in 1 .. n + 1 : i \in 1 .. n \/ i = n + 1
      BY <3>2
    <3>5. \A i \in 1 .. n + 1 : pipe'[i].receipt.code # "PASS"
      BY <2>1, <3>1, <3>2, <3>3, <3>4
    <3>6. \A i \in 1 .. n + 1 : pipe'[i].event = "CAPTURE_CLOSED" => i = n + 1
      BY <2>1, <3>1, <3>2, <3>3, <3>4
    <3>7. \A j \in 1 .. n + 1 : ~ (n + 1 < j)
      BY <3>2
    <3> QED
      BY <1>2, <1>5, <2>1, <3>1, <3>3, <3>5, <3>6, <3>7 DEF Truthful
  <2> QED
    BY <1>2, <2>2, <2>3
<1>8. CaptureTypes'
  BY <1>1, <1>2, <1>5, <1>7 DEF CaptureTypes
<1>9. Ownership'
  BY <1>1, <1>2, <1>5, OwnershipFrame
<1>10. Cleaned'
  BY <1>1, <1>2, <1>5, <1>6 DEF Cleaned
<1>11. Unfailed' /\ Stages'
  BY <1>1, <1>2, <1>4, <1>5, <1>6 DEF Unfailed, Stages
<1>12. PassIsEarned'
  BY <1>2, PassFrame
<1> QED
  BY <1>7, <1>8, <1>9, <1>10, <1>11, <1>12 DEF CaptureInv

\* The receipt, and the end of the worker (WorkerReports, WorkerReturns).
LEMMA ReportStep ==
  ASSUME CaptureInv, WorkerReports \/ WorkerReturns
  PROVE  CaptureInv'
<1>1. /\ CaptureTypes /\ Ownership /\ Stages /\ Cleaned /\ Unfailed /\ Truthful
      /\ w \in WorkerType /\ now \in Int /\ pipe \in Seq(Messages)
  BY DEF CaptureInv, CaptureTypes
<1>2. /\ UNCHANGED <<window, now, mon, verdict, sup, content, child, rd>> /\ w.pc \in {"report", "return"}
      /\ "person" \in disturbed' => "person" \in disturbed
  BY DEF WorkerReports, WorkerReturns, Calm, Disturb
<1>3. /\ w' \in WorkerType /\ w'.pc \in {"return", "gone"} /\ w'.failure = w.failure /\ w'.last = w.last
      /\ w'.clean = w.clean /\ w'.closed = w.closed /\ (w'.exit = "zero" => w'.pc = "gone")
  <2>1. "return" \in Places
    BY DEF Places
  <2>2. CASE WorkerReports
    <3>1. w' = [w EXCEPT !.pc = "return"] /\ w.exit # "zero"
      BY <1>1, <2>2 DEF WorkerReports, Stages
    <3> QED
      BY <1>1, <2>1, <3>1, MovedTo
  <2>3. CASE WorkerReturns
    BY <1>1, <2>3, EndedWith DEF WorkerReturns
  <2> QED
    BY <2>2, <2>3
<1>4. Truthful' /\ pipe' \in Seq(Messages)
  <2>1. CASE WorkerReturns
    BY <1>1, <1>2, <1>3, <2>1, TruthfulFrame DEF WorkerReturns
  <2>2. CASE WorkerReports
    <3>1. PICK code \in Codes :
            /\ code = "PASS" => w.failure = None
            /\ pipe' = Append(pipe, [Message("RECEIPT") EXCEPT !.receipt =
                                       [code |-> code, raw |-> w.raw, clean |-> w.clean]])
      <4>1. w.failure \in Failures \cup {None}
        BY <1>1 DEF WorkerType
      <4> QED
        BY <2>2, <4>1, FailuresAreSome DEF WorkerReports, Send
    <3>2. PICK m \in Messages : /\ m = [Message("RECEIPT") EXCEPT !.receipt =
                                          [code |-> code, raw |-> w.raw, clean |-> w.clean]]
                                /\ m.event = "RECEIPT" /\ m.receipt.code = code
      <4>1. [code |-> code, raw |-> w.raw, clean |-> w.clean] \in Receipts
        BY <1>1 DEF Receipts, WorkerType
      <4>2. PICK r \in Receipts : r = [code |-> code, raw |-> w.raw, clean |-> w.clean] /\ r.code = code
        BY <4>1
      <4>3. /\ [Message("RECEIPT") EXCEPT !.receipt = r] = [event |-> "RECEIPT", ts |-> now, receipt |-> r]
        BY DEF Message
      <4>4. [event |-> "RECEIPT", ts |-> now, receipt |-> r] \in Messages
        BY <1>1, <4>2 DEF Messages
      <4> QED
        BY <4>2, <4>3, <4>4
    <3>3. PICK n \in Nat : n = Len(pipe)
      BY <1>1
    <3>4. /\ pipe' \in Seq(Messages) /\ Len(pipe') = n + 1 /\ pipe'[n + 1] = m
          /\ \A i \in 1 .. n : pipe'[i] = pipe[i]
      BY <1>1, <3>1, <3>2, <3>3
    <3>5. \A i \in 1 .. n + 1 : i \in 1 .. n \/ i = n + 1
      BY <3>3
    <3>6. w'.pc \in {"return", "gone"} /\ window' = window /\ mon' = mon
      BY <1>2, <1>3
    <3>7. \A i \in 1 .. n + 1 : pipe'[i].receipt.code = "PASS" => w'.failure = None
      BY <1>1, <1>3, <3>1, <3>2, <3>3, <3>4, <3>5 DEF Truthful
    <3>8. \A i \in 1 .. n + 1 : pipe'[i].event = "CAPTURE_CLOSED" =>
            /\ i \in 1 .. n /\ pipe'[i].ts = w'.closed
            /\ \A j \in 1 .. n : i < j => pipe'[j].event # "FIRST_FRAME"
      <4>1. \A i \in 1 .. n : pipe[i].event = "CAPTURE_CLOSED" =>
              /\ pipe[i].ts = w.closed
              /\ \A j \in 1 .. n : i < j => pipe[j].event # "FIRST_FRAME"
        BY <1>1, <3>3 DEF Truthful
      <4>2. pipe'[n + 1].event # "CAPTURE_CLOSED"
        BY <3>2, <3>4
      <4> QED
        BY <4>1, <4>2, <1>3, <3>4, <3>5
    <3>9. pipe'[n + 1].event # "FIRST_FRAME"
      BY <3>2, <3>4
    <3>10. "CAPTURE_CLOSED" \in mon.phases =>
             /\ \A i \in 1 .. n : pipe'[i].event # "FIRST_FRAME"
             /\ "FIRST_FRAME" \in mon.phases => w'.closed <= window
      BY <1>1, <1>3, <3>3, <3>4 DEF Truthful
    <3>11. mon.payload.code = "PASS" => w'.failure = None
      BY <1>1, <1>3 DEF Truthful
    <3> QED
      BY <3>4, <3>5, <3>6, <3>7, <3>8, <3>9, <3>10, <3>11 DEF Truthful
  <2> QED
    BY <2>1, <2>2
<1>5. CaptureTypes'
  BY <1>1, <1>2, <1>3, <1>4 DEF CaptureTypes
<1>6. Ownership'
  BY <1>1, <1>2, <1>3, OwnershipFrame
<1>7. Cleaned'
  BY <1>1, <1>2, <1>3 DEF Cleaned
<1>8. Unfailed' /\ Stages'
  BY <1>1, <1>2, <1>3 DEF Unfailed, Stages
<1>9. PassIsEarned'
  BY <1>2, PassFrame
<1> QED
  BY <1>4, <1>5, <1>6, <1>7, <1>8, <1>9 DEF CaptureInv

-----------------------------------------------------------------------------
(* The reader thread *)

\* What the reader does leaves the worker and the supervisor alone.
LEMMA ReaderFrame ==
  ASSUME CaptureInv, rd.pc \in {"get", "read"}, rd' \in ReaderType, rd'.pc = "read" => rd'.buf \in Buffers,
         Ownership', content' \in [Buffers -> {"zero", "frame"}], child' \in {child, "dead"}, w.pc # "gone",
         "person" \in disturbed' => "person" \in disturbed,
         UNCHANGED <<window, now, mon, verdict, sup, pipe, w>>
  PROVE  CaptureInv'
<1>1. CaptureTypes /\ Stages /\ Cleaned /\ Unfailed /\ Truthful
  BY DEF CaptureInv
<1>2. "zero" \notin w.clean
  BY <1>1 DEF Cleaned
<1>3. CaptureTypes'
  BY <1>1 DEF CaptureTypes
<1>4. Stages' /\ Cleaned' /\ Unfailed' /\ Truthful'
  BY <1>1, <1>2 DEF Stages, Cleaned, Unfailed, Truthful
<1>5. PassIsEarned'
  BY PassFrame
<1> QED
  BY <1>3, <1>4, <1>5 DEF CaptureInv

\* The reader takes a free buffer, or learns that it is to stop (ReaderGets).
LEMMA GetStep ==
  ASSUME CaptureInv, ReaderGets
  PROVE  CaptureInv'
<1>1. /\ CaptureTypes /\ Ownership /\ rd \in ReaderType /\ rd.free \in Seq(Buffers \cup {NoBuffer})
      /\ content \in [Buffers -> {"zero", "frame"}]
  BY DEF CaptureInv, CaptureTypes, ReaderType
<1>2. /\ UNCHANGED <<window, now, mon, verdict, sup, pipe, w, content, child, disturbed>>
      /\ rd.pc = "get" /\ rd.free # <<>> /\ w.pc # "gone"
      /\ rd' = [rd EXCEPT !.free = Tail(@), !.buf = Head(rd.free),
                          !.pc = IF Head(rd.free) = NoBuffer THEN "end" ELSE "read"]
  BY DEF ReaderGets, Alive
<1>3. PICK n \in Nat : n + 1 = Len(rd.free)
  <2>1. Len(rd.free) \in Nat /\ Len(rd.free) # 0
    BY <1>1, <1>2, EmptySeq
  <2>2. Len(rd.free) - 1 \in Nat /\ (Len(rd.free) - 1) + 1 = Len(rd.free)
    BY <2>1
  <2> QED
    BY <2>2
<1>4. PICK b \in Buffers \cup {NoBuffer} : b = Head(rd.free) /\ b = rd.free[1]
  BY <1>1, <1>2, <1>3
<1>5. /\ rd' \in ReaderType /\ rd'.pc = (IF b = NoBuffer THEN "end" ELSE "read") /\ rd'.buf = b
      /\ rd'.ready = rd.ready
      /\ Len(rd'.free) = n /\ \A i \in 1 .. n : rd'.free[i] = rd.free[i + 1]
  <2>1. Tail(rd.free) \in Seq(Buffers \cup {NoBuffer}) /\ Len(Tail(rd.free)) = n
        /\ \A i \in 1 .. n : Tail(rd.free)[i] = rd.free[i + 1]
    BY <1>1, <1>2, <1>3
  <2>2. rd'.free = Tail(rd.free)
    BY <1>1, <1>2 DEF ReaderType
  <2>3. rd' \in ReaderType /\ rd'.pc = (IF b = NoBuffer THEN "end" ELSE "read") /\ rd'.buf = b /\ rd'.ready = rd.ready
    BY <1>1, <1>2, <1>4, <2>1 DEF ReaderType
  <2> QED
    BY <2>1, <2>2, <2>3
<1>6. Ownership'
  <2> DEFINE F == 1 .. Len(rd.free)
             R == 1 .. Len(rd.ready)
  <2>1. /\ \A i, j \in F : rd.free[i] \in Buffers /\ rd.free[i] = rd.free[j] => i = j
        /\ \A i, j \in R : rd.ready[i].buf = rd.ready[j].buf => i = j
        /\ \A i \in F, j \in R : rd.free[i] # rd.ready[j].buf
        /\ w.pc = "inspect" => /\ w.held \in Buffers
                               /\ \A i \in F : rd.free[i] # w.held
                               /\ \A i \in R : rd.ready[i].buf # w.held
    BY <1>1 DEF Ownership
  <2>2. 1 \in F /\ \A i \in 1 .. n : i \in Int /\ i + 1 \in F /\ i + 1 # 1 /\ rd'.free[i] = rd.free[i + 1]
    <3>1. 1 \in F /\ \A i \in 1 .. n : i \in Int /\ i + 1 \in F /\ i + 1 # 1
      BY <1>3
    <3> QED
      BY <3>1, <1>5
  <2> HIDE DEF F, R
  <2>3. \A i, j \in 1 .. n : rd'.free[i] \in Buffers /\ rd'.free[i] = rd'.free[j] => i = j
    <3>1. \A i, j \in 1 .. n : i + 1 = j + 1 => i = j
      BY <2>2
    <3>2. \A i, j \in 1 .. n : rd.free[i + 1] \in Buffers /\ rd.free[i + 1] = rd.free[j + 1] => i + 1 = j + 1
      BY <2>1, <2>2
    <3> QED
      BY <3>1, <3>2, <2>2
  <2>4. /\ \A i \in 1 .. n, j \in R : rd'.free[i] # rd.ready[j].buf
        /\ w.pc = "inspect" => \A i \in 1 .. n : rd'.free[i] # w.held
    BY <2>1, <2>2
  <2>5. b # NoBuffer => /\ \A i \in 1 .. n : rd'.free[i] # b
                        /\ \A j \in R : rd.ready[j].buf # b
                        /\ w.pc = "inspect" => b # w.held
    <3>1. b # NoBuffer => rd.free[1] \in Buffers
      BY <1>4
    <3> QED
      BY <3>1, <1>4, <2>1, <2>2
  <2>6. w' = w
    BY <1>2
  <2> QED
    BY <2>1, <2>3, <2>4, <2>5, <2>6, <1>5 DEF Ownership, R
<1>7. rd'.pc = "read" => rd'.buf \in Buffers
  BY <1>5
<1> QED
  BY <1>1, <1>2, <1>5, <1>6, <1>7, ReaderFrame

\* The reader hands over what it has read (ReaderFills, ReaderFillsShort, ReaderEnds).
LEMMA PutStep ==
  ASSUME CaptureInv, ReaderFills \/ ReaderFillsShort \/ ReaderEnds
  PROVE  CaptureInv'
<1>1. /\ CaptureTypes /\ Ownership /\ rd \in ReaderType /\ rd.ready \in Seq(Entries)
      /\ content \in [Buffers -> {"zero", "frame"}] /\ now \in Int
  BY DEF CaptureInv, CaptureTypes, ReaderType
<1>2. /\ UNCHANGED <<window, now, mon, verdict, sup, pipe, w>>
      /\ rd.pc = "read" /\ w.pc # "gone" /\ child' \in {child, "dead"}
      /\ "person" \in disturbed' => "person" \in disturbed
      /\ content' = content \/ content' = [content EXCEPT ![rd.buf] = "frame"]
  BY DEF ReaderFills, ReaderFillsShort, ReaderEnds, Alive, Calm, Disturb
<1>3. PICK kind \in {"frame", "short", "eof", "exception"}, p \in {"get", "end"} :
        rd' = [rd EXCEPT !.pc = p, !.ready = Append(@, [kind |-> kind, buf |-> rd.buf, at |-> now])]
  BY DEF ReaderFills, ReaderFillsShort, ReaderEnds, Ready
<1>4. rd.buf \in Buffers
  BY <1>1, <1>2 DEF CaptureTypes
<1>5. PICK e \in Entries : e = [kind |-> kind, buf |-> rd.buf, at |-> now] /\ e.buf = rd.buf
  <2>1. [kind |-> kind, buf |-> rd.buf, at |-> now] \in Entries
    BY <1>1, <1>4 DEF Entries
  <2> QED
    BY <2>1
<1>6. PICK n \in Nat : n = Len(rd.ready)
  BY <1>1
<1>7. /\ rd' \in ReaderType /\ rd'.pc = p /\ rd'.free = rd.free
      /\ Len(rd'.ready) = n + 1 /\ rd'.ready[n + 1] = e /\ \A i \in 1 .. n : rd'.ready[i] = rd.ready[i]
  <2>1. /\ Append(rd.ready, e) \in Seq(Entries) /\ Len(Append(rd.ready, e)) = n + 1
        /\ Append(rd.ready, e)[n + 1] = e /\ \A i \in 1 .. n : Append(rd.ready, e)[i] = rd.ready[i]
    BY <1>1, <1>6
  <2>2. rd' = [rd EXCEPT !.pc = p, !.ready = Append(rd.ready, e)]
    BY <1>3, <1>5
  <2>3. rd'.ready = Append(rd.ready, e)
    BY <1>1, <2>2 DEF ReaderType
  <2>4. rd' \in ReaderType /\ rd'.pc = p /\ rd'.free = rd.free
    BY <1>1, <2>1, <2>2 DEF ReaderType
  <2> QED
    BY <2>1, <2>3, <2>4
<1>8. Ownership'
  <2> DEFINE F == 1 .. Len(rd.free)
  <2>1. /\ \A i, j \in F : rd.free[i] \in Buffers /\ rd.free[i] = rd.free[j] => i = j
        /\ \A i, j \in 1 .. n : rd.ready[i].buf = rd.ready[j].buf => i = j
        /\ \A i \in F, j \in 1 .. n : rd.free[i] # rd.ready[j].buf
        /\ \A i \in F : rd.free[i] # rd.buf
        /\ \A i \in 1 .. n : rd.ready[i].buf # rd.buf
        /\ w.pc = "inspect" => /\ w.held \in Buffers
                               /\ \A i \in F : rd.free[i] # w.held
                               /\ \A i \in 1 .. n : rd.ready[i].buf # w.held
                               /\ rd.buf # w.held
    BY <1>1, <1>2, <1>6 DEF Ownership
  <2> HIDE DEF F
  <2>2. \A i \in 1 .. n + 1 : i \in 1 .. n \/ i = n + 1
    BY <1>6
  <2>3. rd'.ready[n + 1].buf = rd.buf /\ \A i \in 1 .. n : rd'.ready[i].buf = rd.ready[i].buf
    BY <1>5, <1>7
  <2>4. \A i, j \in 1 .. n + 1 : rd'.ready[i].buf = rd'.ready[j].buf => i = j
    BY <2>1, <2>2, <2>3
  <2>5. \A i \in F, j \in 1 .. n + 1 : rd.free[i] # rd'.ready[j].buf
    BY <2>1, <2>2, <2>3
  <2>6. w.pc = "inspect" => \A i \in 1 .. n + 1 : rd'.ready[i].buf # w.held
    BY <2>1, <2>2, <2>3
  <2>7. w' = w /\ rd'.pc # "read"
    BY <1>2, <1>7
  <2> QED
    BY <2>1, <2>4, <2>5, <2>6, <2>7, <1>7 DEF Ownership, F
<1>9. content' \in [Buffers -> {"zero", "frame"}]
  BY <1>1, <1>2, <1>4
<1> QED
  BY <1>1, <1>2, <1>7, <1>8, <1>9, ReaderFrame

-----------------------------------------------------------------------------
(* The invariant and the theorems *)

\* The attempt begins in the invariant.
LEMMA CaptureBegins == Init => CaptureInv
<1> SUFFICES ASSUME Init PROVE CaptureInv
  OBVIOUS
<1>1. window \in Int
  BY TimeAssumption DEF Init
<1>2. NoReceipt \in Receipts /\ NoReceipt.code # "PASS"
  BY DEF NoReceipt, Receipts, Flags, None
<1>3. w \in WorkerType
  BY DEF Init, WorkerType, Places, Flags, NoBuffer, None
<1>4. rd \in ReaderType
  <2>1. <<0, 1>> \in Seq(Buffers \cup {NoBuffer}) /\ <<>> \in Seq(Entries)
    BY DEF Buffers
  <2> QED
    BY <2>1 DEF Init, ReaderType, NoBuffer
<1>5. mon \in Monitors
  BY <1>2 DEF Init, Monitors, Flags
<1>6. CaptureTypes
  <2>1. pipe \in Seq(Messages) /\ content \in [Buffers -> {"zero", "frame"}] /\ child \in {None, "alive", "dead"}
        /\ now \in Int /\ rd.pc # "read"
    BY DEF Init
  <2> QED
    BY <1>1, <1>3, <1>4, <1>5, <2>1 DEF CaptureTypes
<1>7. Ownership
  <2>1. rd.free = <<0, 1>> /\ rd.ready = <<>> /\ rd.pc = "off" /\ w.pc = "absent"
    BY DEF Init
  <2>2. Len(rd.free) = 2 /\ rd.free[1] = 0 /\ rd.free[2] = 1 /\ Len(rd.ready) = 0
    BY <2>1
  <2> QED
    BY <2>1, <2>2 DEF Ownership
<1>8. Stages /\ Cleaned /\ Unfailed /\ PassIsEarned
  BY DEF Init, Stages, Cleaned, Unfailed, PassIsEarned, None
<1>9. Truthful
  <2>1. Len(pipe) = 0 /\ mon.payload = NoReceipt /\ mon.phases = {}
    BY DEF Init
  <2> QED
    BY <1>2, <2>1 DEF Truthful
<1> QED
  BY <1>6, <1>7, <1>8, <1>9 DEF CaptureInv

\* Every step of the supervisor, the worker, the reader and the clock keeps the invariant.
LEMMA CaptureStep == CaptureInv /\ [Next]_vars => CaptureInv'
<1> SUFFICES ASSUME CaptureInv, [Next]_vars PROVE CaptureInv'
  OBVIOUS
<1>1. CASE Supervisor
  BY <1>1, LaunchSteps, OtherSteps, ReadStep, VerdictStep DEF Supervisor
<1>2. CASE LaunchFails \/ SupervisorCrash \/ WorkerCrash \/ ChildDiesLate \/ Tick
  BY <1>2, LaunchSteps, OtherSteps, LateStep
<1>3. CASE Worker
  BY <1>3, WorkerBegins, StartStep, TakeStep, InspectStep, TerminateStep, JoinStep, CloseStep, ReportStep DEF Worker
<1>4. CASE Reader
  BY <1>4, GetStep, PutStep DEF Reader
<1>5. CASE UNCHANGED vars
  BY <1>5 DEF vars, CaptureInv, CaptureTypes, Ownership, Stages, Cleaned, Unfailed, Truthful, PassIsEarned
<1> QED
  BY <1>1, <1>2, <1>3, <1>4, <1>5 DEF Next

\* The invariant holds in every attempt.
LEMMA CaptureSafe == Spec => []CaptureInv
<1>1. Init => CaptureInv
  BY CaptureBegins
<1>2. CaptureInv /\ [Next]_vars => CaptureInv'
  BY CaptureStep
<1> QED
  BY <1>1, <1>2, PTL DEF Spec

\* A set that is empty or has one element, by its size.
LEMMA OneOrNone ==
  ASSUME NEW S, \A x, y \in S : x = y
  PROVE  (S = {} /\ Cardinality(S) = 0) \/ (S # {} /\ Cardinality(S) = 1)
<1>1. CASE S = {}
  BY <1>1, FS_EmptySet
<1>2. CASE S # {}
  <2>1. PICK x : x \in S
    BY <1>2
  <2>2. S = {x}
    BY <2>1
  <2> QED
    BY <1>2, <2>2, FS_Singleton
<1> QED
  BY <1>1, <1>2

\* The invariant gives every buffer at most one holder, and none a frame once cleared.
LEMMA OwnershipGivesOne == CaptureInv => FrameOwnership
<1> SUFFICES ASSUME CaptureInv, NEW b \in Buffers
             PROVE  Uses(b) <= 1 /\ (Alive /\ "zero" \in w.clean => content[b] = "zero")
  BY DEF FrameOwnership
<1>1. Ownership /\ Cleaned /\ rd.free \in Seq(Buffers \cup {NoBuffer}) /\ rd.ready \in Seq(Entries)
  BY DEF CaptureInv, CaptureTypes, ReaderType
<1>2. DOMAIN rd.free = 1 .. Len(rd.free) /\ DOMAIN rd.ready = 1 .. Len(rd.ready)
  BY <1>1
<1> DEFINE F == {i \in DOMAIN rd.free : rd.free[i] = b}
           R == {i \in DOMAIN rd.ready : rd.ready[i].buf = b}
           reads == rd.pc = "read" /\ rd.buf = b
           looks == w.pc = "inspect" /\ w.held = b
<1>3. /\ \A x, y \in F : x = y
      /\ \A x, y \in R : x = y
  BY <1>1, <1>2 DEF Ownership
<1>4. /\ F # {} => R = {} /\ ~reads /\ ~looks
      /\ R # {} => ~reads /\ ~looks
      /\ reads => ~looks
  BY <1>1, <1>2 DEF Ownership
<1>5. Uses(b) = Cardinality(F) + Cardinality(R) + (IF reads THEN 1 ELSE 0) + (IF looks THEN 1 ELSE 0)
  BY DEF Uses
<1> HIDE DEF F, R, reads, looks
<1>6. /\ (F = {} /\ Cardinality(F) = 0) \/ (F # {} /\ Cardinality(F) = 1)
      /\ (R = {} /\ Cardinality(R) = 0) \/ (R # {} /\ Cardinality(R) = 1)
  BY <1>3, OneOrNone
<1>7. Uses(b) <= 1
  BY <1>4, <1>5, <1>6
<1>8. "zero" \in w.clean => content[b] = "zero"
  BY <1>1 DEF Cleaned
<1> QED
  BY <1>7, <1>8

\* A frame buffer has one holder, and once the worker has found its buffers cleared no
\* frame appears in them again, however late the reader thread is (_FrameReader, the order
\* of inspection and release in the loop, raw_retained of the receipt).
THEOREM FrameOwnershipInvariant == Spec => []FrameOwnership
<1>1. CaptureInv => FrameOwnership
  BY OwnershipGivesOne
<1> QED
  BY CaptureSafe, <1>1, PTL

\* A PASS was earned: the worker ended by itself, child and job are gone, the frames span
\* the preflight, nobody was seen, everything was cleaned up, and the capture was closed
\* inside its window (_monitor_capture_worker, _monitor_allows_candidate, the verdicts of
\* both lines).
THEOREM PassIsEarnedInvariant == Spec => []PassIsEarned
<1>1. CaptureInv => PassIsEarned
  BY DEF CaptureInv
<1> QED
  BY CaptureSafe, <1>1, PTL

-----------------------------------------------------------------------------
(* The diagnosis: what each disturbance leaves behind, and what an attempt *)
(* looks like that only what it can diagnose disturbed.                    *)

\* Disturbances after which an N2 attempt leaves no terminal record.
Fatal == {"launch", "proceed", "refused", "engine", "device", "spawn", "unkillable", "pipe", "stuck",
          "leak", "worker", "skew", "terminate", "handle", "supervisor"}
Benign == {"person", "quality", "stall", "pose", "eof", "short", "exception"}
Faults == {"eof", "short", "exception"}

Happened(S) == \E d \in S : d \in disturbed

\* The worker has said nothing yet, has not started the capture, has stopped it.
Silent == {"absent", "suspended", "boot"}
Preparing == Silent \cup {"liveness", "device", "start"}
Tidying == {"join", "close", "report", "return", "gone"}

\* Each of them leaves a mark that no later step removes.
Marked ==
  /\ disturbed \subseteq Fatal \cup Benign \cup {"slow"}
  /\ line = "N2" \/ line = "N1"
  /\ w.exit # None => w.pc = "gone"
  /\ w.pc = "absent" => sup = "launch"
  /\ child = None <=> rd.pc = "off"
  /\ w.pc \in Preparing => child = None
  /\ "reader" \in w.clean \/ "pipe" \in w.clean => w.pc \in Tidying \ {"join"}
  /\ "pipe" \in w.clean => child # None
  /\ "rest" \in w.clean => w.pc \in {"report", "return", "gone"}
  /\ sup = "done" => w.pc = "gone" \/ "handle" \in disturbed
  /\ sup \notin {"launch", "assign", "dead"} => inJob \/ w.pc = "gone"
  /\ Happened({"launch", "refused", "worker"}) => w.exit \in {"killed", "nonzero"}
  /\ sup \in {"launch", "assign", "resume", "proceed"} => ~ mon.ran
  /\ "proceed" \in disturbed => ~ mon.ran /\ sup \in {"close", "done", "dead"}
  /\ Happened({"engine", "device", "spawn"}) => child = None /\ w.pc \in {"terminate"} \cup Tidying
  /\ "unkillable" \in disturbed => "child" \notin w.clean /\ w.pc \in Tidying
  /\ "pipe" \in disturbed => "pipe" \notin w.clean /\ w.pc \in Tidying \ {"join"}
  /\ "stuck" \in disturbed => "reader" \notin w.clean /\ w.pc \in Tidying \ {"join"}
  /\ "leak" \in disturbed => "rest" \notin w.clean /\ w.pc \in {"report", "return", "gone"}
  /\ "skew" \in disturbed => mon.malformed
  /\ "terminate" \in disturbed => mon.forced
  /\ "handle" \in disturbed => sup = "done" /\ (line = "N2" => verdict = "FAILED")
  /\ "supervisor" \in disturbed => sup = "dead"

\* A receipt repeats the worker's record.
ReceiptOf(r) == w.pc \in {"return", "gone"} /\ r.clean = w.clean /\ r.raw = w.raw /\ r.code \in Codes
                /\ IF w.failure # None THEN r.code = w.failure
                   ELSE r.code = IF "quality" \in disturbed THEN "QUALITY_INSUFFICIENT" ELSE "PASS"
Repeated ==
  /\ \A i \in 1 .. Len(pipe) : pipe[i].event = "RECEIPT" => ReceiptOf(pipe[i].receipt)
  /\ mon.payload # NoReceipt => ReceiptOf(mon.payload)
  /\ "quality" \in disturbed => w.failure = None /\ w.pc \in {"return", "gone"}

\* An N2 attempt with time to close that nothing fatal disturbed and in which nobody was slow.
Quiet == line = "N2" /\ window >= Preflight + 2 /\ ~ Happened(Fatal \cup {"slow"})

Before == Preparing \cup {"next", "inspect"}

\* It is on time.
Timely ==
  /\ now <= Preflight + 1 /\ w.at <= now
  /\ w.pc \in Before => now <= Preflight
  /\ w.pc = "terminate" => now <= Preflight \/ w.at < now
  /\ w.pc \in Before \ {"inspect"} => w.last < Preflight
  /\ \A i \in 1 .. Len(rd.ready) : rd.ready[i].at <= now
  /\ \A i \in 1 .. Len(pipe) : pipe[i].ts <= Preflight + 1

\* Its failure has a cause among the disturbances.
Attributed ==
  /\ w.pc \in Before => /\ w.failure = None
                        /\ child = "dead" \/ rd.pc = "end" => Happened(Faults)
                        /\ \A i \in 1 .. Len(rd.free) : rd.free[i] \in Buffers
                        /\ \A i \in 1 .. Len(rd.ready) : rd.ready[i].kind # "frame" => Happened(Faults)
  /\ w.failure \in {None, "PRIVACY_STOP", "FRAME_STALLED", "POSE_ENGINE_EXCEPTION", "INPUT_UNAVAILABLE",
                    "INPUT_MALFORMED", "FRAME_READER_EXCEPTION"}
  /\ w.failure = "PRIVACY_STOP" => "person" \in disturbed
  /\ w.failure = "FRAME_STALLED" => "stall" \in disturbed
  /\ w.failure = "POSE_ENGINE_EXCEPTION" => "pose" \in disturbed
  /\ w.failure \in {"INPUT_UNAVAILABLE", "INPUT_MALFORMED", "FRAME_READER_EXCEPTION"} => Happened(Faults)
  /\ Happened({"person", "stall", "pose"}) => w.failure # None

\* It is cleaned up step by step.
Swept ==
  /\ w.pc \in {"next", "inspect", "terminate"} => child # None
  /\ w.pc \in Tidying => "child" \in w.clean
  /\ w.pc \in Tidying \ {"join"} => {"reader", "pipe", "zero"} \subseteq w.clean /\ w.raw = FALSE
  /\ w.pc \in {"report", "return", "gone"} => "rest" \in w.clean
  /\ w.pc = "gone" => w.exit = "zero"

\* The events in the order in which the worker says them.
Rank(e) == CASE e = "AUTHORIZED" -> 1 [] e = "PRIVACY_READY" -> 2 [] e = "CAPTURE_STARTING" -> 3
             [] e = "FIRST_FRAME" -> 4 [] e = "CAPTURE_CLOSED" -> 5 [] OTHER -> 6

\* What the worker has said so far.
Spoken(e) ==
  CASE e = "AUTHORIZED" -> w.pc \notin Silent
    [] e = "PRIVACY_READY" -> w.pc \notin Silent \cup {"liveness"}
    [] e = "CAPTURE_STARTING" -> w.pc \notin Preparing
    [] e = "FIRST_FRAME" -> w.first
    [] e = "CAPTURE_CLOSED" -> w.pc \in {"report", "return", "gone"}
    [] OTHER -> w.pc \in {"return", "gone"}

\* The monitor has heard it in order, and the rest is in the pipe in order.
InOrder ==
  /\ \A i, j \in 1 .. Len(pipe) : i < j => Rank(pipe[i].event) < Rank(pipe[j].event)
  /\ \A e \in mon.phases : Spoken(e) /\ \A i \in 1 .. Len(pipe) : Rank(e) < Rank(pipe[i].event)
  /\ \A e \in Phases \cup {"RECEIPT"}, i \in 1 .. Len(pipe) : pipe[i].event = e => Spoken(e)
  /\ \A e \in Phases : Spoken(e) => e \in mon.phases \/ \E i \in 1 .. Len(pipe) : pipe[i].event = e
  /\ w.first => w.pc \notin Preparing
  /\ w.pc = "inspect" \/ w.last >= 0 => w.first

\* The supervisor waits for the receipt, and then for the worker.
Patient ==
  /\ ~ mon.timed_out /\ ~ mon.malformed /\ ~ mon.forced
  /\ sup \in {"monitor", "drain", "close", "done"} => mon.ran
  /\ sup \in {"launch", "assign", "resume", "proceed"} => w.pc \in Silent
  /\ sup \in {"drain", "close", "done"} => mon.payload # NoReceipt
  /\ sup \in {"launch", "assign", "resume", "proceed", "monitor"} => mon.payload = NoReceipt
  /\ sup \in {"drain", "close", "done"} => \A e \in Phases : Spoken(e) => e \in mon.phases
  /\ sup \in {"close", "done"} => mon.drained /\ w.exit = "zero"
  /\ w.pc \in {"return", "gone"} => mon.payload # NoReceipt \/ \E i \in 1 .. Len(pipe) : pipe[i].event = "RECEIPT"

Undisturbed == Timely /\ Attributed /\ Swept /\ InOrder /\ Patient

\* A worker that could not end its child reports an incomplete clean-up, unless it saw
\* somebody.
Unended ==
  /\ w.failure = "PRIVACY_STOP" => "person" \in disturbed
  /\ "unkillable" \in disturbed /\ (w.pc \in {"report", "return"} \/ w.exit = "zero") =>
       w.failure \in {"CLEANUP_INCOMPLETE", "PRIVACY_STOP"}

DiagInv == CaptureInv /\ Marked /\ Unended /\ Repeated /\ (Quiet => Undisturbed) /\ DiagnosisExact

\* A step leaves the line and the window alone, and records at most one disturbance more.
LEMMA Recorded ==
  ASSUME Next
  PROVE  /\ line' = line /\ window' = window
         /\ disturbed' = disturbed \/ \E d \in Fatal \cup Benign \cup {"slow"} : disturbed' = disturbed \cup {d}
<1>1. CASE Supervisor
  BY <1>1 DEF Supervisor, Launch, Assign, Resume, Proceed, MonitorArms, MonitorTimesOut, MonitorSeesEnd, MonitorReads,
     DrainGracefully, DrainByForce, CloseJob, Calm, Slow, Disturb, Expires, Fatal, Benign
<1>2. CASE Worker
  BY <1>2 DEF Worker, WorkerBoot, WorkerLiveness, WorkerDevice, WorkerStart, WorkerTakes, WorkerStalls, WorkerInspects,
     WorkerTerminates, WorkerJoins, WorkerJoinTimesOut, WorkerCloses, WorkerReports, WorkerReturns, Calm, Disturb,
     FailsWith, Fatal, Benign
<1>3. CASE Reader
  BY <1>3 DEF Reader, ReaderGets, ReaderFills, ReaderFillsShort, ReaderEnds, Calm, Disturb, Fatal, Benign
<1>4. CASE LaunchFails \/ SupervisorCrash \/ WorkerCrash \/ ChildDiesLate \/ Tick
  BY <1>4 DEF LaunchFails, SupervisorCrash, WorkerCrash, ChildDiesLate, Tick, Calm, Slow, Disturb, Fatal, Benign
<1> QED
  BY <1>1, <1>2, <1>3, <1>4 DEF Next

\* What was quiet after a step was quiet before it.
LEMMA QuietBefore ==
  ASSUME Next, Quiet'
  PROVE  Quiet /\ disturbed \subseteq disturbed' /\ \A d \in Fatal \cup {"slow"} : d \notin disturbed'
BY Recorded DEF Quiet, Happened

-----------------------------------------------------------------------------
(* What a step leaves alone *)

\* Receipts: none is sent, and what they repeat stays.
LEMMA RepeatedFrame ==
  ASSUME Repeated, mon'.payload = mon.payload, "quality" \in disturbed' <=> "quality" \in disturbed,
         pipe \in Seq(Messages),
         w.pc \in {"return", "gone"} =>
           w'.pc \in {"return", "gone"} /\ w'.clean = w.clean /\ w'.raw = w.raw /\ w'.failure = w.failure,
         \/ pipe' = pipe
         \/ w.pc \notin {"return", "gone"} /\ \E m \in Messages : pipe' = Append(pipe, m) /\ m.event # "RECEIPT"
  PROVE  Repeated'
<1>1. CASE pipe' = pipe
  BY <1>1 DEF Repeated, ReceiptOf
<1>2. CASE w.pc \notin {"return", "gone"} /\ \E m \in Messages : pipe' = Append(pipe, m) /\ m.event # "RECEIPT"
  <2>1. PICK m \in Messages : pipe' = Append(pipe, m) /\ m.event # "RECEIPT"
    BY <1>2
  <2>2. /\ Len(pipe') = Len(pipe) + 1 /\ Len(pipe) \in Nat
        /\ pipe'[Len(pipe) + 1] = m /\ \A i \in 1 .. Len(pipe) : pipe'[i] = pipe[i]
    BY <2>1
  <2>3. \A i \in 1 .. Len(pipe') : i \in 1 .. Len(pipe) \/ i = Len(pipe) + 1
    BY <2>2
  <2>4. \A i \in 1 .. Len(pipe) : pipe[i].event # "RECEIPT"
    BY <1>2 DEF Repeated, ReceiptOf
  <2>5. \A i \in 1 .. Len(pipe') : pipe'[i].event # "RECEIPT"
    BY <2>1, <2>2, <2>3, <2>4
  <2>6. mon.payload = NoReceipt /\ "quality" \notin disturbed
    BY <1>2 DEF Repeated, ReceiptOf
  <2> QED
    BY <2>5, <2>6 DEF Repeated
<1> QED
  BY <1>1, <1>2

\* Nothing is said and nothing heard.
LEMMA OrderFrame ==
  ASSUME InOrder, pipe' = pipe, mon'.phases = mon.phases, w'.first = w.first,
         w'.pc = w.pc \/ (\A e \in Phases \cup {"RECEIPT"} : Spoken(e)' <=> Spoken(e)),
         w'.pc \in Preparing => w.pc \in Preparing,
         w'.pc = "inspect" \/ w'.last >= 0 => w'.first,
         pipe \in Seq(Messages), mon \in Monitors
  PROVE  InOrder'
<1>1. \A e \in Phases \cup {"RECEIPT"} : Spoken(e)' <=> Spoken(e)
  BY DEF Spoken
<1>2. \A i \in 1 .. Len(pipe) : pipe[i].event \in Phases \cup {"RECEIPT"}
  <2>1. \A i \in 1 .. Len(pipe) : pipe[i] \in Messages
    OBVIOUS
  <2> QED
    BY <2>1 DEF Messages
<1>3. mon.phases \subseteq Phases
  BY DEF Monitors
<1> QED
  BY <1>1, <1>2, <1>3 DEF InOrder

\* The worker says what comes next.
LEMMA OrderSays ==
  ASSUME InOrder, NEW m \in Messages, pipe' = Append(pipe, m), mon'.phases = mon.phases,
         \A e \in Phases \cup {"RECEIPT"} : Spoken(e)' <=> Spoken(e) \/ e = m.event,
         \A e \in Phases \cup {"RECEIPT"} : Spoken(e) => Rank(e) < Rank(m.event),
         w'.first => w'.pc \notin Preparing,
         w'.pc = "inspect" \/ w'.last >= 0 => w'.first,
         pipe \in Seq(Messages), mon \in Monitors
  PROVE  InOrder'
<1>1. /\ Len(pipe') = Len(pipe) + 1 /\ Len(pipe) \in Nat
      /\ pipe'[Len(pipe) + 1] = m /\ \A i \in 1 .. Len(pipe) : pipe'[i] = pipe[i]
  OBVIOUS
<1>2. /\ \A i \in 1 .. Len(pipe) : pipe[i].event \in Phases \cup {"RECEIPT"}
      /\ mon.phases \subseteq Phases /\ m.event \in Phases \cup {"RECEIPT"}
  <2>1. \A i \in 1 .. Len(pipe) : pipe[i] \in Messages
    OBVIOUS
  <2> QED
    BY <2>1 DEF Messages, Monitors
<1>3. \A i \in 1 .. Len(pipe') : i \in 1 .. Len(pipe) \/ i = Len(pipe) + 1
  BY <1>1
<1>4. \A i, j \in 1 .. Len(pipe') : i < j => Rank(pipe'[i].event) < Rank(pipe'[j].event)
  <2> SUFFICES ASSUME NEW i \in 1 .. Len(pipe'), NEW j \in 1 .. Len(pipe'), i < j
               PROVE  Rank(pipe'[i].event) < Rank(pipe'[j].event)
    OBVIOUS
  <2>1. i \in 1 .. Len(pipe)
    BY <1>1
  <2>2. CASE j \in 1 .. Len(pipe)
    BY <1>1, <2>1, <2>2 DEF InOrder
  <2>3. CASE j = Len(pipe) + 1
    BY <1>1, <1>2, <2>1, <2>3 DEF InOrder
  <2> QED
    BY <1>3, <2>2, <2>3
<1>5. \A e \in mon.phases : Spoken(e)' /\ \A i \in 1 .. Len(pipe') : Rank(e) < Rank(pipe'[i].event)
  BY <1>1, <1>2, <1>3 DEF InOrder
<1>6. \A e \in Phases \cup {"RECEIPT"}, i \in 1 .. Len(pipe') : pipe'[i].event = e => Spoken(e)'
  BY <1>1, <1>2, <1>3 DEF InOrder
<1>7. \A e \in Phases : Spoken(e)' => e \in mon.phases \/ \E i \in 1 .. Len(pipe') : pipe'[i].event = e
  <2> SUFFICES ASSUME NEW e \in Phases, Spoken(e)', e \notin mon.phases
               PROVE  \E i \in 1 .. Len(pipe') : pipe'[i].event = e
    OBVIOUS
  <2>1. CASE e = m.event
    <3>1. Len(pipe) + 1 \in 1 .. Len(pipe')
      BY <1>1
    <3> QED
      BY <1>1, <2>1, <3>1
  <2>2. CASE e # m.event
    <3>1. PICK i \in 1 .. Len(pipe) : pipe[i].event = e
      BY <2>2 DEF InOrder
    <3>2. i \in 1 .. Len(pipe')
      BY <1>1
    <3> QED
      BY <1>1, <3>1, <3>2
  <2> QED
    BY <2>1, <2>2
<1> QED
  BY <1>4, <1>5, <1>6, <1>7 DEF InOrder

-----------------------------------------------------------------------------
(* The launch *)

LEMMA LaunchDiag ==
  ASSUME DiagInv, Launch \/ Assign \/ Resume \/ LaunchFails \/ Proceed
  PROVE  Marked' /\ Repeated' /\ (Quiet' => Undisturbed')
<1>1. /\ Marked /\ Repeated /\ Stages /\ w \in WorkerType /\ rd \in ReaderType /\ mon \in Monitors
      /\ pipe \in Seq(Messages) /\ child \in {None, "alive", "dead"} /\ now \in Int
  BY DEF DiagInv, CaptureInv, CaptureTypes
<1>2. /\ UNCHANGED <<line, window, verdict, pipe, rd, now>> /\ sup \in {"launch", "assign", "resume", "proceed"}
      /\ mon' = mon \/ mon' = [mon EXCEPT !.ran = TRUE]
  BY DEF Launch, Assign, Resume, LaunchFails, Proceed
<1>3. /\ mon' \in Monitors
      /\ \A f \in {"armed", "phases", "timed_out", "malformed", "payload", "drained", "forced", "closed"} : mon'[f] = mon[f]
  <2>1. TRUE \in Flags
    BY DEF Flags
  <2> QED
    BY <1>1, <1>2, <2>1 DEF Monitors
<1>4. \/ w' = w
      \/ sup = "launch" /\ w' = [w EXCEPT !.pc = "suspended"]
      \/ sup = "resume" /\ w' = [w EXCEPT !.pc = "boot"]
      \/ w' = [w EXCEPT !.pc = "gone", !.exit = "killed"]
  BY DEF Launch, Assign, Resume, LaunchFails, Proceed, KillMembers, Killed
<1>5. /\ w' \in WorkerType
      /\ \A f \in {"first", "held", "at", "last", "closed", "failure", "raw", "clean"} : w'[f] = w[f]
  BY <1>1, <1>4 DEF WorkerType, Places
<1>6. Marked'
  <2>1. CASE Launch \/ Assign \/ Resume \/ LaunchFails
    <3>1. /\ UNCHANGED <<mon, child>> /\ sup' \notin {"done", "dead"} /\ sup # "proceed" /\ w.pc \in {"absent", "suspended"}
          /\ sup' \in {"resume", "proceed"} /\ sup = "assign" => inJob'
          /\ inJob => inJob'
      BY <1>1, <2>1 DEF Launch, Assign, Resume, LaunchFails, Stages
    <3>2. CASE Launch \/ Assign \/ Resume
      <4>1. disturbed' = disturbed /\ w'.pc \in {"suspended", "boot"} /\ w'.exit = w.exit /\ sup' \in {"assign", "resume", "proceed"}
        BY <1>1, <3>2 DEF Launch, Assign, Resume, WorkerType, Stages
      <4> QED
        BY <1>1, <1>2, <1>5, <3>1, <3>2, <4>1 DEF Launch, Assign, Resume, Marked, Happened, Tidying, Silent, Preparing
    <3>3. CASE LaunchFails
      <4>1. disturbed' = disturbed \cup {"launch"} /\ w'.pc = "gone" /\ w'.exit = "killed" /\ sup' = "close"
        BY <1>1, <3>3 DEF LaunchFails, Disturb, WorkerType
      <4> QED
        BY <1>1, <1>2, <1>5, <3>1, <4>1 DEF Marked, Happened, Tidying, Silent, Preparing, Fatal, None
    <3> QED
      BY <2>1, <3>2, <3>3
  <2>2. CASE Proceed
    <3>1. CASE UNCHANGED <<disturbed, w, child>> /\ sup' = "monitor"
      BY <1>1, <1>2, <1>3, <2>2, <3>1 DEF Proceed, Marked, Happened
    <3>2. CASE Disturb("proceed") /\ sup' = "close" /\ UNCHANGED mon /\ UNCHANGED <<w, child>>
      BY <1>1, <1>2, <2>2, <3>2 DEF Proceed, Marked, Happened, Disturb, Fatal
    <3>3. CASE Disturb("proceed") /\ sup' = "close" /\ UNCHANGED mon /\ KillMembers
      BY <1>1, <1>2, <2>2, <3>3 DEF Proceed, Marked, Happened, Disturb, Fatal, KillMembers, Killed, KilledChild,
                                     Tidying, Silent, Preparing, WorkerType, None
    <3> QED
      BY <2>2, <3>1, <3>2, <3>3 DEF Proceed, Calm
  <2> QED
    BY <2>1, <2>2
<1>7. Repeated'
  <2>1. "quality" \in disturbed' <=> "quality" \in disturbed
    BY DEF Launch, Assign, Resume, LaunchFails, Proceed, Calm, Disturb
  <2>2. w.pc \in {"return", "gone"} => w'.pc \in {"return", "gone"}
    BY <1>1, <1>4 DEF Stages, WorkerType
  <2> QED
    BY <1>1, <1>2, <1>3, <1>5, <2>1, <2>2, RepeatedFrame
<1>8. ASSUME Quiet' PROVE Undisturbed'
  <2>1. Next
    BY DEF Next, Supervisor
  <2>2. Undisturbed /\ \A d \in Fatal \cup {"slow"} : d \notin disturbed'
    BY <1>8, <2>1, QuietBefore DEF DiagInv
  <2>3. disturbed' = disturbed /\ child' = child /\ sup' \in {"assign", "resume", "proceed", "monitor"}
        /\ (sup' = "monitor" => mon' = [mon EXCEPT !.ran = TRUE])
        /\ (w' = w \/ w' = [w EXCEPT !.pc = "suspended"] \/ w' = [w EXCEPT !.pc = "boot"])
    BY <2>2 DEF Launch, Assign, Resume, LaunchFails, Proceed, Disturb, Calm, Fatal
  <2>4. w.pc \in Silent /\ w'.pc \in Silent /\ w'.exit = w.exit
    BY <1>1, <1>2, <2>2, <2>3 DEF Undisturbed, Patient, Silent, WorkerType
  <2>5. Timely'
    BY <1>2, <1>5, <2>2, <2>4 DEF Undisturbed, Timely, Silent, Preparing, Before
  <2>6. Attributed'
    BY <1>2, <1>5, <2>2, <2>3, <2>4 DEF Undisturbed, Attributed, Silent, Preparing, Before, Happened
  <2>7. Swept'
    BY <2>4 DEF Swept, Silent, Tidying
  <2>8. InOrder'
    <3>1. \A e \in Phases \cup {"RECEIPT"} : Spoken(e)' <=> Spoken(e)
      BY <1>5, <2>4 DEF Spoken, Silent, Preparing
    <3> QED
      BY <1>1, <1>2, <1>3, <1>5, <2>2, <2>4, <3>1, OrderFrame DEF Undisturbed, InOrder, Silent, Preparing
  <2>9. Patient'
    <3>1. mon'.ran = TRUE \/ sup' \in {"assign", "resume", "proceed"}
      BY <1>1, <2>3 DEF Monitors
    <3> QED
      BY <1>2, <1>3, <2>2, <2>3, <2>4, <3>1 DEF Undisturbed, Patient, Silent
  <2> QED
    BY <2>5, <2>6, <2>7, <2>8, <2>9 DEF Undisturbed
<1> QED
  BY <1>6, <1>7, <1>8

-----------------------------------------------------------------------------
(* The worker *)

\* While the worker has not reported, the supervisor of a quiet attempt waits for it.
LEMMA StillWaiting ==
  ASSUME Repeated, Patient, UNCHANGED <<sup, mon>>, w.pc \notin {"return", "gone"}, w'.pc \notin {"return", "gone"},
         w.pc \notin Silent \/ sup = "monitor"
  PROVE  Patient'
BY DEF Repeated, ReceiptOf, Patient, Silent

\* The worker checks its grant, its engine and its device, and starts the capture.
LEMMA BeginDiag ==
  ASSUME DiagInv, WorkerBoot \/ WorkerLiveness \/ WorkerDevice \/ WorkerStart
  PROVE  Marked' /\ Repeated' /\ (Quiet' => Undisturbed')
<1>1. /\ Marked /\ Repeated /\ Stages /\ w \in WorkerType /\ rd \in ReaderType /\ mon \in Monitors
      /\ pipe \in Seq(Messages) /\ child \in {None, "alive", "dead"} /\ now \in Int
  BY DEF DiagInv, CaptureInv, CaptureTypes
<1>2. /\ UNCHANGED <<line, window, sup, mon, verdict, inJob, now>>
      /\ w.pc \in {"boot", "liveness", "device", "start"}
      /\ "quality" \in disturbed' <=> "quality" \in disturbed
      /\ w.pc = "boot" => sup \in {"monitor", "drain"}
  BY DEF WorkerBoot, WorkerLiveness, WorkerDevice, WorkerStart, Calm, Disturb
<1>3. Marked'
  <2>1. CASE WorkerBoot
    <3>1. /\ w.pc = "boot" /\ w'.clean = w.clean /\ UNCHANGED <<rd, child>>
          /\ \/ w'.pc = "liveness" /\ w'.exit = w.exit /\ disturbed' = disturbed
             \/ w'.pc = "gone" /\ w'.exit = "nonzero" /\ disturbed' \in {disturbed, disturbed \cup {"refused"}}
      BY <1>1, <2>1 DEF WorkerBoot, WorkerType, Disturb, Calm
    <3> QED
      BY <1>1, <1>2, <3>1 DEF Marked, Happened, Tidying, Silent, Preparing, Fatal, None
  <2>2. CASE WorkerLiveness
    <3>1. /\ w.pc = "liveness" /\ w'.exit = w.exit /\ w'.clean = w.clean /\ UNCHANGED <<rd, child>>
          /\ \/ w'.pc = "device" /\ disturbed' = disturbed
             \/ w'.pc = "report" /\ disturbed' = disturbed \cup {"engine"}
      BY <1>1, <2>2 DEF WorkerLiveness, FailsWith, WorkerType, Disturb, Calm
    <3> QED
      BY <1>1, <1>2, <3>1 DEF Marked, Happened, Tidying, Silent, Preparing, Fatal
  <2>3. CASE WorkerDevice
    <3>1. /\ w.pc = "device" /\ w'.exit = w.exit /\ w'.clean = w.clean /\ UNCHANGED <<rd, child>>
          /\ \/ w'.pc = "start" /\ disturbed' = disturbed
             \/ w'.pc = "report" /\ disturbed' = disturbed \cup {"device"}
      BY <1>1, <2>3 DEF WorkerDevice, FailsWith, WorkerType, Disturb, Calm
    <3> QED
      BY <1>1, <1>2, <3>1 DEF Marked, Happened, Tidying, Silent, Preparing, Fatal
  <2>4. CASE WorkerStart
    <3>1. /\ w.pc = "start" /\ w'.exit = w.exit /\ w'.clean = w.clean
          /\ \/ w'.pc = "next" /\ disturbed' = disturbed /\ child' = "alive" /\ rd'.pc = "get"
             \/ w'.pc = "terminate" /\ disturbed' = disturbed \cup {"spawn"} /\ UNCHANGED <<rd, child>>
      BY <1>1, <2>4 DEF WorkerStart, WorkerType, ReaderType, Disturb, Calm
    <3> QED
      BY <1>1, <1>2, <3>1 DEF Marked, Happened, Tidying, Silent, Preparing, Fatal, None
  <2> QED
    BY <2>1, <2>2, <2>3, <2>4
<1>4. \A e \in Phases : Message(e) \in Messages /\ Message(e).event = e /\ e # "RECEIPT" /\ Message(e).ts = now
  BY <1>1, MessageFields DEF Phases
<1>5. Repeated'
  <2>1. pipe' = pipe \/ \E e \in Phases : pipe' = Append(pipe, Message(e))
    BY DEF WorkerBoot, WorkerLiveness, WorkerDevice, WorkerStart, Send, Phases
  <2> QED
    BY <1>1, <1>2, <1>4, <2>1, RepeatedFrame
<1>6. ASSUME Quiet' PROVE Undisturbed'
  <2>1. Next
    BY DEF Next, Worker
  <2>2. Undisturbed /\ \A d \in Fatal \cup {"slow"} : d \notin disturbed'
    BY <1>6, <2>1, QuietBefore DEF DiagInv
  <2>3. disturbed' = disturbed
    BY <2>2 DEF WorkerBoot, WorkerLiveness, WorkerDevice, WorkerStart, Disturb, Calm, Fatal
  <2>4. PICK p \in {"liveness", "device", "start", "next"} :
          /\ w' = [w EXCEPT !.pc = p] \/ w' = [w EXCEPT !.pc = p, !.raw = TRUE]
          /\ p = "liveness" => w.pc = "boot" /\ pipe' = Append(pipe, Message("AUTHORIZED"))
          /\ p = "device" => w.pc = "liveness" /\ pipe' = Append(pipe, Message("PRIVACY_READY"))
          /\ p = "start" => w.pc = "device" /\ pipe' = pipe
          /\ p = "next" => w.pc = "start" /\ pipe' = Append(pipe, Message("CAPTURE_STARTING")) /\ child' = "alive"
                           /\ rd' = [rd EXCEPT !.pc = "get"]
          /\ p # "next" => UNCHANGED <<child, rd>>
    <3>1. CASE WorkerBoot
      <4>1. inJob
        BY <1>1, <1>2, <3>1 DEF Marked, WorkerBoot
      <4> QED
        BY <4>1, <2>2, <3>1 DEF WorkerBoot, Disturb, Fatal, Send
    <3>2. CASE WorkerLiveness \/ WorkerDevice \/ WorkerStart
      BY <2>2, <3>2 DEF WorkerLiveness, WorkerDevice, WorkerStart, Disturb, Fatal, Send
    <3> QED
      BY <3>1, <3>2
  <2>5. /\ w'.pc = p /\ w'.exit = w.exit
        /\ \A f \in {"first", "held", "at", "last", "closed", "failure", "clean"} : w'[f] = w[f]
    BY <1>1, <2>4 DEF WorkerType
  <2>6. rd'.free = rd.free /\ rd'.ready = rd.ready /\ (rd'.pc = "end" => rd.pc = "end") /\ (child' = "dead" => child = "dead")
    BY <1>1, <2>4 DEF ReaderType
  <2>7. Len(pipe) \in Nat /\ \A i \in 1 .. Len(pipe') : (i \in 1 .. Len(pipe) /\ pipe'[i] = pipe[i]) \/ pipe'[i].ts = now
    <3>1. CASE pipe' = pipe
      BY <1>1, <3>1
    <3>2. ASSUME NEW e \in Phases, pipe' = Append(pipe, Message(e))
          PROVE  Len(pipe) \in Nat /\ \A i \in 1 .. Len(pipe') : (i \in 1 .. Len(pipe) /\ pipe'[i] = pipe[i]) \/ pipe'[i].ts = now
      <4>1. Message(e) \in Messages /\ Message(e).ts = now
        BY <1>4
      <4> QED
        BY <1>1, <3>2, <4>1
    <3> QED
      BY <2>4, <3>1, <3>2 DEF Phases
  <2>8. Timely'
    <3>1. Timely /\ w.pc \in Before /\ w.pc # "inspect"
      BY <1>2, <2>2 DEF Undisturbed, Before, Preparing, Silent
    <3>2. now <= Preflight + 1 /\ w.at <= now /\ now <= Preflight /\ w.last < Preflight
      BY <3>1 DEF Timely
    <3>3. \A i \in 1 .. Len(pipe') : pipe'[i].ts <= Preflight + 1
      BY <3>1, <3>2, <2>7 DEF Timely
    <3> QED
      BY <1>2, <2>5, <2>6, <3>1, <3>2, <3>3 DEF Timely
  <2>9. Attributed'
    BY <1>2, <2>2, <2>3, <2>5, <2>6 DEF Undisturbed, Attributed, Before, Preparing, Silent, Happened
  <2>10. Swept'
    BY <2>4, <2>5 DEF Swept, Tidying, None
  <2>11. InOrder'
    <3>1. InOrder /\ ~ w.first /\ ~ w'.first /\ w.last < 0
      <4>1. InOrder
        BY <2>2 DEF Undisturbed
      <4>2. ~ w.first
        BY <1>2, <4>1 DEF InOrder, Preparing, Silent
      <4>3. w.last \in Int
        BY <1>1 DEF WorkerType
      <4> QED
        BY <4>1, <4>2, <4>3, <2>5 DEF InOrder
    <3>2. ~ (w'.pc = "inspect" \/ w'.last >= 0)
      BY <3>1, <2>5, <1>1 DEF WorkerType
    <3>3. CASE p = "start"
      <4>1. \A e \in Phases \cup {"RECEIPT"} : Spoken(e)' <=> Spoken(e)
        BY <2>4, <2>5, <3>3 DEF Spoken, Silent, Preparing
      <4> QED
        BY <1>1, <1>2, <2>4, <2>5, <3>1, <3>2, <3>3, <4>1, OrderFrame DEF Preparing
    <3>4. ASSUME NEW e \in {"AUTHORIZED", "PRIVACY_READY", "CAPTURE_STARTING"}, pipe' = Append(pipe, Message(e)),
                 e = "AUTHORIZED" => w.pc = "boot" /\ p = "liveness",
                 e = "PRIVACY_READY" => w.pc = "liveness" /\ p = "device",
                 e = "CAPTURE_STARTING" => w.pc = "start" /\ p = "next"
          PROVE  InOrder'
      <4>1. \A x \in Phases \cup {"RECEIPT"} : /\ Spoken(x)' <=> Spoken(x) \/ x = e
                                               /\ Spoken(x) => Rank(x) < Rank(e)
        BY <2>5, <3>1, <3>4 DEF Spoken, Silent, Preparing, Phases, Rank
      <4>2. Message(e) \in Messages /\ Message(e).event = e
        BY <1>4 DEF Phases
      <4> QED
        BY <1>1, <1>2, <3>1, <3>2, <3>4, <4>1, <4>2, OrderSays
    <3> QED
      BY <2>4, <3>3, <3>4
  <2>12. Patient'
    <3>1. Patient
      BY <2>2 DEF Undisturbed
    <3>2. sup = "monitor" \/ w.pc \notin Silent
      BY <1>1, <1>2, <3>1 DEF Repeated, ReceiptOf, Patient, Silent
    <3> QED
      BY <1>1, <1>2, <2>5, <3>1, <3>2, StillWaiting
  <2> QED
    BY <2>8, <2>9, <2>10, <2>11, <2>12 DEF Undisturbed
<1> QED
  BY <1>3, <1>5, <1>6

\* The worker takes what the reader handed over (WorkerTakes).
LEMMA TakeDiag ==
  ASSUME DiagInv, WorkerTakes
  PROVE  Marked' /\ Repeated' /\ (Quiet' => Undisturbed')
<1>1. /\ Marked /\ Repeated /\ w \in WorkerType /\ rd \in ReaderType /\ mon \in Monitors
      /\ pipe \in Seq(Messages) /\ child \in {None, "alive", "dead"} /\ now \in Int /\ rd.ready \in Seq(Entries)
  BY DEF DiagInv, CaptureInv, CaptureTypes, ReaderType
<1>2. /\ UNCHANGED <<line, window, sup, mon, verdict, inJob, now, child, disturbed>> /\ w.pc = "next" /\ rd.ready # <<>>
      /\ rd' = [rd EXCEPT !.ready = Tail(@)]
  BY DEF WorkerTakes
<1>3. PICK n \in Nat : n + 1 = Len(rd.ready)
  <2>1. Len(rd.ready) \in Nat /\ Len(rd.ready) # 0
    BY <1>1, <1>2, EmptySeq
  <2>2. Len(rd.ready) - 1 \in Nat /\ (Len(rd.ready) - 1) + 1 = Len(rd.ready)
    BY <2>1
  <2> QED
    BY <2>2
<1>4. PICK e \in Entries : e = Head(rd.ready) /\ e = rd.ready[1]
  BY <1>1, <1>2, <1>3
<1>5. /\ rd'.pc = rd.pc /\ rd'.free = rd.free /\ Len(rd'.ready) = n
      /\ 1 \in 1 .. Len(rd.ready)
      /\ \A i \in 1 .. n : rd'.ready[i] = rd.ready[i + 1] /\ i + 1 \in 1 .. Len(rd.ready)
  <2>1. Len(Tail(rd.ready)) = n /\ \A i \in 1 .. n : Tail(rd.ready)[i] = rd.ready[i + 1]
    BY <1>1, <1>2, <1>3
  <2>2. rd'.ready = Tail(rd.ready) /\ rd'.pc = rd.pc /\ rd'.free = rd.free
    BY <1>1, <1>2 DEF ReaderType
  <2>3. 1 \in 1 .. Len(rd.ready) /\ \A i \in 1 .. n : i + 1 \in 1 .. Len(rd.ready)
    BY <1>3
  <2> QED
    BY <2>1, <2>2, <2>3
<1>6. /\ e.kind \in {"frame", "short", "eof", "exception"} /\ e.at \in Int
  BY DEF Entries
<1>7. \E fail \in {"INPUT_UNAVAILABLE", "INPUT_MALFORMED", "FRAME_READER_EXCEPTION", "CAPTURE_RUNTIME_EXCEPTION", None} :
        /\ w' = [w EXCEPT !.pc = IF fail = None THEN "inspect" ELSE "terminate", !.failure = fail, !.held = e.buf,
                          !.first = w.first \/ e.kind = "frame", !.at = IF e.kind = "frame" THEN e.at ELSE @]
        /\ fail = None <=> e.kind = "frame" /\ (w.first \/ Emits("FIRST_FRAME"))
        /\ fail = "CAPTURE_RUNTIME_EXCEPTION" => e.kind = "frame" /\ ~ Emits("FIRST_FRAME")
        /\ IF fail = None /\ ~w.first THEN pipe' = Append(pipe, [Message("FIRST_FRAME") EXCEPT !.ts = e.at]) ELSE pipe' = pipe
  <2> DEFINE f == CASE e.kind = "eof" -> IF w.last = -1 THEN "INPUT_UNAVAILABLE" ELSE "INPUT_MALFORMED"
                    [] e.kind = "exception" -> "FRAME_READER_EXCEPTION"
                    [] e.kind = "short" -> "INPUT_MALFORMED"
                    [] e.kind = "frame" /\ ~w.first /\ ~Emits("FIRST_FRAME") -> "CAPTURE_RUNTIME_EXCEPTION"
                    [] OTHER -> None
             first == w.first \/ e.kind = "frame"
  <2>1. /\ f \in {"INPUT_UNAVAILABLE", "INPUT_MALFORMED", "FRAME_READER_EXCEPTION", "CAPTURE_RUNTIME_EXCEPTION", None}
        /\ f = None <=> e.kind = "frame" /\ (w.first \/ Emits("FIRST_FRAME"))
        /\ f = "CAPTURE_RUNTIME_EXCEPTION" => e.kind = "frame" /\ ~ Emits("FIRST_FRAME")
    BY <1>6 DEF None
  <2>2. /\ w' = [w EXCEPT !.pc = IF f = None THEN "inspect" ELSE "terminate", !.failure = f, !.held = e.buf,
                          !.first = first, !.at = IF e.kind = "frame" THEN e.at ELSE @]
        /\ IF f = None /\ ~w.first THEN pipe' = Append(pipe, [Message("FIRST_FRAME") EXCEPT !.ts = e.at]) ELSE pipe' = pipe
    BY <1>4 DEF WorkerTakes, Send
  <2> HIDE DEF f
  <2> QED
    BY <2>1, <2>2
<1>8. PICK fail \in {"INPUT_UNAVAILABLE", "INPUT_MALFORMED", "FRAME_READER_EXCEPTION", "CAPTURE_RUNTIME_EXCEPTION", None} :
        /\ w'.pc = (IF fail = None THEN "inspect" ELSE "terminate") /\ w'.failure = fail
        /\ w'.first = (w.first \/ e.kind = "frame") /\ w'.at = (IF e.kind = "frame" THEN e.at ELSE w.at)
        /\ w'.exit = w.exit /\ w'.clean = w.clean /\ w'.last = w.last /\ w'.raw = w.raw
        /\ fail = None <=> e.kind = "frame" /\ (w.first \/ Emits("FIRST_FRAME"))
        /\ fail = "CAPTURE_RUNTIME_EXCEPTION" => e.kind = "frame" /\ ~ Emits("FIRST_FRAME")
        /\ IF fail = None /\ ~w.first THEN pipe' = Append(pipe, [Message("FIRST_FRAME") EXCEPT !.ts = e.at]) ELSE pipe' = pipe
  BY <1>1, <1>7 DEF WorkerType
<1>9. PICK m \in Messages : m = [Message("FIRST_FRAME") EXCEPT !.ts = e.at] /\ m.event = "FIRST_FRAME" /\ m.ts = e.at
  <2>1. PICK m0 \in Messages : m0 = Message("FIRST_FRAME") /\ m0.event = "FIRST_FRAME"
    BY <1>1, MessageFields DEF Phases
  <2>2. /\ [m0 EXCEPT !.ts = e.at] \in Messages /\ [m0 EXCEPT !.ts = e.at].event = "FIRST_FRAME"
        /\ [m0 EXCEPT !.ts = e.at].ts = e.at
    BY <2>1, <1>6 DEF Messages
  <2> QED
    BY <2>1, <2>2
<1>10. Marked'
  BY <1>1, <1>2, <1>5, <1>8 DEF Marked, Happened, Tidying, Silent, Preparing
<1>11. Repeated'
  BY <1>1, <1>2, <1>8, <1>9, RepeatedFrame
<1>12. ASSUME Quiet' PROVE Undisturbed'
  <2>1. Next
    BY DEF Next, Worker
  <2>2. Timely /\ Attributed /\ Swept /\ InOrder /\ Patient /\ line = "N2"
    BY <1>12, <2>1, QuietBefore DEF DiagInv, Undisturbed, Quiet
  <2>3. /\ fail # "CAPTURE_RUNTIME_EXCEPTION" /\ (fail = None <=> e.kind = "frame")
    BY <1>8, <2>2 DEF Emits
  <2>4. e.at <= now /\ now <= Preflight /\ w.at <= now
    BY <1>2, <1>4, <1>5, <2>2 DEF Timely, Before, Preparing
  <2>5. Timely'
    <3>1. \A i \in 1 .. Len(pipe') : pipe'[i].ts <= Preflight + 1
      <4>1. CASE pipe' = pipe
        BY <2>2, <4>1 DEF Timely
      <4>2. CASE pipe' = Append(pipe, m)
        <5>1. \A i \in 1 .. Len(pipe') : (i \in 1 .. Len(pipe) /\ pipe'[i] = pipe[i]) \/ pipe'[i] = m
          BY <1>1, <4>2
        <5>2. m.ts <= Preflight + 1
          BY <1>6, <1>9, <2>4, <1>1, TimeAssumption
        <5> QED
          BY <5>1, <5>2, <2>2 DEF Timely
      <4> QED
        BY <1>8, <1>9, <4>1, <4>2
    <3>2. \A i \in 1 .. Len(rd'.ready) : rd'.ready[i].at <= now
      BY <1>5, <2>2 DEF Timely
    <3>3. w'.at <= now /\ now <= Preflight + 1 /\ w'.pc \in {"inspect", "terminate"}
      BY <1>8, <2>2, <2>4 DEF Timely
    <3> QED
      BY <1>2, <2>4, <3>1, <3>2, <3>3 DEF Timely, Before, Preparing, Silent
  <2>6. Attributed'
    <3>1. /\ child = "dead" \/ rd.pc = "end" => Happened(Faults)
          /\ \A i \in 1 .. Len(rd.free) : rd.free[i] \in Buffers
          /\ \A i \in 1 .. Len(rd.ready) : rd.ready[i].kind # "frame" => Happened(Faults)
          /\ Happened({"person", "stall", "pose"}) => w.failure # None
          /\ w.failure = None
      BY <1>2, <2>2 DEF Attributed, Before, Preparing
    <3>2. fail # None => Happened(Faults)
      BY <3>1, <2>3, <1>4, <1>5
    <3>3. \A i \in 1 .. Len(rd'.ready) : rd'.ready[i].kind # "frame" => Happened(Faults)
      BY <1>5, <3>1
    <3> QED
      BY <1>2, <1>5, <1>8, <2>3, <3>1, <3>2, <3>3 DEF Attributed, Happened, Before, Preparing, Silent, None
  <2>7. Swept'
    BY <1>2, <1>8, <2>2 DEF Swept, Tidying
  <2>8. InOrder'
    <3>1. w'.pc = "inspect" \/ w'.last >= 0 => w'.first
      BY <1>8, <2>2, <2>3 DEF InOrder
    <3>2. CASE w'.first = w.first
      <4>1. \A x \in Phases \cup {"RECEIPT"} : Spoken(x)' <=> Spoken(x)
        BY <1>2, <1>8, <3>2 DEF Spoken, Silent, Preparing
      <4>2. pipe' = pipe
        BY <1>8, <2>3, <3>2
      <4> QED
        BY <1>1, <1>2, <1>8, <2>2, <3>1, <3>2, <4>1, <4>2, OrderFrame DEF Preparing, Silent
    <3>3. CASE w'.first # w.first
      <4>0. w.first \in BOOLEAN
        BY <1>1 DEF WorkerType, Flags
      <4>1. ~ w.first /\ w'.first /\ pipe' = Append(pipe, m) /\ w'.pc = "inspect"
        BY <1>8, <1>9, <2>3, <3>3, <4>0
      <4>2. \A x \in Phases \cup {"RECEIPT"} : /\ Spoken(x)' <=> Spoken(x) \/ x = m.event
                                               /\ Spoken(x) => Rank(x) < Rank(m.event)
        BY <1>2, <1>9, <4>1 DEF Spoken, Silent, Preparing, Phases, Rank
      <4> QED
        BY <1>1, <1>2, <2>2, <3>1, <4>1, <4>2, OrderSays DEF Preparing, Silent
    <3> QED
      BY <3>2, <3>3
  <2>9. Patient'
    BY <1>1, <1>2, <1>8, <2>2, StillWaiting DEF Silent
  <2> QED
    BY <2>5, <2>6, <2>7, <2>8, <2>9 DEF Undisturbed
<1> QED
  BY <1>10, <1>11, <1>12

\* No frame comes in time, or a frame is inspected (WorkerStalls, WorkerInspects).
LEMMA InspectDiag ==
  ASSUME DiagInv, WorkerStalls \/ WorkerInspects
  PROVE  Marked' /\ Repeated' /\ (Quiet' => Undisturbed')
<1>1. /\ Marked /\ Repeated /\ Ownership /\ w \in WorkerType /\ rd \in ReaderType /\ mon \in Monitors
      /\ pipe \in Seq(Messages) /\ child \in {None, "alive", "dead"} /\ now \in Int
      /\ rd.free \in Seq(Buffers \cup {NoBuffer})
  BY DEF DiagInv, CaptureInv, CaptureTypes, ReaderType
<1>2. /\ UNCHANGED <<line, window, sup, mon, verdict, inJob, now, child, pipe>> /\ w.pc \in {"next", "inspect"}
      /\ \/ w.pc = "inspect" /\ disturbed' = disturbed /\ rd' = [rd EXCEPT !.free = Append(@, w.held)]
            /\ w' = [w EXCEPT !.pc = IF w.at >= Preflight THEN "terminate" ELSE "next", !.last = w.at, !.held = NoBuffer]
         \/ /\ rd' = rd
            /\ \E code \in {"FRAME_READER_EXCEPTION", "FRAME_STALLED", "PRIVACY_STOP", "POSE_ENGINE_EXCEPTION"} :
                 /\ w' = [w EXCEPT !.pc = "terminate", !.failure = code]
                 /\ code = "FRAME_STALLED" => disturbed' = disturbed \cup {"stall"}
                 /\ code = "FRAME_READER_EXCEPTION" => disturbed' = disturbed \cup {"stall"} /\ rd.pc = "end"
                 /\ code = "PRIVACY_STOP" => disturbed' = disturbed \cup {"person"}
                 /\ code = "POSE_ENGINE_EXCEPTION" => disturbed' = disturbed \cup {"pose"}
  BY DEF WorkerStalls, WorkerInspects, FailsWith, Disturb, Calm
<1>3. \/ /\ w.pc = "inspect" /\ disturbed' = disturbed /\ w'.pc = (IF w.at >= Preflight THEN "terminate" ELSE "next")
         /\ w'.last = w.at /\ w'.failure = w.failure
         /\ rd'.pc = rd.pc /\ rd'.ready = rd.ready /\ rd'.free = Append(rd.free, w.held)
      \/ /\ w'.pc = "terminate" /\ w'.last = w.last /\ rd' = rd
         /\ w'.failure \in {"FRAME_READER_EXCEPTION", "FRAME_STALLED", "PRIVACY_STOP", "POSE_ENGINE_EXCEPTION"}
         /\ w'.failure = "FRAME_STALLED" => disturbed' = disturbed \cup {"stall"}
         /\ w'.failure = "FRAME_READER_EXCEPTION" => disturbed' = disturbed \cup {"stall"} /\ rd.pc = "end"
         /\ w'.failure = "PRIVACY_STOP" => disturbed' = disturbed \cup {"person"}
         /\ w'.failure = "POSE_ENGINE_EXCEPTION" => disturbed' = disturbed \cup {"pose"}
  BY <1>1, <1>2 DEF WorkerType, ReaderType
<1>4. /\ w'.exit = w.exit /\ w'.clean = w.clean /\ w'.first = w.first /\ w'.at = w.at
  BY <1>1, <1>2 DEF WorkerType
<1>5. rd'.pc = rd.pc /\ w'.pc \in {"next", "terminate"}
      /\ disturbed \subseteq disturbed' /\ disturbed' \subseteq disturbed \cup {"stall", "person", "pose"}
  BY <1>3
<1>6. Marked'
  BY <1>1, <1>2, <1>4, <1>5 DEF Marked, Happened, Tidying, Silent, Preparing, Benign
<1>7. Repeated'
  BY <1>1, <1>2, <1>5, RepeatedFrame
<1>8. ASSUME Quiet' PROVE Undisturbed'
  <2>1. Next
    BY DEF Next, Worker
  <2>2. Timely /\ Attributed /\ Swept /\ InOrder /\ Patient
    BY <1>8, <2>1, QuietBefore DEF DiagInv, Undisturbed
  <2>3. Timely'
    <3>1. rd'.ready = rd.ready
      BY <1>3
    <3>2. now <= Preflight /\ w.at \in Int /\ Preflight \in Int
      BY <1>1, <1>2, <2>2, TimeAssumption DEF Timely, Before, Preparing, WorkerType
    <3>3. w'.pc = "next" => w'.last < Preflight
      BY <1>3, <3>2
    <3> QED
      BY <1>2, <1>4, <1>5, <2>2, <3>1, <3>2, <3>3 DEF Timely, Before, Preparing, Silent
  <2>4. Attributed'
    <3>1. /\ child = "dead" \/ rd.pc = "end" => Happened(Faults)
          /\ \A i \in 1 .. Len(rd.free) : rd.free[i] \in Buffers
          /\ \A i \in 1 .. Len(rd.ready) : rd.ready[i].kind # "frame" => Happened(Faults)
          /\ Happened({"person", "stall", "pose"}) => w.failure # None
          /\ w.failure = None
      BY <1>2, <2>2 DEF Attributed, Before, Preparing
    <3>2. Happened(Faults) => Happened(Faults)'
      BY <1>5 DEF Happened
    <3>3. CASE w'.pc = "terminate" /\ w'.failure # None
      BY <1>3, <3>1, <3>2, <3>3 DEF Attributed, Happened, Before, Preparing, Silent, None
    <3>4. CASE w'.failure = None
      <4>1. /\ w.pc = "inspect" /\ disturbed' = disturbed /\ rd'.pc = rd.pc /\ rd'.ready = rd.ready
            /\ rd'.free = Append(rd.free, w.held)
        BY <1>3, <3>4 DEF None
      <4>2. w.held \in Buffers
        BY <1>1, <4>1 DEF Ownership
      <4>3. \A i \in 1 .. Len(rd'.free) : (i \in 1 .. Len(rd.free) /\ rd'.free[i] = rd.free[i]) \/ rd'.free[i] = w.held
        BY <1>1, <4>1, <4>2
      <4>4. \A i \in 1 .. Len(rd'.free) : rd'.free[i] \in Buffers
        BY <3>1, <4>2, <4>3
      <4> QED
        BY <1>2, <3>1, <3>4, <4>1, <4>4 DEF Attributed, Happened, None
    <3> QED
      BY <1>3, <3>1, <3>3, <3>4 DEF None
  <2>5. Swept'
    BY <1>2, <1>5, <2>2 DEF Swept, Tidying
  <2>6. InOrder'
    <3>1. \A x \in Phases \cup {"RECEIPT"} : Spoken(x)' <=> Spoken(x)
      BY <1>2, <1>4, <1>5 DEF Spoken, Silent, Preparing
    <3>2. w'.last >= 0 => w'.first
      BY <1>2, <1>3, <1>4, <2>2 DEF InOrder
    <3> QED
      BY <1>1, <1>2, <1>4, <1>5, <2>2, <3>1, <3>2, OrderFrame DEF Preparing, Silent
  <2>7. Patient'
    BY <1>1, <1>2, <1>5, <2>2, StillWaiting DEF Silent
  <2> QED
    BY <2>3, <2>4, <2>5, <2>6, <2>7 DEF Undisturbed
<1> QED
  BY <1>6, <1>7, <1>8

\* The worker ends the child and waits for the reader (WorkerTerminates, WorkerJoins,
\* WorkerJoinTimesOut).
LEMMA TidyDiag ==
  ASSUME DiagInv, WorkerTerminates \/ WorkerJoins \/ WorkerJoinTimesOut
  PROVE  Marked' /\ Repeated' /\ (Quiet' => Undisturbed')
<1>1. /\ Marked /\ Repeated /\ Cleaned /\ w \in WorkerType /\ rd \in ReaderType /\ mon \in Monitors
      /\ pipe \in Seq(Messages) /\ child \in {None, "alive", "dead"} /\ now \in Int
  BY DEF DiagInv, CaptureInv, CaptureTypes
<1>2. /\ UNCHANGED <<line, window, sup, mon, verdict, inJob, now, pipe>> /\ w.pc \in {"terminate", "join"}
      /\ disturbed' = disturbed \/ \E d \in {"unkillable", "pipe", "stuck"} : disturbed' = disturbed \cup {d}
      /\ rd' = rd \/ rd' = [rd EXCEPT !.free = Append(@, NoBuffer)]
  BY DEF WorkerTerminates, WorkerJoins, WorkerJoinTimesOut, Disturb, Calm
<1>3. /\ w'.pc = (IF w.pc = "terminate" THEN "join" ELSE "close") /\ w'.exit = w.exit /\ w'.first = w.first
      /\ w'.at = w.at /\ w'.last = w.last /\ w'.failure = w.failure
  <2>1. CASE WorkerTerminates
    BY <1>1, <2>1 DEF WorkerTerminates, WorkerType
  <2>2. CASE WorkerJoins
    BY <1>1, <2>2 DEF WorkerJoins, WorkerType
  <2>3. CASE WorkerJoinTimesOut
    BY <1>1, <2>3 DEF WorkerJoinTimesOut, WorkerType
  <2> QED
    BY <2>1, <2>2, <2>3
<1>4. rd'.pc = rd.pc /\ rd'.ready = rd.ready
  BY <1>1, <1>2 DEF ReaderType
<1>5. Marked'
  <2>1. CASE WorkerTerminates
    <3>1. /\ w.pc = "terminate" /\ "child" \notin w.clean
      BY <1>1, <2>1 DEF WorkerTerminates, Cleaned
    <3>2. \/ child = None /\ child' = None /\ w'.clean = w.clean /\ disturbed' = disturbed
          \/ child # None /\ child' = "dead" /\ w'.clean = w.clean \cup {"child"} /\ disturbed' = disturbed
          \/ child # None /\ child' = child /\ w'.clean = w.clean /\ disturbed' = disturbed \cup {"unkillable"}
      BY <1>1, <2>1 DEF WorkerTerminates, WorkerType, Disturb, Calm, None
    <3> QED
      BY <1>1, <1>2, <1>3, <1>4, <3>1, <3>2 DEF Marked, Happened, Tidying, Silent, Preparing, Fatal, None
  <2>2. CASE WorkerJoins
    <3>1. /\ w.pc = "join" /\ child' = child
          /\ \/ disturbed' = disturbed /\ w'.clean = w.clean \cup {"reader", "zero"} \cup (IF child = None THEN {} ELSE {"pipe"})
             \/ disturbed' = disturbed \cup {"pipe"} /\ w'.clean = w.clean \cup {"reader", "zero"}
      BY <1>1, <2>2 DEF WorkerJoins, WorkerType, Disturb, Calm
    <3> QED
      BY <1>1, <1>2, <1>3, <1>4, <3>1 DEF Marked, Happened, Tidying, Silent, Preparing, Fatal
  <2>3. CASE WorkerJoinTimesOut
    <3>1. /\ w.pc = "join" /\ child' = child /\ w'.clean = w.clean
          /\ disturbed' = disturbed \/ disturbed' = disturbed \cup {"stuck"}
      BY <1>1, <2>3 DEF WorkerJoinTimesOut, WorkerType, Disturb, Calm
    <3> QED
      BY <1>1, <1>2, <1>3, <1>4, <3>1 DEF Marked, Happened, Tidying, Silent, Preparing, Fatal
  <2> QED
    BY <2>1, <2>2, <2>3
<1>6. Repeated'
  BY <1>1, <1>2, <1>3, RepeatedFrame
<1>7. ASSUME Quiet' PROVE Undisturbed'
  <2>1. Next
    BY DEF Next, Worker
  <2>2. Timely /\ Attributed /\ Swept /\ InOrder /\ Patient /\ \A d \in Fatal \cup {"slow"} : d \notin disturbed'
    BY <1>7, <2>1, QuietBefore DEF DiagInv, Undisturbed
  <2>3. disturbed' = disturbed
    BY <1>2, <2>2 DEF Fatal
  <2>4. Timely'
    BY <1>2, <1>3, <1>4, <2>2 DEF Timely, Before, Preparing, Silent
  <2>5. Attributed'
    BY <1>3, <2>2, <2>3 DEF Attributed, Happened, Before, Preparing, Silent
  <2>6. Swept'
    <3>1. CASE WorkerTerminates
      <4>1. w.pc = "terminate" /\ child # None
        BY <2>2, <3>1 DEF WorkerTerminates, Swept
      <4>2. "child" \in w'.clean
        BY <1>1, <2>2, <3>1, <4>1 DEF WorkerTerminates, WorkerType, Disturb, Fatal
      <4> QED
        BY <1>3, <4>1, <4>2 DEF Swept, Tidying
    <3>2. CASE WorkerJoins \/ WorkerJoinTimesOut
      <4>1. w.pc = "join" /\ "child" \in w.clean /\ child = "dead"
        BY <1>1, <2>2, <3>2 DEF WorkerJoins, WorkerJoinTimesOut, Swept, Tidying, Cleaned
      <4>2. w' = [w EXCEPT !.pc = "close", !.raw = FALSE, !.clean = @ \cup {"reader", "zero"} \cup {"pipe"}]
        BY <2>2, <3>2, <4>1 DEF WorkerJoins, WorkerJoinTimesOut, Disturb, Fatal, None
      <4>3. w'.raw = FALSE /\ w'.clean = w.clean \cup {"reader", "zero"} \cup {"pipe"}
        BY <1>1, <4>2 DEF WorkerType
      <4> QED
        BY <1>3, <4>1, <4>3 DEF Swept, Tidying
    <3> QED
      BY <3>1, <3>2
  <2>7. InOrder'
    <3>1. \A x \in Phases \cup {"RECEIPT"} : Spoken(x)' <=> Spoken(x)
      BY <1>2, <1>3 DEF Spoken, Silent, Preparing
    <3>2. w'.pc = "inspect" \/ w'.last >= 0 => w'.first
      BY <1>3, <2>2 DEF InOrder
    <3> QED
      BY <1>1, <1>2, <1>3, <2>2, <3>1, <3>2, OrderFrame DEF Preparing, Silent
  <2>8. Patient'
    BY <1>1, <1>2, <1>3, <2>2, StillWaiting DEF Silent
  <2> QED
    BY <2>4, <2>5, <2>6, <2>7, <2>8 DEF Undisturbed
<1> QED
  BY <1>5, <1>6, <1>7

\* The cleanup's verdict and the closing message (WorkerCloses).
LEMMA CloseDiag ==
  ASSUME DiagInv, WorkerCloses
  PROVE  Marked' /\ Repeated' /\ (Quiet' => Undisturbed')
<1>1. /\ Marked /\ Repeated /\ w \in WorkerType /\ rd \in ReaderType /\ mon \in Monitors
      /\ pipe \in Seq(Messages) /\ child \in {None, "alive", "dead"} /\ now \in Int
  BY DEF DiagInv, CaptureInv, CaptureTypes
<1>2. /\ UNCHANGED <<line, window, sup, mon, verdict, inJob, now, child, rd>> /\ w.pc = "close"
      /\ pipe' = pipe \/ pipe' = Append(pipe, Message("CAPTURE_CLOSED"))
  BY DEF WorkerCloses, Send
<1>3. PICK rest \in {{}, {"rest"}}, f \in Failures \cup {None} :
        /\ w' = [w EXCEPT !.pc = "report", !.clean = w.clean \cup rest, !.failure = f, !.closed = now]
        /\ IF rest = {} THEN disturbed' = disturbed \cup {"leak"} ELSE disturbed' = disturbed
        /\ line = "N2" /\ w.clean \cup rest = AllClean => f = w.failure /\ pipe' = Append(pipe, Message("CAPTURE_CLOSED"))
  <2>1. PICK rest \in {{}, {"rest"}} :
          /\ IF rest = {} THEN Disturb("leak") ELSE Calm
          /\ LET clean == w.clean \cup rest
                 swept == IF clean # AllClean /\ w.failure # "PRIVACY_STOP" THEN "CLEANUP_INCOMPLETE" ELSE w.failure
                 announce == {"pipe", "child", "reader"} \subseteq clean
                 fail == IF announce /\ ~Emits("CAPTURE_CLOSED") /\ swept # "PRIVACY_STOP"
                         THEN "CAPTURE_RUNTIME_EXCEPTION" ELSE swept
             IN /\ w' = [w EXCEPT !.pc = "report", !.clean = clean, !.failure = fail, !.closed = now]
                /\ IF announce /\ Emits("CAPTURE_CLOSED")
                   THEN Send(Message("CAPTURE_CLOSED")) ELSE UNCHANGED pipe
    BY DEF WorkerCloses
  <2> DEFINE clean == w.clean \cup rest
             swept == IF clean # AllClean /\ w.failure # "PRIVACY_STOP" THEN "CLEANUP_INCOMPLETE" ELSE w.failure
             announce == {"pipe", "child", "reader"} \subseteq clean
             fail == IF announce /\ ~Emits("CAPTURE_CLOSED") /\ swept # "PRIVACY_STOP"
                     THEN "CAPTURE_RUNTIME_EXCEPTION" ELSE swept
  <2>2. /\ w' = [w EXCEPT !.pc = "report", !.clean = clean, !.failure = fail, !.closed = now]
        /\ announce /\ Emits("CAPTURE_CLOSED") => pipe' = Append(pipe, Message("CAPTURE_CLOSED"))
    BY <2>1 DEF Send
  <2>3. fail \in Failures \cup {None}
    BY <1>1 DEF WorkerType, Failures
  <2>4. line = "N2" /\ clean = AllClean => fail = w.failure /\ announce /\ Emits("CAPTURE_CLOSED")
    BY DEF Emits, AllClean
  <2>5. IF rest = {} THEN disturbed' = disturbed \cup {"leak"} ELSE disturbed' = disturbed
    BY <2>1 DEF Disturb, Calm
  <2> HIDE DEF fail
  <2> QED
    BY <2>2, <2>3, <2>4, <2>5
<1>4. /\ w'.pc = "report" /\ w'.clean = w.clean \cup rest /\ w'.failure = f /\ w'.exit = w.exit /\ w'.first = w.first
      /\ w'.at = w.at /\ w'.last = w.last /\ w'.raw = w.raw
  BY <1>1, <1>3 DEF WorkerType
<1>5. PICK m \in Messages : m = Message("CAPTURE_CLOSED") /\ m.event = "CAPTURE_CLOSED" /\ m.ts = now
  BY <1>1, MessageFields DEF Phases
<1>6. Marked'
  BY <1>1, <1>2, <1>3, <1>4 DEF Marked, Happened, Tidying, Silent, Preparing, Fatal
<1>7. Repeated'
  BY <1>1, <1>2, <1>3, <1>4, <1>5, RepeatedFrame
<1>8. ASSUME Quiet' PROVE Undisturbed'
  <2>1. Next
    BY DEF Next, Worker
  <2>2. Timely /\ Attributed /\ Swept /\ InOrder /\ Patient /\ line = "N2" /\ \A d \in Fatal \cup {"slow"} : d \notin disturbed'
    BY <1>8, <2>1, QuietBefore DEF DiagInv, Undisturbed, Quiet
  <2>3. disturbed' = disturbed /\ rest = {"rest"}
    BY <1>3, <2>2 DEF Fatal
  <2>4. {"child", "reader", "pipe", "zero"} \subseteq w.clean /\ w.clean \subseteq AllClean /\ w.raw = FALSE
    BY <1>1, <1>2, <2>2 DEF Swept, Tidying, WorkerType
  <2>5. f = w.failure /\ pipe' = Append(pipe, m)
    BY <1>3, <1>5, <2>2, <2>3, <2>4 DEF AllClean
  <2>6. Timely'
    <3>1. \A i \in 1 .. Len(pipe') : (i \in 1 .. Len(pipe) /\ pipe'[i] = pipe[i]) \/ pipe'[i] = m
      BY <1>1, <2>5
    <3>2. now <= Preflight + 1 /\ \A i \in 1 .. Len(pipe') : pipe'[i].ts <= Preflight + 1
      BY <1>5, <2>2, <3>1 DEF Timely
    <3> QED
      BY <1>2, <1>4, <2>2, <3>2 DEF Timely, Before, Preparing, Silent
  <2>7. Attributed'
    BY <1>4, <2>2, <2>3, <2>5 DEF Attributed, Happened, Before, Preparing, Silent
  <2>8. Swept'
    BY <1>4, <2>3, <2>4 DEF Swept, Tidying
  <2>9. InOrder'
    <3>1. \A x \in Phases \cup {"RECEIPT"} : /\ Spoken(x)' <=> Spoken(x) \/ x = m.event
                                             /\ Spoken(x) => Rank(x) < Rank(m.event)
      BY <1>2, <1>4, <1>5 DEF Spoken, Silent, Preparing, Phases, Rank
    <3>2. w'.pc = "inspect" \/ w'.last >= 0 => w'.first
      BY <1>4, <2>2 DEF InOrder
    <3> QED
      BY <1>1, <1>2, <1>4, <2>2, <2>5, <3>1, <3>2, OrderSays DEF Preparing, Silent
  <2>10. Patient'
    BY <1>1, <1>2, <1>4, <2>2, StillWaiting DEF Silent
  <2> QED
    BY <2>6, <2>7, <2>8, <2>9, <2>10 DEF Undisturbed
<1> QED
  BY <1>6, <1>7, <1>8

\* The receipt is sent (WorkerReports).
LEMMA ReportDiag ==
  ASSUME DiagInv, WorkerReports
  PROVE  Marked' /\ Repeated' /\ (Quiet' => Undisturbed')
<1>1. /\ Marked /\ Repeated /\ w \in WorkerType /\ mon \in Monitors /\ pipe \in Seq(Messages) /\ now \in Int
  BY DEF DiagInv, CaptureInv, CaptureTypes
<1>2. /\ UNCHANGED <<line, window, sup, mon, verdict, inJob, now, child, rd>> /\ w.pc = "report"
      /\ w' = [w EXCEPT !.pc = "return"]
  BY DEF WorkerReports
<1>3. PICK code \in Codes :
        /\ \/ w.failure # None /\ code = w.failure /\ disturbed' = disturbed
           \/ w.failure = None /\ code = "PASS" /\ disturbed' = disturbed
           \/ w.failure = None /\ code = "QUALITY_INSUFFICIENT" /\ disturbed' = disturbed \cup {"quality"}
        /\ pipe' = Append(pipe, [Message("RECEIPT") EXCEPT !.receipt = [code |-> code, raw |-> w.raw, clean |-> w.clean]])
  BY DEF WorkerReports, Send, Disturb, Calm
<1>4. /\ w'.pc = "return"
      /\ \A f \in {"exit", "first", "held", "at", "last", "closed", "failure", "raw", "clean"} : w'[f] = w[f]
  BY <1>1, <1>2 DEF WorkerType
<1>5. PICK m \in Messages : /\ pipe' = Append(pipe, m) /\ m.event = "RECEIPT" /\ m.ts = now
                            /\ m.receipt.code = code /\ m.receipt.raw = w.raw /\ m.receipt.clean = w.clean
  <2> DEFINE r == [code |-> code, raw |-> w.raw, clean |-> w.clean]
             m == [Message("RECEIPT") EXCEPT !.receipt = r]
  <2>1. r \in Receipts
    BY <1>1 DEF Receipts, WorkerType
  <2> HIDE DEF r
  <2>2. m = [event |-> "RECEIPT", ts |-> now, receipt |-> r]
    BY DEF Message
  <2>3. m \in Messages /\ m.event = "RECEIPT" /\ m.ts = now /\ m.receipt = r
    BY <1>1, <2>1, <2>2 DEF Messages
  <2>4. pipe' = Append(pipe, m)
    BY <1>3 DEF r
  <2>5. r.code = code /\ r.raw = w.raw /\ r.clean = w.clean
    BY DEF r
  <2> HIDE DEF m
  <2> QED
    BY <2>3, <2>4, <2>5
<1>6. /\ Len(pipe) \in Nat /\ Len(pipe) + 1 \in 1 .. Len(pipe') /\ pipe'[Len(pipe) + 1] = m
      /\ \A i \in 1 .. Len(pipe') : (i \in 1 .. Len(pipe) /\ pipe'[i] = pipe[i]) \/ pipe'[i] = m
  BY <1>1, <1>5
<1>7. Marked'
  BY <1>1, <1>2, <1>3, <1>4 DEF Marked, Happened, Tidying, Silent, Preparing, Benign
<1>8. Repeated'
  <2>1. /\ \A i \in 1 .. Len(pipe) : pipe[i].event # "RECEIPT"
        /\ mon.payload = NoReceipt /\ "quality" \notin disturbed
    BY <1>1, <1>2 DEF Repeated, ReceiptOf
  <2>2. /\ w'.failure = w.failure /\ w'.raw = w.raw /\ w'.clean = w.clean
        /\ "quality" \in disturbed' => w'.failure = None /\ code = "QUALITY_INSUFFICIENT"
        /\ w'.failure = None /\ "quality" \notin disturbed' => code = "PASS"
        /\ w'.failure # None => code = w'.failure
    BY <1>3, <1>4, <2>1
  <2>3. ReceiptOf(m.receipt)'
    BY <1>4, <1>5, <2>2 DEF ReceiptOf
  <2> QED
    BY <1>2, <1>4, <1>6, <2>1, <2>2, <2>3 DEF Repeated, ReceiptOf
<1>9. ASSUME Quiet' PROVE Undisturbed'
  <2>1. Next
    BY DEF Next, Worker
  <2>2. Timely /\ Attributed /\ Swept /\ InOrder /\ Patient
    BY <1>9, <2>1, QuietBefore DEF DiagInv, Undisturbed
  <2>3. Timely'
    <3>1. now <= Preflight + 1 /\ \A i \in 1 .. Len(pipe') : pipe'[i].ts <= Preflight + 1
      BY <1>5, <1>6, <2>2 DEF Timely
    <3> QED
      BY <1>2, <1>4, <2>2, <3>1 DEF Timely, Before, Preparing, Silent
  <2>4. Attributed'
    BY <1>3, <1>4, <2>2 DEF Attributed, Happened, Before, Preparing, Silent
  <2>5. Swept'
    BY <1>2, <1>4, <2>2 DEF Swept, Tidying
  <2>6. InOrder'
    <3>1. \A x \in Phases \cup {"RECEIPT"} : /\ Spoken(x)' <=> Spoken(x) \/ x = m.event
                                             /\ Spoken(x) => Rank(x) < Rank(m.event)
      BY <1>2, <1>4, <1>5 DEF Spoken, Silent, Preparing, Phases, Rank
    <3>2. w'.pc = "inspect" \/ w'.last >= 0 => w'.first
      BY <1>4, <2>2 DEF InOrder
    <3> QED
      BY <1>1, <1>2, <1>4, <1>5, <2>2, <3>1, <3>2, OrderSays DEF Preparing, Silent
  <2>7. Patient'
    <3>1. sup \notin {"launch", "assign", "resume", "proceed", "drain", "close", "done"}
      BY <1>1, <1>2, <2>2 DEF Repeated, ReceiptOf, Patient, Silent
    <3> QED
      BY <1>2, <1>4, <1>5, <1>6, <2>2, <3>1 DEF Patient
  <2> QED
    BY <2>3, <2>4, <2>5, <2>6, <2>7 DEF Undisturbed
<1> QED
  BY <1>7, <1>8, <1>9

\* The worker returns, or it dies (WorkerReturns, WorkerCrash).
LEMMA ReturnDiag ==
  ASSUME DiagInv, WorkerReturns \/ WorkerCrash
  PROVE  Marked' /\ Repeated' /\ (Quiet' => Undisturbed')
<1>1. /\ Marked /\ Repeated /\ w \in WorkerType /\ mon \in Monitors /\ pipe \in Seq(Messages)
  BY DEF DiagInv, CaptureInv, CaptureTypes
<1>2. /\ UNCHANGED <<line, window, sup, mon, verdict, inJob, now, child, rd, pipe>> /\ w.pc \notin {"gone"} \cup {"absent", "suspended"}
      /\ \/ w.pc = "return" /\ w' = [w EXCEPT !.pc = "gone", !.exit = "zero"] /\ disturbed' = disturbed
         \/ w' = [w EXCEPT !.pc = "gone", !.exit = "nonzero"] /\ disturbed' = disturbed \cup {"worker"}
  BY DEF WorkerReturns, WorkerCrash, Alive, Disturb
<1>3. /\ w'.pc = "gone"
      /\ \/ w.pc = "return" /\ w'.exit = "zero" /\ disturbed' = disturbed
         \/ w'.exit = "nonzero" /\ disturbed' = disturbed \cup {"worker"}
      /\ \A f \in {"first", "held", "at", "last", "closed", "failure", "raw", "clean"} : w'[f] = w[f]
  BY <1>1, <1>2 DEF WorkerType
<1>4. Marked'
  BY <1>1, <1>2, <1>3 DEF Marked, Happened, Tidying, Silent, Preparing, Fatal, None
<1>5. Repeated'
  BY <1>1, <1>2, <1>3, RepeatedFrame
<1>6. ASSUME Quiet' PROVE Undisturbed'
  <2>1. Next
    BY DEF Next, Worker
  <2>2. Timely /\ Attributed /\ Swept /\ InOrder /\ Patient /\ \A d \in Fatal \cup {"slow"} : d \notin disturbed'
    BY <1>6, <2>1, QuietBefore DEF DiagInv, Undisturbed
  <2>3. w.pc = "return" /\ w'.exit = "zero" /\ disturbed' = disturbed
    BY <1>3, <2>2 DEF Fatal
  <2>4. \A x \in Phases \cup {"RECEIPT"} : Spoken(x)' <=> Spoken(x)
    BY <1>3, <2>3 DEF Spoken, Silent, Preparing
  <2>5. Timely' /\ Attributed'
    BY <1>2, <1>3, <2>2, <2>3 DEF Timely, Attributed, Happened, Before, Preparing, Silent
  <2>6. Swept'
    BY <1>3, <2>2, <2>3 DEF Swept, Tidying
  <2>7. InOrder'
    <3>1. w'.pc = "inspect" \/ w'.last >= 0 => w'.first
      BY <1>3, <2>2 DEF InOrder
    <3> QED
      BY <1>1, <1>2, <1>3, <2>2, <2>4, <3>1, OrderFrame DEF Preparing, Silent
  <2>8. Patient'
    BY <1>2, <1>3, <2>2, <2>3, <2>4 DEF Patient, Silent
  <2> QED
    BY <2>5, <2>6, <2>7, <2>8 DEF Undisturbed
<1> QED
  BY <1>4, <1>5, <1>6

-----------------------------------------------------------------------------
(* The reader thread *)

\* The reader leaves the worker, the pipe and the monitor alone.
LEMMA ReaderLeaves ==
  ASSUME Repeated, UNCHANGED <<sup, mon, pipe, w>>, "quality" \in disturbed' <=> "quality" \in disturbed
  PROVE  Repeated' /\ (InOrder => InOrder') /\ (Patient => Patient')
BY DEF Repeated, ReceiptOf, InOrder, Patient, Spoken

\* The reader takes a buffer (ReaderGets).
LEMMA GetDiag ==
  ASSUME DiagInv, ReaderGets
  PROVE  Marked' /\ Repeated' /\ (Quiet' => Undisturbed')
<1>1. Marked /\ Repeated /\ rd \in ReaderType /\ rd.free \in Seq(Buffers \cup {NoBuffer})
  BY DEF DiagInv, CaptureInv, CaptureTypes, ReaderType
<1>2. /\ UNCHANGED <<line, window, sup, mon, verdict, inJob, pipe, w, child, now, disturbed>>
      /\ rd.pc = "get" /\ rd.free # <<>>
      /\ rd' = [rd EXCEPT !.free = Tail(@), !.buf = Head(rd.free),
                          !.pc = IF Head(rd.free) = NoBuffer THEN "end" ELSE "read"]
  BY DEF ReaderGets
<1>3. rd'.ready = rd.ready /\ rd'.free = Tail(rd.free) /\ rd'.pc = (IF Head(rd.free) = NoBuffer THEN "end" ELSE "read")
  BY <1>1, <1>2 DEF ReaderType
<1>4. Marked'
  BY <1>1, <1>2, <1>3 DEF Marked, Happened
<1>5. Repeated' /\ (InOrder => InOrder') /\ (Patient => Patient')
  BY <1>1, <1>2, ReaderLeaves
<1>6. ASSUME Quiet' PROVE Undisturbed'
  <2>1. Next
    BY DEF Next, Reader
  <2>2. Timely /\ Attributed /\ Swept /\ InOrder /\ Patient
    BY <1>6, <2>1, QuietBefore DEF DiagInv, Undisturbed
  <2>3. Timely' /\ Swept'
    BY <1>2, <1>3, <2>2 DEF Timely, Swept
  <2>4. Attributed'
    <3>1. Len(rd.free) \in Nat /\ Len(rd.free) # 0 /\ Head(rd.free) = rd.free[1]
      BY <1>1, <1>2, EmptySeq
    <3>2. \A i \in 1 .. Len(Tail(rd.free)) : i + 1 \in 1 .. Len(rd.free) /\ Tail(rd.free)[i] = rd.free[i + 1]
      BY <1>1, <1>2, <3>1
    <3>3. 1 \in 1 .. Len(rd.free)
      BY <3>1
    <3>4. ASSUME w.pc \in Before
          PROVE  rd'.pc = "read" /\ \A i \in 1 .. Len(rd'.free) : rd'.free[i] \in Buffers
      <4>1. \A i \in 1 .. Len(rd.free) : rd.free[i] \in Buffers
        BY <2>2, <3>4 DEF Attributed
      <4>2. Head(rd.free) # NoBuffer
        BY <3>1, <3>3, <4>1 DEF Buffers, NoBuffer
      <4> QED
        BY <1>3, <3>2, <4>1, <4>2
    <3> QED
      BY <1>2, <1>3, <2>2, <3>4 DEF Attributed, Happened
  <2> QED
    BY <1>5, <2>2, <2>3, <2>4 DEF Undisturbed
<1> QED
  BY <1>4, <1>5, <1>6

\* The reader hands over what it read (ReaderFills, ReaderFillsShort, ReaderEnds).
LEMMA PutDiag ==
  ASSUME DiagInv, ReaderFills \/ ReaderFillsShort \/ ReaderEnds
  PROVE  Marked' /\ Repeated' /\ (Quiet' => Undisturbed')
<1>1. /\ Marked /\ Repeated /\ rd \in ReaderType /\ rd.ready \in Seq(Entries) /\ now \in Int /\ rd.buf \in Buffers
      /\ child \in {None, "alive", "dead"}
  BY DEF DiagInv, CaptureInv, CaptureTypes, ReaderType, ReaderFills, ReaderFillsShort, ReaderEnds
<1>2. /\ UNCHANGED <<line, window, sup, mon, verdict, inJob, pipe, w, now>> /\ rd.pc = "read"
      /\ child' \in {child, "dead"}
      /\ disturbed' = disturbed \/ \E d \in Faults : disturbed' = disturbed \cup {d}
  BY DEF ReaderFills, ReaderFillsShort, ReaderEnds, Calm, Disturb, Faults
<1>3. PICK kind \in {"frame", "short", "eof", "exception"}, p \in {"get", "end"} :
        /\ rd' = [rd EXCEPT !.pc = p, !.ready = Append(@, [kind |-> kind, buf |-> rd.buf, at |-> now])]
        /\ kind = "frame" => p = "get" /\ child' = child
        /\ kind # "frame" => child = "dead" \/ \E d \in Faults : d \in disturbed'
  BY DEF ReaderFills, ReaderFillsShort, ReaderEnds, Ready, Disturb, Faults
<1>4. [kind |-> kind, buf |-> rd.buf, at |-> now] \in Entries
  BY <1>1 DEF Entries
<1>5. PICK e \in Entries : e.kind = kind /\ e.at = now /\ rd' = [rd EXCEPT !.pc = p, !.ready = Append(@, e)]
  BY <1>3, <1>4
<1>6. /\ rd'.pc = p /\ rd'.free = rd.free /\ rd'.ready = Append(rd.ready, e)
  BY <1>1, <1>5 DEF ReaderType
<1>7. \A i \in 1 .. Len(rd'.ready) : (i \in 1 .. Len(rd.ready) /\ rd'.ready[i] = rd.ready[i]) \/ rd'.ready[i] = e
  BY <1>1, <1>6
<1>8. Marked'
  BY <1>1, <1>2, <1>6 DEF Marked, Happened, Benign, Faults, None
<1>9. Repeated' /\ (InOrder => InOrder') /\ (Patient => Patient')
  BY <1>1, <1>2, ReaderLeaves DEF Faults
<1>10. ASSUME Quiet' PROVE Undisturbed'
  <2>1. Next
    BY DEF Next, Reader
  <2>2. Timely /\ Attributed /\ Swept /\ InOrder /\ Patient
    BY <1>10, <2>1, QuietBefore DEF DiagInv, Undisturbed
  <2>3. Timely'
    BY <1>1, <1>2, <1>5, <1>6, <1>7, <2>2 DEF Timely
  <2>4. Swept'
    BY <1>2, <2>2 DEF Swept, None
  <2>5. Attributed'
    <3>1. Happened(Faults) => Happened(Faults)'
      BY <1>2 DEF Happened
    <3>2. ASSUME w.pc \in Before
          PROVE  /\ child' = "dead" \/ rd'.pc = "end" => Happened(Faults)'
                 /\ \A i \in 1 .. Len(rd'.free) : rd'.free[i] \in Buffers
                 /\ \A i \in 1 .. Len(rd'.ready) : rd'.ready[i].kind # "frame" => Happened(Faults)'
      <4>1. /\ child = "dead" => Happened(Faults)
            /\ \A i \in 1 .. Len(rd.free) : rd.free[i] \in Buffers
            /\ \A i \in 1 .. Len(rd.ready) : rd.ready[i].kind # "frame" => Happened(Faults)
        BY <2>2, <3>2 DEF Attributed
      <4>2. kind # "frame" => Happened(Faults)'
        BY <1>3, <3>1, <4>1 DEF Happened
      <4> QED
        BY <1>3, <1>5, <1>6, <1>7, <3>1, <4>1, <4>2
    <3>3. \A d \in {"person", "stall", "pose"} : d \in disturbed' <=> d \in disturbed
      BY <1>2 DEF Faults
    <3> QED
      BY <1>2, <2>2, <3>1, <3>2, <3>3 DEF Attributed, Happened
  <2> QED
    BY <1>9, <2>2, <2>3, <2>4, <2>5 DEF Undisturbed
<1> QED
  BY <1>8, <1>9, <1>10

-----------------------------------------------------------------------------
(* The monitor and the job *)

\* The monitor waits, gives up or sees the end of the output; the supervisor dies; time
\* passes (MonitorArms, MonitorTimesOut, MonitorSeesEnd, SupervisorCrash, Tick).
LEMMA WaitDiag ==
  ASSUME DiagInv, MonitorArms \/ MonitorTimesOut \/ MonitorSeesEnd \/ SupervisorCrash \/ Tick
  PROVE  Marked' /\ Repeated' /\ (Quiet' => Undisturbed')
<1>1. /\ Marked /\ Repeated /\ w \in WorkerType /\ rd \in ReaderType /\ mon \in Monitors
      /\ pipe \in Seq(Messages) /\ child \in {None, "alive", "dead"} /\ now \in Int
  BY DEF DiagInv, CaptureInv, CaptureTypes
<1>2. /\ UNCHANGED <<line, window, verdict, inJob, pipe, rd>> /\ sup \notin {"launch", "done"}
      /\ mon' = mon \/ mon' = [mon EXCEPT !.armed = TRUE] \/ mon' = [mon EXCEPT !.timed_out = TRUE]
      /\ disturbed' = disturbed \/ disturbed' = disturbed \cup {"slow"} \/ disturbed' = disturbed \cup {"supervisor"}
      /\ UNCHANGED <<w, child>> \/ (KillMembers /\ sup' = "dead")
      /\ "supervisor" \in disturbed' => "supervisor" \in disturbed \/ sup' = "dead"
      /\ sup' \in {"dead"} \/ (sup = "monitor" /\ sup' \in {"monitor", "drain"})
      /\ sup' = "dead" => disturbed' = disturbed \cup {"supervisor"}
  BY DEF MonitorArms, MonitorTimesOut, MonitorSeesEnd, SupervisorCrash, Tick, Expires, Calm, Slow, Disturb
<1>3. /\ \A f \in {"ran", "phases", "malformed", "payload", "drained", "forced"} : mon'[f] = mon[f]
      /\ mon'.timed_out = mon.timed_out \/ (MonitorTimesOut /\ mon'.timed_out = TRUE)
  <2>1. mon' = [mon EXCEPT !.timed_out = TRUE] => mon' = mon \/ MonitorTimesOut \/ mon'.timed_out = mon.timed_out
    BY <1>1 DEF MonitorArms, MonitorTimesOut, MonitorSeesEnd, SupervisorCrash, Tick, Monitors
  <2> QED
    BY <1>1, <1>2, <2>1 DEF Monitors
<1>4. /\ w'.clean = w.clean /\ w'.raw = w.raw /\ w'.failure = w.failure
      /\ w' = w \/ (w'.pc = "gone" /\ w'.exit = "killed" /\ w.pc # "gone")
      /\ child' = child \/ (child = "alive" /\ child' = "dead")
  BY <1>1, <1>2 DEF KillMembers, Killed, KilledChild, WorkerType
<1>5. Marked'
  BY <1>1, <1>2, <1>3, <1>4 DEF Marked, Happened, Tidying, Silent, Preparing, Fatal, None
<1>6. Repeated'
  BY <1>1, <1>2, <1>3, <1>4, RepeatedFrame
<1>7. ASSUME Quiet' PROVE Undisturbed'
  <2>1. Next
    BY DEF Next, Supervisor
  <2>2. /\ Timely /\ Attributed /\ Swept /\ InOrder /\ Patient /\ Quiet
        /\ \A d \in Fatal \cup {"slow"} : d \notin disturbed'
    BY <1>7, <2>1, QuietBefore DEF DiagInv, Undisturbed
  <2>3. disturbed' = disturbed /\ UNCHANGED <<w, child>> /\ sup = "monitor" /\ sup' \in {"monitor", "drain"}
    BY <1>2, <2>2 DEF Fatal
  <2>4. window >= Preflight + 2 /\ now <= Preflight + 1 /\ Preflight \in Int /\ window \in Int
    BY <2>2, TimeAssumption DEF Quiet, Timely, DiagInv, CaptureInv, CaptureTypes
  <2>5. ~ MonitorTimesOut
    <3>1. ~ (now >= window)
      BY <2>4, <1>1
    <3> QED
      BY <2>2, <3>1 DEF MonitorTimesOut, Expires, Slow
  <2>6. ~ MonitorSeesEnd
    <3> SUFFICES ASSUME MonitorSeesEnd PROVE FALSE
      OBVIOUS
    <3>1. w.pc = "gone" /\ Len(pipe) = 0
      BY DEF MonitorSeesEnd
    <3>2. mon.payload # NoReceipt
      BY <2>2, <3>1 DEF Patient
    <3>3. mon.payload = NoReceipt
      BY <2>2, <2>3 DEF Patient
    <3> QED
      BY <3>2, <3>3
  <2>7. sup' = "monitor" /\ mon'.timed_out = mon.timed_out
    BY <1>3, <2>3, <2>5, <2>6 DEF MonitorArms, SupervisorCrash, Tick
  <2>8. Timely'
    <3>1. CASE now' = now
      BY <1>2, <2>2, <2>3, <3>1 DEF Timely
    <3>2. CASE Tick
      <4>1. /\ now' = now + 1
            /\ \/ w.pc = "next" /\ w.last = now
               \/ w.pc = "terminate" /\ w.at = now
        BY <2>2, <3>2 DEF Tick, Slow
      <4>2. w.pc = "next" => now < Preflight
        BY <2>2, <4>1 DEF Timely, Before, Preparing, Silent
      <4>3. w.pc = "terminate" => now <= Preflight
        BY <1>1, <2>2, <4>1 DEF Timely
      <4>4. now' <= Preflight + 1 /\ w.at <= now' /\ (w.pc = "next" => now' <= Preflight) /\ (w.pc = "terminate" => w.at < now')
        <5>1. w.at \in Int /\ w.at <= now
          BY <1>1, <2>2 DEF Timely, WorkerType
        <5> QED
          BY <1>1, <2>4, <4>1, <4>2, <4>3, <5>1
      <4>5. \A i \in 1 .. Len(rd.ready) : rd.ready[i].at <= now'
        <5>1. \A i \in 1 .. Len(rd.ready) : rd.ready[i].at \in Int
          <6>1. rd.ready \in Seq(Entries)
            BY <1>1 DEF ReaderType
          <6>2. \A i \in 1 .. Len(rd.ready) : rd.ready[i] \in Entries
            BY <6>1
          <6> QED
            BY <6>2 DEF Entries
        <5> QED
          BY <1>1, <2>2, <4>1, <5>1 DEF Timely
      <4> QED
        BY <1>2, <2>2, <2>3, <4>1, <4>4, <4>5 DEF Timely, Before, Preparing, Silent
    <3> QED
      BY <2>5, <2>6, <3>1, <3>2 DEF MonitorArms, SupervisorCrash
  <2>9. Attributed' /\ Swept'
    BY <1>2, <2>2, <2>3 DEF Attributed, Swept, Happened
  <2>10. InOrder'
    BY <1>2, <1>3, <2>2, <2>3 DEF InOrder, Spoken
  <2>11. Patient'
    BY <1>2, <1>3, <2>2, <2>3, <2>7 DEF Patient
  <2> QED
    BY <2>8, <2>9, <2>10, <2>11 DEF Undisturbed
<1> QED
  BY <1>5, <1>6, <1>7

\* The job is drained (DrainGracefully, DrainByForce).
LEMMA DrainDiag ==
  ASSUME DiagInv, DrainGracefully \/ DrainByForce
  PROVE  Marked' /\ Repeated' /\ (Quiet' => Undisturbed')
<1>1. /\ Marked /\ Repeated /\ Cleaned /\ w \in WorkerType /\ rd \in ReaderType /\ mon \in Monitors
      /\ pipe \in Seq(Messages) /\ child \in {None, "alive", "dead"} /\ now \in Int
  BY DEF DiagInv, CaptureInv, CaptureTypes
<1>2. /\ UNCHANGED <<line, window, verdict, inJob, pipe, rd, now>> /\ sup = "drain" /\ sup' = "close"
      /\ UNCHANGED <<w, child>> \/ KillMembers
      /\ \/ mon' = [mon EXCEPT !.drained = TRUE] /\ disturbed' = disturbed /\ DrainGracefully
         \/ mon' = [mon EXCEPT !.forced = TRUE, !.drained = TRUE] /\ disturbed' \in {disturbed, disturbed \cup {"slow"}}
         \/ mon' = [mon EXCEPT !.forced = TRUE] /\ disturbed' = disturbed \cup {"terminate"}
  BY DEF DrainGracefully, DrainByForce, Calm, Slow, Disturb
<1>3. /\ \A f \in {"ran", "phases", "malformed", "payload", "timed_out"} : mon'[f] = mon[f]
      /\ mon.forced => mon'.forced
      /\ \/ mon'.drained = TRUE /\ mon'.forced = mon.forced /\ disturbed' = disturbed /\ DrainGracefully
         \/ mon'.forced = TRUE /\ disturbed' \in {disturbed, disturbed \cup {"slow"}, disturbed \cup {"terminate"}}
  BY <1>1, <1>2 DEF Monitors
<1>4. /\ w'.clean = w.clean /\ w'.raw = w.raw /\ w'.failure = w.failure
      /\ w' = w \/ (w'.pc = "gone" /\ w'.exit = "killed" /\ w.pc # "gone")
      /\ child' = child \/ (child = "alive" /\ child' = "dead")
  BY <1>1, <1>2 DEF KillMembers, Killed, KilledChild, WorkerType
<1>5. Marked'
  BY <1>1, <1>2, <1>3, <1>4 DEF Marked, Happened, Tidying, Silent, Preparing, Fatal, None
<1>6. Repeated'
  BY <1>1, <1>2, <1>3, <1>4, RepeatedFrame
<1>7. ASSUME Quiet' PROVE Undisturbed'
  <2>1. Next
    BY DEF Next, Supervisor
  <2>2. /\ Timely /\ Attributed /\ Swept /\ InOrder /\ Patient
        /\ \A d \in Fatal \cup {"slow"} : d \notin disturbed'
    BY <1>7, <2>1, QuietBefore DEF DiagInv, Undisturbed
  <2>3. Reported
    BY <1>2, <2>2 DEF Patient, Reported
  <2>4. w.pc \in {"return", "gone"} /\ child = "dead"
    <3>1. w.pc \in {"return", "gone"}
      BY <1>1, <1>2, <2>2 DEF Patient, Repeated, ReceiptOf
    <3> QED
      BY <1>1, <2>2, <3>1 DEF Swept, Tidying, Cleaned
  <2>5. ~ DrainByForce
    BY <2>2, <2>3, <2>4 DEF DrainByForce, JobEmpty, Disturb, Slow, Fatal
  <2>6. DrainGracefully /\ w.pc = "gone" /\ w' = w /\ child' = child /\ disturbed' = disturbed
    BY <2>5 DEF DrainGracefully, JobEmpty
  <2>7. mon'.drained = TRUE /\ mon'.forced = mon.forced
    BY <1>1, <2>6 DEF DrainGracefully, Monitors
  <2>8. Timely' /\ Attributed' /\ Swept'
    BY <1>2, <2>2, <2>6 DEF Timely, Attributed, Swept, Happened
  <2>9. InOrder'
    BY <1>2, <1>3, <2>2, <2>6 DEF InOrder, Spoken
  <2>10. Patient'
    BY <1>2, <1>3, <2>2, <2>6, <2>7 DEF Patient, Spoken, Swept
  <2> QED
    BY <2>8, <2>9, <2>10 DEF Undisturbed
<1> QED
  BY <1>5, <1>6, <1>7

\* In a quiet attempt the line at the head of the pipe is well placed.
LEMMA HeadAccepted ==
  ASSUME InOrder, Timely, window >= Preflight + 2, NEW m \in Messages, m = pipe[1], 1 \in 1 .. Len(pipe), window \in Int,
         mon \in Monitors, pipe \in Seq(Messages)
  PROVE  Accepts(m) /\ \A e \in Phases : Spoken(e) /\ Rank(e) < Rank(m.event) => e \in mon.phases
<1>1. /\ m.event \in Phases \cup {"RECEIPT"} /\ m.ts \in Int /\ m.ts <= Preflight + 1 /\ Preflight \in Int
      /\ mon.phases \subseteq Phases /\ Len(pipe) \in Nat
  BY TimeAssumption DEF Messages, Timely, Monitors
<1>2. \A e \in Phases \cup {"RECEIPT"} : Rank(e) \in 1 .. 6
  BY DEF Rank
<1>3. \A i \in 1 .. Len(pipe) : pipe[i].event \in Phases \cup {"RECEIPT"} /\ ~ (Rank(pipe[i].event) < Rank(m.event))
  <2> SUFFICES ASSUME NEW i \in 1 .. Len(pipe)
               PROVE  pipe[i].event \in Phases \cup {"RECEIPT"} /\ ~ (Rank(pipe[i].event) < Rank(m.event))
    OBVIOUS
  <2>1. pipe[i] \in Messages
    OBVIOUS
  <2>2. pipe[i].event \in Phases \cup {"RECEIPT"}
    BY <2>1 DEF Messages
  <2>3. i = 1 \/ 1 < i
    OBVIOUS
  <2>4. i = 1 \/ Rank(pipe[1].event) < Rank(pipe[i].event)
    BY <2>3 DEF InOrder
  <2>5. Rank(pipe[i].event) \in Int /\ Rank(m.event) \in Int
    BY <1>1, <1>2, <2>2
  <2> QED
    BY <2>2, <2>4, <2>5
<1>4. \A e \in Phases : Spoken(e) /\ Rank(e) < Rank(m.event) => e \in mon.phases
  BY <1>3 DEF InOrder
<1>5. \A e \in mon.phases : Rank(e) < Rank(m.event)
  BY DEF InOrder
<1>6. Spoken(m.event)
  BY <1>1 DEF InOrder
<1>7. w.first => w.pc \notin Preparing
  BY DEF InOrder
<1>8. CASE m.event = "AUTHORIZED"
  <2>1. mon.phases \cap {"AUTHORIZED", "FIRST_FRAME"} = {}
    BY <1>5, <1>8 DEF Rank
  <2> QED
    BY <1>4, <1>8, <2>1 DEF Accepts
<1>9. CASE m.event = "PRIVACY_READY"
  <2>1. "AUTHORIZED" \in mon.phases
    BY <1>4, <1>6, <1>9 DEF Rank, Spoken, Phases
  <2>2. mon.phases \subseteq {"AUTHORIZED"}
    BY <1>1, <1>5, <1>9 DEF Rank, Phases
  <2> QED
    BY <1>4, <1>9, <2>1, <2>2 DEF Accepts
<1>10. CASE m.event = "CAPTURE_STARTING"
  <2>1. "PRIVACY_READY" \in mon.phases
    BY <1>4, <1>6, <1>10 DEF Rank, Spoken, Phases, Preparing
  <2>2. mon.phases \cap {"CAPTURE_STARTING", "FIRST_FRAME"} = {}
    BY <1>5, <1>10 DEF Rank
  <2> QED
    BY <1>4, <1>10, <2>1, <2>2 DEF Accepts
<1>11. ASSUME m.event \in {"FIRST_FRAME", "CAPTURE_CLOSED"} PROVE Opening \subseteq mon.phases /\ m.event \notin mon.phases
  <2>1. w.pc \notin Preparing
    BY <1>6, <1>7, <1>11 DEF Spoken, Preparing, Silent
  <2>2. Opening \subseteq mon.phases
    BY <1>4, <1>11, <2>1 DEF Rank, Spoken, Phases, Opening, Preparing, Silent
  <2>3. Rank(m.event) \in Int
    BY <1>1, <1>2
  <2> QED
    BY <1>5, <2>2, <2>3
<1>12. CloseInWindow(m)
  BY <1>1 DEF CloseInWindow
<1>13. CASE m.event \in {"FIRST_FRAME", "CAPTURE_CLOSED", "RECEIPT"}
  BY <1>4, <1>11, <1>12, <1>13 DEF Accepts
<1> QED
  BY <1>1, <1>8, <1>9, <1>10, <1>13 DEF Phases

\* One line of the worker is read (MonitorReads).
LEMMA ReadDiag ==
  ASSUME DiagInv, MonitorReads
  PROVE  Marked' /\ Repeated' /\ (Quiet' => Undisturbed')
<1>1. /\ Marked /\ Repeated /\ w \in WorkerType /\ mon \in Monitors
      /\ pipe \in Seq(Messages) /\ now \in Int /\ window \in Int
  BY DEF DiagInv, CaptureInv, CaptureTypes
<1>2. /\ UNCHANGED <<line, window, verdict, inJob, w, child, rd, now>> /\ sup = "monitor" /\ sup' \in {"monitor", "drain"}
      /\ pipe # <<>> /\ pipe' = Tail(pipe)
  BY DEF MonitorReads
<1>3. PICK n \in Nat : n + 1 = Len(pipe)
  <2>1. Len(pipe) \in Nat /\ Len(pipe) # 0
    BY <1>1, <1>2, EmptySeq
  <2>2. Len(pipe) - 1 \in Nat /\ (Len(pipe) - 1) + 1 = Len(pipe)
    BY <2>1
  <2> QED
    BY <2>2
<1>4. /\ Len(pipe') = n /\ 1 \in 1 .. Len(pipe)
      /\ \A i \in 1 .. n : pipe'[i] = pipe[i + 1] /\ i + 1 \in 1 .. Len(pipe) /\ 1 < i + 1
      /\ \A i \in 1 .. Len(pipe) : i = 1 \/ \E j \in 1 .. n : i = j + 1
  <2>1. Len(pipe') = n /\ \A i \in 1 .. n : pipe'[i] = pipe[i + 1]
    BY <1>1, <1>2, <1>3
  <2>2. 1 \in 1 .. Len(pipe) /\ \A i \in 1 .. n : i + 1 \in 1 .. Len(pipe) /\ 1 < i + 1
    BY <1>3
  <2>3. ASSUME NEW i \in 1 .. Len(pipe) PROVE i = 1 \/ \E j \in 1 .. n : i = j + 1
    <3>1. i = 1 \/ (i - 1 \in 1 .. n /\ i = (i - 1) + 1)
      BY <1>3
    <3> QED
      BY <3>1
  <2> QED
    BY <2>1, <2>2, <2>3
<1>5. PICK m \in Messages : m = Head(pipe) /\ m = pipe[1]
  BY <1>1, <1>2, <1>3
<1>6. \/ /\ m.event # "RECEIPT" /\ disturbed' = disturbed
         /\ mon' = [mon EXCEPT !.armed = FALSE, !.phases = @ \cup {m.event},
                               !.timed_out = (m.event = "FIRST_FRAME" /\ window <= now)]
         /\ sup' = IF m.event = "FIRST_FRAME" /\ window <= now THEN "drain" ELSE sup
      \/ m.event = "RECEIPT" /\ disturbed' = disturbed /\ mon' = [mon EXCEPT !.payload = m.receipt] /\ sup' = "drain"
      \/ /\ (~Accepts(m) /\ disturbed' = disturbed) \/ disturbed' = disturbed \cup {"skew"}
         /\ mon' = [mon EXCEPT !.malformed = TRUE]
  BY <1>5 DEF MonitorReads, Calm, Disturb
<1>7. /\ mon'.ran = mon.ran /\ mon'.forced = mon.forced /\ mon'.drained = mon.drained
      /\ \/ /\ m.event # "RECEIPT" /\ disturbed' = disturbed /\ mon'.phases = mon.phases \cup {m.event}
            /\ mon'.timed_out = (m.event = "FIRST_FRAME" /\ window <= now)
            /\ mon'.payload = mon.payload /\ mon'.malformed = mon.malformed
            /\ sup' = IF m.event = "FIRST_FRAME" /\ window <= now THEN "drain" ELSE sup
         \/ /\ m.event = "RECEIPT" /\ disturbed' = disturbed /\ mon'.payload = m.receipt /\ mon'.phases = mon.phases
            /\ mon'.timed_out = mon.timed_out /\ mon'.malformed = mon.malformed /\ sup' = "drain"
         \/ /\ (~Accepts(m) /\ disturbed' = disturbed) \/ disturbed' = disturbed \cup {"skew"}
            /\ mon'.malformed = TRUE /\ mon'.payload = mon.payload
  BY <1>1, <1>6 DEF Monitors
<1>8. Marked'
  <2>1. /\ mon.malformed => mon'.malformed
        /\ mon.forced => mon'.forced
        /\ mon'.ran => mon.ran
        /\ disturbed' = disturbed \/ (disturbed' = disturbed \cup {"skew"} /\ mon'.malformed)
    BY <1>7
  <2>2. CASE disturbed' = disturbed
    BY <1>1, <1>2, <2>1, <2>2 DEF Marked, Happened
  <2>3. CASE disturbed' = disturbed \cup {"skew"} /\ mon'.malformed
    BY <1>1, <1>2, <2>1, <2>3 DEF Marked, Happened, Fatal
  <2> QED
    BY <2>1, <2>2, <2>3
<1>9. Repeated'
  <2>1. \A i \in 1 .. Len(pipe') : pipe'[i].event = "RECEIPT" => ReceiptOf(pipe'[i].receipt)
    BY <1>1, <1>4 DEF Repeated
  <2>2. m.event = "RECEIPT" => ReceiptOf(m.receipt)
    BY <1>1, <1>4, <1>5 DEF Repeated
  <2>3. mon'.payload # NoReceipt => ReceiptOf(mon'.payload)
    BY <1>1, <1>7, <2>2 DEF Repeated
  <2>4. "quality" \in disturbed' <=> "quality" \in disturbed
    BY <1>7
  <2> QED
    BY <1>1, <1>2, <2>1, <2>3, <2>4 DEF Repeated, ReceiptOf
<1>10. ASSUME Quiet' PROVE Undisturbed'
  <2>1. Next
    BY DEF Next, Supervisor
  <2>2. /\ Timely /\ Attributed /\ Swept /\ InOrder /\ Patient /\ window >= Preflight + 2
        /\ \A d \in Fatal \cup {"slow"} : d \notin disturbed'
    BY <1>10, <2>1, QuietBefore DEF DiagInv, Undisturbed, Quiet
  <2>3. /\ Accepts(m) /\ \A e \in Phases : Spoken(e) /\ Rank(e) < Rank(m.event) => e \in mon.phases
    BY <1>1, <1>4, <1>5, <2>2, HeadAccepted
  <2>4. ~ (window <= now)
    <3>1. now <= Preflight + 1 /\ Preflight \in Int
      BY <2>2, TimeAssumption DEF Timely
    <3> QED
      BY <1>1, <2>2, <3>1
  <2>5. /\ disturbed' = disturbed /\ mon'.timed_out = FALSE /\ mon'.malformed = mon.malformed
        /\ \/ /\ m.event # "RECEIPT" /\ mon'.phases = mon.phases \cup {m.event}
              /\ mon'.payload = mon.payload /\ sup' = "monitor"
           \/ m.event = "RECEIPT" /\ mon'.payload = m.receipt /\ mon'.phases = mon.phases /\ sup' = "drain"
    <3>1. mon.timed_out = FALSE
      BY <1>1, <2>2 DEF Patient, Monitors, Flags
    <3> QED
      BY <1>2, <1>7, <2>2, <2>3, <2>4, <3>1 DEF Fatal
  <2>6. Timely' /\ Attributed' /\ Swept'
    <3>1. \A i \in 1 .. Len(pipe') : pipe'[i].ts <= Preflight + 1
      BY <1>4, <2>2 DEF Timely
    <3> QED
      BY <1>2, <2>2, <2>5, <3>1 DEF Timely, Attributed, Swept, Happened
  <2>7. m.event \in Phases \cup {"RECEIPT"} /\ mon.phases \subseteq Phases /\ Spoken(m.event)
    <3>1. m.event \in Phases \cup {"RECEIPT"} /\ mon.phases \subseteq Phases
      BY <1>1 DEF Messages, Monitors
    <3> QED
      BY <1>4, <1>5, <2>2, <3>1 DEF InOrder
  <2>8. InOrder'
    <3>1. \A e \in Phases \cup {"RECEIPT"} : Spoken(e)' <=> Spoken(e)
      BY <1>2 DEF Spoken
    <3>2. \A i, j \in 1 .. n : i < j => Rank(pipe'[i].event) < Rank(pipe'[j].event)
      <4> SUFFICES ASSUME NEW i \in 1 .. n, NEW j \in 1 .. n, i < j
                   PROVE  Rank(pipe[i + 1].event) < Rank(pipe[j + 1].event)
        BY <1>4
      <4>1. i + 1 < j + 1 /\ i + 1 \in 1 .. Len(pipe) /\ j + 1 \in 1 .. Len(pipe)
        BY <1>3
      <4> QED
        BY <2>2, <4>1 DEF InOrder
    <3>3. \A e \in mon'.phases : Spoken(e) /\ \A i \in 1 .. n : Rank(e) < Rank(pipe'[i].event)
      <4>1. \A i \in 1 .. n : Rank(m.event) < Rank(pipe'[i].event)
        BY <1>4, <1>5, <2>2 DEF InOrder
      <4>2. \A e \in mon.phases : Spoken(e) /\ \A i \in 1 .. n : Rank(e) < Rank(pipe'[i].event)
        BY <1>4, <2>2 DEF InOrder
      <4> QED
        BY <2>5, <2>7, <4>1, <4>2
    <3>4. \A e \in Phases \cup {"RECEIPT"}, i \in 1 .. n : pipe'[i].event = e => Spoken(e)
      BY <1>4, <2>2 DEF InOrder
    <3>5. \A e \in Phases : Spoken(e) => e \in mon'.phases \/ \E i \in 1 .. n : pipe'[i].event = e
      <4> SUFFICES ASSUME NEW e \in Phases, Spoken(e), e \notin mon'.phases
                   PROVE  \E i \in 1 .. n : pipe'[i].event = e
        OBVIOUS
      <4>1. e \notin mon.phases /\ e # m.event
        BY <2>5 DEF Phases
      <4>2. PICK i \in 1 .. Len(pipe) : pipe[i].event = e
        BY <2>2, <4>1 DEF InOrder
      <4>3. i # 1
        BY <1>5, <4>1, <4>2
      <4>4. PICK j \in 1 .. n : i = j + 1
        BY <1>4, <4>3
      <4> QED
        BY <1>4, <4>2, <4>4
    <3>6. \A e \in mon'.phases : e \in Phases
      BY <2>5, <2>7
    <3>7. \A e \in mon'.phases : Spoken(e)' /\ \A i \in 1 .. Len(pipe') : Rank(e) < Rank(pipe'[i].event)
      BY <1>4, <3>1, <3>3, <3>6
    <3>8. \A e \in Phases \cup {"RECEIPT"}, i \in 1 .. Len(pipe') : pipe'[i].event = e => Spoken(e)'
      BY <1>4, <3>1, <3>4
    <3>9. \A e \in Phases : Spoken(e)' => e \in mon'.phases \/ \E i \in 1 .. Len(pipe') : pipe'[i].event = e
      BY <1>4, <3>1, <3>5
    <3>10. w' = w /\ \A i, j \in 1 .. Len(pipe') : i < j => Rank(pipe'[i].event) < Rank(pipe'[j].event)
      BY <1>2, <1>4, <3>2
    <3> QED
      BY <2>2, <3>7, <3>8, <3>9, <3>10 DEF InOrder
  <2>9. Patient'
    <3>1. \A e \in Phases : Spoken(e)' <=> Spoken(e)
      BY <1>2 DEF Spoken
    <3>2. CASE m.event = "RECEIPT"
      <4>1. \A e \in Phases : Spoken(e) => e \in mon.phases
        BY <2>3, <3>2 DEF Rank, Phases
      <4>2. m.receipt # NoReceipt
        <5>1. ReceiptOf(m.receipt)
          BY <1>1, <1>4, <1>5, <3>2 DEF Repeated
        <5> QED
          BY <5>1 DEF ReceiptOf, NoReceipt, Codes, Failures, None
      <4> QED
        BY <1>2, <1>7, <2>2, <2>5, <3>1, <3>2, <4>1, <4>2 DEF Patient
    <3>3. CASE m.event # "RECEIPT"
      <4>1. w.pc \in {"return", "gone"} => mon.payload # NoReceipt \/ \E i \in 1 .. Len(pipe') : pipe'[i].event = "RECEIPT"
        <5> SUFFICES ASSUME w.pc \in {"return", "gone"}, mon.payload = NoReceipt
                     PROVE  \E i \in 1 .. Len(pipe') : pipe'[i].event = "RECEIPT"
          OBVIOUS
        <5>1. PICK i \in 1 .. Len(pipe) : pipe[i].event = "RECEIPT"
          BY <2>2 DEF Patient
        <5>2. PICK j \in 1 .. n : i = j + 1
          BY <1>4, <1>5, <3>3, <5>1
        <5> QED
          BY <1>4, <5>1, <5>2
      <4> QED
        BY <1>2, <1>7, <2>2, <2>5, <3>1, <3>3, <4>1 DEF Patient
    <3> QED
      BY <3>2, <3>3
  <2> QED
    BY <2>6, <2>8, <2>9 DEF Undisturbed
<1> QED
  BY <1>8, <1>9, <1>10

\* A fatal disturbance bars an N2 verdict: the monitor's result is not allowed, or the
\* evidence is not complete.
LEMMA FatalFails ==
  ASSUME Marked, Repeated, sup = "close", line = "N2", Happened(Fatal \ {"unkillable"})
  PROVE  Verdict(TRUE) = "FAILED"
<1>1. ~ (Allowed(TRUE) /\ Evidence(mon.payload))
  <2> SUFFICES ASSUME Allowed(TRUE), Evidence(mon.payload) PROVE FALSE
    OBVIOUS
  <2>1. /\ mon.ran /\ mon.payload # NoReceipt /\ ~ mon.malformed /\ ~ mon.forced /\ w.exit = "zero"
        /\ AllClean \ {"child"} \subseteq mon.payload.clean
    BY DEF Allowed, Evidence, Reported
  <2>2. {"reader", "pipe", "zero", "rest"} \subseteq w.clean
    BY <2>1 DEF Repeated, ReceiptOf, AllClean
  <2>3. PICK d \in Fatal \ {"unkillable"} : d \in disturbed
    BY DEF Happened
  <2>4. d \in {"engine", "device", "spawn"}
    BY <2>1, <2>2, <2>3 DEF Marked, Happened, Fatal
  <2> QED
    BY <2>2, <2>3, <2>4 DEF Marked, Happened
<1> QED
  BY <1>1 DEF Verdict, N2Verdict

\* The verdict on an attempt whose child would not end, and which nothing else disturbed.
LEMMA UnendedVerdict ==
  ASSUME Marked, Repeated, Unended, sup = "close", line = "N2", disturbed = {"unkillable"}
  PROVE  Verdict(TRUE) \in {"CLEANUP_INCOMPLETE", "FAILED"}
<1>1. CASE ~ (Allowed(TRUE) /\ Evidence(mon.payload))
  BY <1>1 DEF Verdict, N2Verdict
<1>2. CASE Allowed(TRUE) /\ Evidence(mon.payload)
  <2>1. mon.payload # NoReceipt /\ w.exit = "zero"
    BY <1>2 DEF Allowed, Reported
  <2>2. w.failure = "CLEANUP_INCOMPLETE"
    BY <2>1 DEF Unended
  <2>3. mon.payload.code = "CLEANUP_INCOMPLETE"
    BY <2>1, <2>2 DEF Repeated, ReceiptOf, None
  <2>4. N2Code(mon.payload.code) = "CLEANUP_INCOMPLETE"
    BY <2>3 DEF N2Code
  <2> QED
    BY <1>2, <2>4 DEF Verdict, N2Verdict
<1> QED
  BY <1>1, <1>2

\* A quiet attempt ends with the code that its failure stands for.
LEMMA QuietVerdict ==
  ASSUME DiagInv, sup = "close", Quiet
  PROVE  /\ Verdict(TRUE) = N2Code(mon.payload.code)
         /\ mon.payload.code = IF w.failure # None THEN w.failure
                               ELSE IF "quality" \in disturbed THEN "QUALITY_INSUFFICIENT" ELSE "PASS"
<1>1. /\ Repeated /\ Unfailed /\ Swept /\ InOrder /\ Patient /\ line = "N2" /\ w \in WorkerType /\ mon \in Monitors
      /\ Stages
  BY DEF DiagInv, CaptureInv, CaptureTypes, Undisturbed, Quiet
<1>2. /\ mon.ran /\ mon.payload # NoReceipt /\ ~ mon.timed_out /\ ~ mon.malformed /\ ~ mon.forced /\ mon.drained
      /\ w.exit = "zero" /\ \A e \in Phases : Spoken(e) => e \in mon.phases
  BY <1>1 DEF Patient
<1>3. w.pc = "gone" /\ w.raw = FALSE /\ w.clean = AllClean
  <2>1. w.pc = "gone"
    BY <1>1, <1>2 DEF Stages
  <2>2. {"child", "reader", "pipe", "zero", "rest"} \subseteq w.clean /\ w.raw = FALSE
    BY <1>1, <2>1 DEF Swept, Tidying
  <2>3. w.clean \subseteq AllClean
    BY <1>1 DEF WorkerType
  <2> QED
    BY <2>1, <2>2, <2>3 DEF AllClean
<1>4. ReceiptOf(mon.payload)
  BY <1>1, <1>2 DEF Repeated
<1>5. {"AUTHORIZED", "PRIVACY_READY", "CAPTURE_STARTING", "CAPTURE_CLOSED"} \subseteq mon.phases
  BY <1>2, <1>3 DEF Spoken, Phases, Silent, Preparing
<1>6. Allowed(TRUE)
  BY <1>2, <1>5 DEF Allowed, Reported
<1>7. w.failure = None => mon.phases = Phases
  <2> SUFFICES ASSUME w.failure = None PROVE mon.phases = Phases
    OBVIOUS
  <2>1. w.last >= Preflight
    BY <1>1, <1>2 DEF Unfailed
  <2>2. w.last >= 0
    BY <1>1, <2>1, TimeAssumption DEF WorkerType
  <2>3. w.first
    BY <1>1, <2>2 DEF InOrder
  <2>4. "FIRST_FRAME" \in mon.phases
    BY <1>2, <2>3 DEF Spoken, Phases
  <2>5. mon.phases \subseteq Phases
    BY <1>1 DEF Monitors
  <2> QED
    BY <1>5, <2>4, <2>5 DEF Phases
<1>8. mon.payload.code = "PASS" => w.failure = None
  BY <1>1, <1>4, FailuresAreSome DEF ReceiptOf, WorkerType
<1>9. Evidence(mon.payload)
  BY <1>3, <1>4, <1>7, <1>8 DEF Evidence, ReceiptOf
<1> QED
  BY <1>1, <1>4, <1>6, <1>9 DEF Verdict, N2Verdict, ReceiptOf

\* The job is closed and the verdict given (CloseJob).
LEMMA CloseJobDiag ==
  ASSUME DiagInv, CloseJob
  PROVE  Marked' /\ Repeated' /\ (Quiet' => Undisturbed') /\ DiagnosisExact'
<1>1. /\ Marked /\ Repeated /\ w \in WorkerType /\ mon \in Monitors /\ pipe \in Seq(Messages)
      /\ child \in {None, "alive", "dead"} /\ Stages /\ Cleaned
  BY DEF DiagInv, CaptureInv, CaptureTypes
<1>2. /\ UNCHANGED <<line, window, inJob, pipe, rd, now>> /\ sup = "close" /\ sup' = "done"
      /\ UNCHANGED <<w, child>> \/ KillMembers
      /\ mon' = mon \/ mon' = [mon EXCEPT !.closed = TRUE]
      /\ \/ disturbed' = disturbed /\ KillMembers /\ verdict' = Verdict(TRUE)
         \/ disturbed' = disturbed \cup {"handle"} /\ verdict' = Verdict(FALSE)
  BY DEF CloseJob, Calm, Disturb
<1>3. \A f \in {"ran", "phases", "malformed", "payload", "timed_out", "drained", "forced"} : mon'[f] = mon[f]
  BY <1>1, <1>2 DEF Monitors
<1>4. /\ w'.clean = w.clean /\ w'.raw = w.raw /\ w'.failure = w.failure
      /\ w' = w \/ (w'.pc = "gone" /\ w'.exit = "killed" /\ w.pc # "gone")
      /\ child' = child \/ (child = "alive" /\ child' = "dead")
  BY <1>1, <1>2 DEF KillMembers, Killed, KilledChild, WorkerType
<1>5. line = "N2" => Verdict(FALSE) = "FAILED"
  BY DEF Verdict, N2Verdict, Allowed
<1>6. KillMembers => w'.pc = "gone"
  <2>1. inJob \/ w.pc = "gone"
    BY <1>1, <1>2 DEF Marked
  <2>2. w.pc # "absent"
    BY <1>1, <1>2 DEF Marked
  <2> QED
    BY <1>1, <2>1, <2>2 DEF KillMembers, Killed, WorkerType
<1>7. Marked'
  <2>1. CASE disturbed' = disturbed /\ KillMembers
    BY <1>1, <1>2, <1>3, <1>4, <1>6, <2>1 DEF Marked, Happened, Tidying, Silent, Preparing, None
  <2>2. CASE disturbed' = disturbed \cup {"handle"} /\ verdict' = Verdict(FALSE)
    <3>1. /\ UNCHANGED <<line, inJob, rd>> /\ sup' = "done" /\ "supervisor" \notin disturbed /\ w.pc # "absent"
          /\ mon'.ran = mon.ran /\ mon'.malformed = mon.malformed /\ mon'.forced = mon.forced
      BY <1>1, <1>2, <1>3 DEF Marked
    <3>2. line = "N2" => verdict' = "FAILED"
      BY <1>5, <2>2
    <3>3. "proceed" \in disturbed => ~ mon'.ran
      BY <1>1, <3>1 DEF Marked
    <3>4. w'.pc # "absent" /\ (w'.exit # None => w'.pc = "gone")
          /\ (Happened({"launch", "refused", "worker"}) => w'.exit \in {"killed", "nonzero"})
      BY <1>1, <1>4, <3>1 DEF Marked
    <3>5. /\ child' = None <=> rd'.pc = "off"
          /\ "pipe" \in w'.clean => child' # None
          /\ w'.pc \in Preparing => child' = None
          /\ Happened({"engine", "device", "spawn"}) => child' = None /\ w'.pc \in {"terminate"} \cup Tidying
      BY <1>1, <1>4, <3>1 DEF Marked, Tidying, Silent, Preparing, None
    <3>6. inJob' \/ w'.pc = "gone"
      BY <1>1, <1>2, <1>4, <3>1 DEF Marked
    <3>7. /\ "skew" \in disturbed => mon'.malformed
          /\ "terminate" \in disturbed => mon'.forced
      BY <1>1, <3>1 DEF Marked
    <3>8. /\ "unkillable" \in disturbed => "child" \notin w'.clean /\ w'.pc \in Tidying
          /\ "pipe" \in disturbed => "pipe" \notin w'.clean /\ w'.pc \in Tidying \ {"join"}
          /\ "stuck" \in disturbed => "reader" \notin w'.clean /\ w'.pc \in Tidying \ {"join"}
          /\ "leak" \in disturbed => "rest" \notin w'.clean /\ w'.pc \in {"report", "return", "gone"}
          /\ "reader" \in w'.clean \/ "pipe" \in w'.clean => w'.pc \in Tidying \ {"join"}
          /\ "rest" \in w'.clean => w'.pc \in {"report", "return", "gone"}
      BY <1>1, <1>4 DEF Marked, Tidying
    <3>9. disturbed' \subseteq Fatal \cup Benign \cup {"slow"} /\ line' \in {"N1", "N2"}
      BY <1>1, <2>2, <3>1 DEF Marked, Fatal
    <3>10. \A d \in disturbed' : d \in disturbed \/ d = "handle"
      BY <2>2
    <3>11. "handle" \in disturbed'
      BY <2>2
    <3> QED
      BY <3>1, <3>2, <3>3, <3>4, <3>5, <3>6, <3>7, <3>8, <3>9, <3>10, <3>11 DEF Marked, Happened
  <2> QED
    BY <1>2, <2>1, <2>2
<1>8. Repeated'
  BY <1>1, <1>2, <1>3, <1>4, RepeatedFrame
<1>9. ASSUME Quiet' PROVE Undisturbed'
  <2>1. Next
    BY DEF Next, Supervisor
  <2>2. /\ Timely /\ Attributed /\ Swept /\ InOrder /\ Patient
        /\ \A d \in Fatal \cup {"slow"} : d \notin disturbed'
    BY <1>9, <2>1, QuietBefore DEF DiagInv, Undisturbed
  <2>3. w.exit = "zero" /\ w.pc = "gone"
    BY <1>1, <1>2, <2>2 DEF Patient, Stages
  <2>4. w' = w /\ disturbed' = disturbed
    BY <1>2, <1>4, <2>2, <2>3 DEF Fatal
  <2>5. Timely' /\ Attributed' /\ Swept'
    BY <1>2, <2>2, <2>3, <2>4 DEF Timely, Attributed, Swept, Happened, Before, Preparing, Silent
  <2>6. InOrder'
    BY <1>2, <1>3, <2>2, <2>4 DEF InOrder, Spoken
  <2>7. Patient'
    BY <1>2, <1>3, <2>2, <2>4 DEF Patient, Spoken
  <2> QED
    BY <2>5, <2>6, <2>7 DEF Undisturbed
<1>10. DiagnosisExact'
  <2> SUFFICES ASSUME line = "N2", window >= Preflight + 2
               PROVE  /\ disturbed' = {} => verdict' = "PASS"
                      /\ \A d \in disturbed' : disturbed' = {d} /\ d # "slow" => verdict' \in Diagnoses(d)
    BY <1>2 DEF DiagnosisExact
  <2>1. CASE disturbed' = disturbed \cup {"handle"}
    <3>1. verdict' = "FAILED" \/ disturbed' = disturbed
      BY <1>2, <1>5
    <3>2. CASE verdict' = "FAILED"
      BY <2>1, <3>2 DEF Diagnoses
    <3>3. CASE disturbed' = disturbed
      <4>1. "handle" \in disturbed
        BY <2>1, <3>3
      <4> QED
        BY <1>1, <1>2, <4>1 DEF Marked
    <3> QED
      BY <3>1, <3>2, <3>3
  <2>2. CASE disturbed' = disturbed /\ verdict' = Verdict(TRUE)
    <3>1. CASE Happened(Fatal \ {"unkillable"})
      <4>1. verdict' = "FAILED"
        BY <1>1, <1>2, <2>2, <3>1, FatalFails
      <4>2. \A d \in disturbed : disturbed = {d} => d \in Fatal \ {"unkillable"}
        BY <3>1 DEF Happened
      <4>3. \A d \in Fatal \ {"unkillable"} : Diagnoses(d) = {"FAILED"}
        BY DEF Fatal, Diagnoses
      <4> QED
        BY <2>2, <3>1, <4>1, <4>2, <4>3 DEF Happened
    <3>4. CASE "unkillable" \in disturbed
      <4>1. disturbed = {"unkillable"} => verdict' \in Diagnoses("unkillable")
        BY <1>1, <1>2, <2>2, UnendedVerdict DEF Diagnoses, DiagInv
      <4> QED
        BY <2>2, <3>4, <4>1
    <3>5. Happened(Fatal) <=> Happened(Fatal \ {"unkillable"}) \/ "unkillable" \in disturbed
      BY DEF Happened, Fatal
    <3>2. CASE ~ Happened(Fatal) /\ "slow" \in disturbed
      BY <2>2, <3>2
    <3>3. CASE ~ Happened(Fatal) /\ "slow" \notin disturbed
      <4>1. Quiet
        BY <3>3 DEF Quiet, Happened
      <4>2. /\ verdict' = N2Code(mon.payload.code)
            /\ mon.payload.code = IF w.failure # None THEN w.failure
                                  ELSE IF "quality" \in disturbed THEN "QUALITY_INSUFFICIENT" ELSE "PASS"
        BY <1>2, <2>2, <4>1, QuietVerdict
      <4>3. Attributed /\ disturbed \subseteq Fatal \cup Benign \cup {"slow"}
        BY <1>1, <4>1 DEF DiagInv, Undisturbed, Marked
      <4>4. disturbed \subseteq Benign
        BY <3>3, <4>3 DEF Happened
      <4>5. /\ w.failure \in {None, "PRIVACY_STOP", "FRAME_STALLED", "POSE_ENGINE_EXCEPTION", "INPUT_UNAVAILABLE",
                              "INPUT_MALFORMED", "FRAME_READER_EXCEPTION"}
            /\ w.failure = "PRIVACY_STOP" => "person" \in disturbed
            /\ w.failure = "FRAME_STALLED" => "stall" \in disturbed
            /\ w.failure = "POSE_ENGINE_EXCEPTION" => "pose" \in disturbed
            /\ w.failure \in {"INPUT_UNAVAILABLE", "INPUT_MALFORMED", "FRAME_READER_EXCEPTION"} =>
                 "eof" \in disturbed \/ "short" \in disturbed \/ "exception" \in disturbed
            /\ "person" \in disturbed \/ "stall" \in disturbed \/ "pose" \in disturbed => w.failure # None
            /\ "quality" \in disturbed => w.failure = None
        BY <1>1, <4>3 DEF Attributed, Happened, Faults, Repeated
      <4>6. disturbed = {} => verdict' = "PASS"
        BY <4>2, <4>5 DEF N2Code, None
      <4>7. ASSUME NEW d \in disturbed, disturbed = {d} PROVE verdict' \in Diagnoses(d)
        <5>1. d \in Benign
          BY <4>4
        <5>2. CASE d = "person"
          BY <4>2, <4>5, <4>7, <5>2 DEF N2Code, Diagnoses, None
        <5>3. CASE d = "quality"
          BY <4>2, <4>5, <4>7, <5>3 DEF N2Code, Diagnoses, None
        <5>4. CASE d = "stall"
          BY <4>2, <4>5, <4>7, <5>4 DEF N2Code, Diagnoses, None
        <5>5. CASE d = "pose"
          BY <4>2, <4>5, <4>7, <5>5 DEF N2Code, Diagnoses, None
        <5>6. CASE d \in {"eof", "short", "exception"}
          BY <4>2, <4>5, <4>7, <5>6 DEF N2Code, Diagnoses, None
        <5> QED
          BY <5>1, <5>2, <5>3, <5>4, <5>5, <5>6 DEF Benign
      <4> QED
        BY <2>2, <4>6, <4>7
    <3> QED
      BY <3>1, <3>2, <3>3, <3>4, <3>5
  <2> QED
    BY <1>2, <2>1, <2>2
<1> QED
  BY <1>7, <1>8, <1>9, <1>10

\* What the worker reports of a child that would not end.
LEMMA UnendedStep ==
  ASSUME DiagInv, Next
  PROVE  Unended'
<1>1. /\ Marked /\ Unended /\ Stages /\ w \in WorkerType
      /\ disturbed \subseteq disturbed'
  BY Recorded DEF DiagInv, CaptureInv, CaptureTypes
<1>2. CASE WorkerTerminates
  <2>1. w'.pc = "join" /\ w'.failure = w.failure /\ w'.exit = w.exit /\ w.exit # "zero"
    BY <1>1, <1>2 DEF WorkerTerminates, WorkerType, Stages
  <2> QED
    BY <1>1, <2>1 DEF Unended
<1>3. CASE WorkerCloses
  <2>1. /\ w.pc = "close" /\ w.exit # "zero"
        /\ disturbed' = disturbed \/ disturbed' = disturbed \cup {"leak"}
    BY <1>1, <1>3 DEF WorkerCloses, Stages, Calm, Disturb
  <2>2. PICK rest \in {{}, {"rest"}} :
          LET clean == w.clean \cup rest
              swept == IF clean # AllClean /\ w.failure # "PRIVACY_STOP"
                       THEN "CLEANUP_INCOMPLETE" ELSE w.failure
              announce == {"pipe", "child", "reader"} \subseteq clean
              fail == IF announce /\ ~Emits("CAPTURE_CLOSED") /\ swept # "PRIVACY_STOP"
                      THEN "CAPTURE_RUNTIME_EXCEPTION" ELSE swept
          IN w' = [w EXCEPT !.pc = "report", !.clean = clean, !.failure = fail, !.closed = now]
    BY <1>3 DEF WorkerCloses
  <2> DEFINE c == w.clean \cup rest
             swept == IF c # AllClean /\ w.failure # "PRIVACY_STOP" THEN "CLEANUP_INCOMPLETE" ELSE w.failure
             announce == {"pipe", "child", "reader"} \subseteq c
             fail == IF announce /\ ~Emits("CAPTURE_CLOSED") /\ swept # "PRIVACY_STOP"
                     THEN "CAPTURE_RUNTIME_EXCEPTION" ELSE swept
  <2>5. w' = [w EXCEPT !.pc = "report", !.clean = c, !.failure = fail, !.closed = now]
    BY <2>2
  <2>6. /\ fail \in {"CLEANUP_INCOMPLETE", "CAPTURE_RUNTIME_EXCEPTION", w.failure}
        /\ "child" \notin c => fail \in {"CLEANUP_INCOMPLETE", "PRIVACY_STOP"}
        /\ "PRIVACY_STOP" = fail => w.failure = "PRIVACY_STOP"
    BY DEF AllClean
  <2>7. "child" \notin c <=> "child" \notin w.clean
    OBVIOUS
  <2> HIDE DEF fail, c
  <2>3. w'.failure = fail /\ w'.pc = "report" /\ w'.exit = w.exit
    BY <1>1, <2>5 DEF WorkerType
  <2>4. "unkillable" \in disturbed' => "child" \notin c
    BY <1>1, <2>1, <2>7 DEF Marked
  <2> QED
    BY <1>1, <2>1, <2>3, <2>4, <2>6 DEF Unended
<1>4. CASE WorkerBoot \/ WorkerLiveness \/ WorkerDevice \/ WorkerStart \/ WorkerTakes \/ WorkerStalls
           \/ WorkerInspects
  <2>1. /\ w.pc \notin Tidying
        /\ "unkillable" \in disturbed' => "unkillable" \in disturbed
    BY <1>1, <1>4 DEF WorkerBoot, WorkerLiveness, WorkerDevice, WorkerStart, WorkerTakes, WorkerStalls, WorkerInspects,
       Tidying, Calm, Disturb
  <2>2. "unkillable" \notin disturbed'
    BY <1>1, <2>1 DEF Marked
  <2>3. w'.failure = "PRIVACY_STOP" => w.failure = "PRIVACY_STOP" \/ "person" \in disturbed'
    <3>1. CASE WorkerBoot \/ WorkerLiveness \/ WorkerDevice \/ WorkerStart
      BY <1>1, <3>1 DEF WorkerBoot, WorkerLiveness, WorkerDevice, WorkerStart, WorkerType, FailsWith
    <3>2. CASE WorkerTakes
      <4>1. w'.failure # "PRIVACY_STOP"
        BY <1>1, <3>2 DEF WorkerTakes, WorkerType, None
      <4> QED
        BY <4>1
    <3>3. CASE WorkerStalls
      BY <1>1, <3>3 DEF WorkerStalls, WorkerType, FailsWith
    <3>4. CASE WorkerInspects
      BY <1>1, <3>4 DEF WorkerInspects, WorkerType, FailsWith, Disturb
    <3> QED
      BY <1>4, <3>1, <3>2, <3>3, <3>4
  <2> QED
    BY <1>1, <2>2, <2>3 DEF Unended
<1>5. CASE WorkerJoins \/ WorkerJoinTimesOut
  <2>1. w'.pc = "close" /\ w'.failure = w.failure /\ w'.exit = w.exit /\ w.exit # "zero"
    BY <1>1, <1>5 DEF WorkerJoins, WorkerJoinTimesOut, WorkerType, Stages
  <2> QED
    BY <1>1, <2>1 DEF Unended
<1>6. CASE WorkerReports \/ WorkerReturns
  <2>1. /\ w.pc \in {"report", "return"} /\ w'.failure = w.failure
        /\ "unkillable" \in disturbed' => "unkillable" \in disturbed
    BY <1>1, <1>6 DEF WorkerReports, WorkerReturns, WorkerType, Calm, Disturb
  <2> QED
    BY <1>1, <2>1 DEF Unended
<1>7. CASE Supervisor \/ LaunchFails \/ SupervisorCrash \/ WorkerCrash \/ ChildDiesLate \/ Reader \/ Tick
  <2> DEFINE Still == /\ \/ w' = w
                         \/ KillMembers
                         \/ \E p \in {"suspended", "boot"} : w' = [w EXCEPT !.pc = p]
                         \/ \E x \in {"killed", "nonzero"} : w' = [w EXCEPT !.pc = "gone", !.exit = x]
                      /\ "unkillable" \in disturbed' => "unkillable" \in disturbed
  <2>3. ASSUME Launch \/ Assign \/ Resume \/ Proceed \/ LaunchFails PROVE Still
    BY <2>3 DEF Launch, Assign, Resume, LaunchFails, Proceed, Calm, Disturb
  <2>4. ASSUME MonitorArms \/ MonitorTimesOut \/ MonitorSeesEnd PROVE Still
    BY <2>4 DEF MonitorArms, MonitorTimesOut, MonitorSeesEnd, Expires, Calm, Slow
  <2>5. ASSUME MonitorReads PROVE Still
    <3>1. UNCHANGED w
      BY <2>5 DEF MonitorReads
    <3>2. disturbed' = disturbed \/ disturbed' = disturbed \cup {"skew"}
      BY <2>5 DEF MonitorReads, Calm, Disturb
    <3> QED
      BY <3>1, <3>2
  <2>6. ASSUME DrainGracefully \/ DrainByForce \/ CloseJob PROVE Still
    BY <2>6 DEF DrainGracefully, DrainByForce, CloseJob, Calm, Slow, Disturb
  <2>7. ASSUME SupervisorCrash \/ WorkerCrash \/ ChildDiesLate \/ Tick PROVE Still
    BY <2>7 DEF SupervisorCrash, WorkerCrash, ChildDiesLate, Tick, Calm, Slow, Disturb
  <2>8. ASSUME Reader PROVE Still
    BY <2>8 DEF Reader, ReaderGets, ReaderFills, ReaderFillsShort, ReaderEnds, Calm, Disturb
  <2>1. Still
    BY <1>7, <2>3, <2>4, <2>5, <2>6, <2>7, <2>8 DEF Supervisor
  <2>2. /\ w'.failure = w.failure
        /\ w'.pc \in {"report", "return"} \/ w'.exit = "zero" =>
             w.pc \in {"report", "return"} \/ w.exit = "zero"
    BY <1>1, <2>1 DEF KillMembers, Killed, WorkerType
  <2> QED
    BY <1>1, <2>1, <2>2 DEF Unended
<1> QED
  BY <1>2, <1>3, <1>4, <1>5, <1>6, <1>7 DEF Next, Worker

\* A child that would not end dies after all (ChildDiesLate).
LEMMA LateDiag ==
  ASSUME DiagInv, ChildDiesLate
  PROVE  Marked' /\ Repeated' /\ (Quiet' => Undisturbed') /\ DiagnosisExact'
<1>1. /\ Marked /\ Repeated /\ DiagnosisExact /\ pipe \in Seq(Messages)
  BY DEF DiagInv, CaptureInv, CaptureTypes
<1>2. /\ UNCHANGED <<line, window, sup, mon, verdict, inJob, pipe, w, rd, now, disturbed>>
      /\ child = "alive" /\ child' = "dead" /\ "unkillable" \in disturbed
  BY DEF ChildDiesLate
<1>3. Marked'
  <2>1. child # None /\ child' # None
    BY <1>2 DEF None
  <2> QED
    BY <1>1, <1>2, <2>1 DEF Marked, Happened
<1>4. Repeated' /\ DiagnosisExact'
  BY <1>1, <1>2 DEF Repeated, ReceiptOf, DiagnosisExact
<1>5. ~ Quiet'
  BY <1>2 DEF Quiet, Happened, Fatal
<1> QED
  BY <1>3, <1>4, <1>5

\* Once the verdict is given nothing moves but what a job left open leaves running.
LEMMA VerdictStays ==
  ASSUME DiagInv, Next, ~ CloseJob, ~ ChildDiesLate
  PROVE  DiagnosisExact'
<1>1. Marked /\ Stages /\ DiagnosisExact
  BY DEF DiagInv, CaptureInv
<1>2. sup' = "done" => sup = "done"
  BY DEF Next, Supervisor, Worker, Reader, Launch, Assign, Resume, LaunchFails, Proceed, MonitorArms, MonitorTimesOut,
     MonitorSeesEnd, MonitorReads, DrainGracefully, DrainByForce, SupervisorCrash, WorkerBoot, WorkerLiveness,
     WorkerDevice, WorkerStart, WorkerTakes, WorkerStalls, WorkerInspects, WorkerTerminates, WorkerJoins,
     WorkerJoinTimesOut, WorkerCloses, WorkerReports, WorkerReturns, WorkerCrash, ReaderGets, ReaderFills,
     ReaderFillsShort, ReaderEnds, Tick
<1>3. CASE sup # "done"
  BY <1>2, <1>3 DEF DiagnosisExact
<1>4. CASE sup = "done"
  <2>1. ~ (Supervisor \/ LaunchFails \/ SupervisorCrash \/ Tick)
    BY <1>4 DEF Supervisor, Launch, Assign, Resume, LaunchFails, Proceed, MonitorArms, MonitorTimesOut,
       MonitorSeesEnd, MonitorReads, DrainGracefully, DrainByForce, CloseJob, SupervisorCrash, Tick
  <2>2. w.pc # "gone" /\ verdict' = verdict
    <3>1. CASE Worker
      BY <3>1 DEF Worker, WorkerBoot, WorkerLiveness, WorkerDevice, WorkerStart, WorkerTakes, WorkerStalls,
         WorkerInspects, WorkerTerminates, WorkerJoins, WorkerJoinTimesOut, WorkerCloses, WorkerReports, WorkerReturns
    <3>2. CASE WorkerCrash \/ Reader
      BY <3>2 DEF WorkerCrash, Reader, ReaderGets, ReaderFills, ReaderFillsShort, ReaderEnds, Alive
    <3> QED
      BY <2>1, <3>1, <3>2 DEF Next
  <2>3. "handle" \in disturbed /\ (line = "N2" => verdict = "FAILED")
    BY <1>1, <1>4, <2>2 DEF Marked
  <2>4. "handle" \in disturbed' /\ line' = line
    BY <2>3, Recorded
  <2> QED
    BY <2>2, <2>3, <2>4 DEF DiagnosisExact, Diagnoses
<1> QED
  BY <1>3, <1>4

\* The attempt begins in the invariant.
LEMMA DiagBegins == Init => DiagInv
<1> SUFFICES ASSUME Init PROVE DiagInv
  OBVIOUS
<1>1. CaptureInv
  BY CaptureBegins
<1>2. /\ disturbed = {} /\ sup = "launch" /\ child = None /\ rd.pc = "off" /\ w.pc = "absent" /\ w.exit = None
      /\ w.clean = {} /\ mon.ran = FALSE /\ mon.payload = NoReceipt /\ mon.phases = {} /\ pipe = <<>> /\ Len(pipe) = 0
      /\ line \in {"N1", "N2"} /\ w.first = FALSE /\ w.failure = None /\ w.last = -1 /\ w.at = -1 /\ now = 0
      /\ rd.ready = <<>> /\ Len(rd.ready) = 0 /\ rd.free = <<0, 1>>
      /\ mon.timed_out = FALSE /\ mon.malformed = FALSE /\ mon.forced = FALSE
  BY LinesAssumption DEF Init
<1>3. Marked /\ Unended /\ Repeated
  BY <1>2 DEF Marked, Unended, Repeated, Happened, Silent, Preparing, None
<1>4. Timely
  BY <1>2, TimeAssumption DEF Timely
<1>5. Attributed
  <2>1. Len(rd.free) = 2 /\ rd.free[1] = 0 /\ rd.free[2] = 1
    BY <1>2
  <2> QED
    BY <1>2, <2>1 DEF Attributed, Happened, Buffers, None
<1>6. Swept /\ InOrder /\ Patient
  BY <1>2 DEF Swept, InOrder, Patient, Spoken, Silent, Preparing, Tidying, Phases, None
<1>7. DiagnosisExact
  BY <1>2 DEF DiagnosisExact
<1> QED
  BY <1>1, <1>3, <1>4, <1>5, <1>6, <1>7 DEF DiagInv, Undisturbed

\* Every step keeps it.
LEMMA DiagStep == DiagInv /\ [Next]_vars => DiagInv'
<1> SUFFICES ASSUME DiagInv, [Next]_vars PROVE DiagInv'
  OBVIOUS
<1>1. CaptureInv'
  BY CaptureStep DEF DiagInv
<1>2. CASE Next
  <2>1. Marked' /\ Repeated' /\ (Quiet' => Undisturbed')
    <3>1. CASE Supervisor
      BY <3>1, LaunchDiag, WaitDiag, ReadDiag, DrainDiag, CloseJobDiag DEF Supervisor
    <3>2. CASE LaunchFails \/ SupervisorCrash \/ WorkerCrash \/ ChildDiesLate \/ Tick
      BY <3>2, LaunchDiag, WaitDiag, ReturnDiag, LateDiag
    <3>3. CASE Worker
      BY <3>3, BeginDiag, TakeDiag, InspectDiag, TidyDiag, CloseDiag, ReportDiag, ReturnDiag DEF Worker
    <3>4. CASE Reader
      BY <3>4, GetDiag, PutDiag DEF Reader
    <3> QED
      BY <1>2, <3>1, <3>2, <3>3, <3>4 DEF Next
  <2>2. DiagnosisExact'
    BY <1>2, CloseJobDiag, LateDiag, VerdictStays
  <2>3. Unended'
    BY <1>2, UnendedStep
  <2> QED
    BY <1>1, <2>1, <2>2, <2>3 DEF DiagInv
<1>3. CASE UNCHANGED vars
  <2>1. Marked' /\ Unended' /\ Repeated' /\ DiagnosisExact' /\ (Quiet' <=> Quiet)
    BY <1>3 DEF vars, DiagInv, Marked, Unended, Repeated, ReceiptOf, DiagnosisExact, Quiet, Happened
  <2>2. Undisturbed => Undisturbed'
    BY <1>3 DEF vars, Undisturbed, Timely, Attributed, Swept, InOrder, Patient, Spoken, Happened
  <2> QED
    BY <1>1, <2>1, <2>2 DEF DiagInv
<1> QED
  BY <1>2, <1>3

\* When the window leaves the worker time to close, an N2 attempt with no disturbance
\* passes, and one with a single disturbance ends with that disturbance's code: no cleanup
\* step, no drain and no protocol check replaces it (_monitor_capture_worker, the driver's
\* verdict, the coarser codes of an N2 receipt).
THEOREM DiagnosisExactInvariant == Spec => []DiagnosisExact
<1>1. DiagInv => DiagnosisExact
  BY DEF DiagInv
<1> QED
  BY DiagBegins, DiagStep, <1>1, PTL DEF Spec

==============================================================================
