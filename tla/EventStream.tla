---------------------------- MODULE EventStream ----------------------------
(***************************************************************************)
(* The reviewer's event stream of one exam session (services/core.py and   *)
(* the publishing half of m1.py): persisted events, their fan-out to       *)
(* bounded subscriber queues, the generator behind /api/v1/events/stream,  *)
(* and a monitor that reconnects with the last event_seq it saw.           *)
(*                                                                         *)
(* Who runs concurrently.  The generators and the monitor's async request  *)
(* handlers are tasks of one event loop: between committing an event and   *)
(* the end of its fan-out a handler does not yield, so no generator runs   *)
(* in between.  The candidate's server has a thread and a loop of its own, *)
(* and the workspace's handlers are plain functions run in pool threads:   *)
(* they interleave with the monitor's loop and with each other, and they   *)
(* walk a subscriber list that the loop changes under their hands.         *)
(***************************************************************************)
EXTENDS Naturals, Sequences, FiniteSets

CONSTANTS Pool,            \* the candidate server's thread and the handler pool's
          Loop,            \* the thread of the monitor's event loop
          Clients,         \* monitors
          QueueSize,       \* subscriber_queue_size
          MaxSubscribers,  \* max_subscribers_per_session
          MaxEvents,       \* bound: events persisted for the session
          RuntimeLinked    \* the session is linked to a runtime session

Threads == Pool \cup {Loop}

ASSUME SizeAssumption == QueueSize \in Nat \ {0} /\ MaxSubscribers \in Nat /\ MaxEvents \in Nat
ASSUME ThreadAssumption == Loop \notin Pool /\ RuntimeLinked \in BOOLEAN
ASSUME ClientAssumption == IsFiniteSet(Clients)

VARIABLES
  log,         \* sessions.event_seq; the events 1 .. log are persisted
  pending,     \* by thread: the event committed and not yet fanned out, or 0
  at,          \* by thread: how many subscribers its fan-out has passed
  reconciled,  \* the exam state was closed after its runtime session
  conn,        \* by client: the request and its generator
  subscribers, \* _subscribers[session_id], a list
  queue,       \* the subscriber's queue
  stale,       \* membership in _stale_subscribers
  last,        \* last_delivered
  replayTo,    \* the last event of the events_after list being yielded
  after,       \* the client's afterEventSeq
  received,    \* the client's received set
  dropped,     \* history: events refused by the client's full queue
  unpublished, \* history: events persisted and never fanned out
  late,        \* history: events fanned out after a later one
  disturbed    \* history: events during whose fan-out a subscriber left

writer  == <<log, pending, at, reconciled>>
server  == <<conn, subscribers, queue, stale, last, replayTo>>
client  == <<after, received>>
history == <<dropped, unpublished, late, disturbed>>
vars    == <<writer, server, client, history>>

Events == 1 .. MaxEvents

Init ==
  /\ log = 0
  /\ pending = [t \in Threads |-> 0]
  /\ at = [t \in Threads |-> 0]
  /\ reconciled = FALSE
  /\ conn = [c \in Clients |-> "closed"]
  /\ subscribers = <<>>
  /\ queue = [c \in Clients |-> <<>>]
  /\ stale = [c \in Clients |-> FALSE]
  /\ last = [c \in Clients |-> 0]
  /\ replayTo = [c \in Clients |-> 0]
  /\ after = [c \in Clients |-> 0]
  /\ received = [c \in Clients |-> {}]
  /\ dropped = [c \in Clients |-> {}]
  /\ unpublished = {}
  /\ late = {}
  /\ disturbed = {}

------------------------------------------------------------------------------
(* Writers *)

\* A mutation commits its event: apply_session_action, record_answer, submit_exam,
\* append_event and the others share this shape.
commit_event(t) ==
  /\ log < MaxEvents
  /\ pending[t] = 0
  /\ log' = log + 1
  /\ pending' = [pending EXCEPT ![t] = log + 1]
  /\ at' = [at EXCEPT ![t] = 0]
  /\ UNCHANGED <<reconciled, server, client, history>>

\* The fan-out of a later event has begun, or is over, before that of e is.
Overtaken(e) ==
  \E f \in (e + 1 .. log) \ unpublished :
    \A u \in Threads : pending[u] = f => at[u] > 0

\* _fanout, one turn of its loop: put_nowait into the next subscriber's queue; a full one
\* marks it stale.
fanout(t) ==
  /\ pending[t] # 0
  /\ at[t] < Len(subscribers)
  /\ at' = [at EXCEPT ![t] = @ + 1]
  /\ LET c == subscribers[at[t] + 1]
     IN  \/ /\ Len(queue[c]) < QueueSize
            /\ queue' = [queue EXCEPT ![c] = Append(@, pending[t])]
            /\ UNCHANGED <<stale, dropped>>
         \/ /\ Len(queue[c]) >= QueueSize
            /\ stale' = [stale EXCEPT ![c] = TRUE]
            /\ dropped' = [dropped EXCEPT ![c] = @ \cup {pending[t]}]
            /\ UNCHANGED queue
  /\ late' = IF Overtaken(pending[t]) THEN late \cup {pending[t]} ELSE late
  /\ UNCHANGED <<log, pending, reconciled, conn, subscribers, last, replayTo, client,
                 unpublished, disturbed>>

\* The end of the list, as long as it is now.
fanout_end(t) ==
  /\ pending[t] # 0
  /\ at[t] >= Len(subscribers)
  /\ pending' = [pending EXCEPT ![t] = 0]
  /\ at' = [at EXCEPT ![t] = 0]
  /\ late' = IF Overtaken(pending[t]) THEN late \cup {pending[t]} ELSE late
  /\ UNCHANGED <<log, reconciled, server, client, dropped, unpublished, disturbed>>

\* WorkspaceBackend._reconcile_runtime closes the exam state once its runtime session
\* has ended.  It writes the event and publishes nothing.
reconcile_runtime ==
  /\ RuntimeLinked
  /\ ~ reconciled
  /\ log < MaxEvents
  /\ log' = log + 1
  /\ reconciled' = TRUE
  /\ unpublished' = unpublished \cup {log + 1}
  /\ UNCHANGED <<pending, at, server, client, dropped, late, disturbed>>

------------------------------------------------------------------------------
(* The generator *)

\* The event loop is not inside a handler.
LoopFree == pending[Loop] = 0

subscriber_slots_available == Len(subscribers) < MaxSubscribers

\* The route checks the slots before the response body starts.
request_stream(c) ==
  /\ LoopFree
  /\ conn[c] = "closed"
  /\ subscriber_slots_available
  /\ conn' = [conn EXCEPT ![c] = "requested"]
  /\ UNCHANGED <<writer, subscribers, queue, stale, last, replayTo, client, history>>

Subscribe(c) ==
  /\ conn' = [conn EXCEPT ![c] = "snapshot"]
  /\ subscribers' = Append(subscribers, c)
  /\ queue' = [queue EXCEPT ![c] = <<>>]
  /\ last' = [last EXCEPT ![c] = after[c]]

\* The queue is registered and the snapshot yielded; a full house ends the stream.
subscribe(c) ==
  /\ LoopFree
  /\ conn[c] = "requested"
  /\ \/ subscriber_slots_available /\ Subscribe(c)
     \/ /\ ~ subscriber_slots_available
        /\ conn' = [conn EXCEPT ![c] = "closed"]
        /\ UNCHANGED <<subscribers, queue, last>>
  /\ UNCHANGED <<writer, stale, replayTo, client, history>>

\* mutant: a monitor that resumes gets live events only
events_after_none(c) ==
  /\ LoopFree
  /\ conn[c] = "snapshot"
  /\ replayTo' = [replayTo EXCEPT ![c] = last[c]]
  /\ conn' = [conn EXCEPT ![c] = "replay"]
  /\ UNCHANGED <<writer, subscribers, queue, stale, last, client, history>>

\* events_after(last_delivered): the whole list is read at once.
events_after(c) ==
  /\ LoopFree
  /\ conn[c] = "snapshot"
  /\ replayTo' = [replayTo EXCEPT ![c] = log]
  /\ conn' = [conn EXCEPT ![c] = "replay"]
  /\ UNCHANGED <<writer, subscribers, queue, stale, last, client, history>>

\* The client's handleMessage.
Receive(c, e) ==
  /\ received' = [received EXCEPT ![c] = @ \cup {e}]
  /\ after' = [after EXCEPT ![c] = IF e > @ THEN e ELSE @]

\* mutant: the last persisted event is left to the queue
replay_short(c) ==
  /\ LoopFree
  /\ conn[c] = "replay"
  /\ \/ /\ last[c] + 1 < replayTo[c]
        /\ last' = [last EXCEPT ![c] = @ + 1]
        /\ Receive(c, last[c] + 1)
        /\ UNCHANGED conn
     \/ /\ last[c] + 1 >= replayTo[c]
        /\ conn' = [conn EXCEPT ![c] = "live"]
        /\ UNCHANGED <<last, client>>
  /\ UNCHANGED <<writer, subscribers, queue, stale, replayTo, history>>

replay_event(c) ==
  /\ LoopFree
  /\ conn[c] = "replay"
  /\ \/ /\ last[c] < replayTo[c]
        /\ last' = [last EXCEPT ![c] = @ + 1]
        /\ Receive(c, last[c] + 1)
        /\ UNCHANGED <<conn, replayTo>>
     \/ /\ last[c] >= replayTo[c]
        /\ conn' = [conn EXCEPT ![c] = "live"]
        /\ replayTo' = [replayTo EXCEPT ![c] = 0]
        /\ UNCHANGED <<last, client>>
  /\ UNCHANGED <<writer, subscribers, queue, stale, history>>

live_event(c) ==
  /\ LoopFree
  /\ conn[c] = "live"
  /\ queue[c] # <<>>
  /\ queue' = [queue EXCEPT ![c] = Tail(@)]
  /\ \/ /\ Head(queue[c]) > last[c]
        /\ last' = [last EXCEPT ![c] = Head(queue[c])]
        /\ Receive(c, Head(queue[c]))
     \/ /\ Head(queue[c]) <= last[c]
        /\ UNCHANGED <<last, client>>
  /\ UNCHANGED <<writer, conn, subscribers, stale, replayTo, history>>

\* subscribers.remove(queue), of a queue that is in the list.
Without(c) ==
  LET p == CHOOSE i \in DOMAIN subscribers : subscribers[i] = c
  IN  [i \in 1 .. Len(subscribers) - 1 |-> subscribers[IF i < p THEN i ELSE i + 1]]

\* The finally clause.  Whoever comes after c in the list moves up, also past the
\* position of a fan-out in progress.  The generator's locals are gone.
Close(c) ==
  /\ conn' = [conn EXCEPT ![c] = "closed"]
  /\ subscribers' = IF \E i \in DOMAIN subscribers : subscribers[i] = c THEN Without(c) ELSE subscribers
  /\ queue' = [queue EXCEPT ![c] = <<>>]
  /\ stale' = [stale EXCEPT ![c] = FALSE]
  /\ last' = [last EXCEPT ![c] = 0]
  /\ replayTo' = [replayTo EXCEPT ![c] = 0]
  /\ disturbed' = disturbed \cup {pending[t] : t \in {u \in Threads :
                                     \E i \in 1 .. at[u] \cap DOMAIN subscribers : subscribers[i] = c}}
  /\ UNCHANGED <<writer, client, dropped, unpublished, late>>

\* A heartbeat passes with nothing queued: only now is an overflow noticed.
heartbeat(c) ==
  /\ LoopFree
  /\ conn[c] = "live"
  /\ queue[c] = <<>>
  /\ stale[c]
  /\ Close(c)

\* The connection breaks, the client leaves, or its bearer is no longer valid.
disconnect(c) ==
  /\ LoopFree
  /\ conn[c] # "closed"
  /\ Close(c)

------------------------------------------------------------------------------
Generate(c) == \/ subscribe(c) \/ events_after(c) \/ replay_event(c)
               \/ live_event(c) \/ heartbeat(c)

Publish(t) == fanout(t) \/ fanout_end(t)

Next ==
  \/ \E t \in Threads : commit_event(t) \/ Publish(t)
  \/ reconcile_runtime
  \/ \E c \in Clients : request_stream(c) \/ Generate(c) \/ disconnect(c)

Spec == Init /\ [][Next]_vars

\* A handler that committed goes on to publish, and the loop keeps serving a
\* generator that has something to do.
FairSpec ==
  /\ Spec
  /\ \A t \in Threads : WF_vars(Publish(t))
  /\ \A c \in Clients : SF_vars(Generate(c))

------------------------------------------------------------------------------
(* Properties *)

\* Every variable has its type; a queue is never longer than subscriber_queue_size.
TypeOK ==
  /\ log \in 0 .. MaxEvents
  /\ pending \in [Threads -> 0 .. log]
  /\ at \in [Threads -> 0 .. Cardinality(Clients)]
  /\ reconciled \in BOOLEAN
  /\ conn \in [Clients -> {"closed", "requested", "snapshot", "replay", "live"}]
  /\ subscribers \in Seq(Clients)
  /\ queue \in [Clients -> Seq(1 .. log)]
  /\ \A c \in Clients : Len(queue[c]) <= QueueSize
  /\ stale \in [Clients -> BOOLEAN]
  /\ last \in [Clients -> 0 .. log]
  /\ replayTo \in [Clients -> 0 .. log]
  /\ after \in [Clients -> 0 .. log]
  /\ received \in [Clients -> SUBSET (1 .. log)]
  /\ dropped \in [Clients -> SUBSET (1 .. log)]
  /\ unpublished \in SUBSET (1 .. log)
  /\ late \in SUBSET (1 .. log)
  /\ disturbed \in SUBSET (1 .. log)

\* What may be missing below a monitor's resume point: an event that its full queue
\* refused, one that is never published, one that another thread overtook, one during
\* whose fan-out another monitor left.
Excused(c) ==
  dropped[c] \cup unpublished \cup late \cup disturbed \cup {pending[t] : t \in Threads}

\* The hand-over from the persisted list to the live queue loses nothing: whatever
\* else the monitor has not received below the point it resumes from is Excused.
LossExplained ==
  \A c \in Clients : \A e \in 1 .. after[c] : e \in received[c] \/ e \in Excused(c)

\* A monitor that stays connected gets every persisted event that is not Excused.
MonitorCatchesUp ==
  \A c \in Clients : \A e \in Events :
    conn[c] = "live" /\ e <= log ~>
      e \in received[c] \/ e \in Excused(c) \/ conn[c] = "closed"

\* FR-008, "recover missed events after reconnect": nothing below the sequence number
\* a monitor will resume from is missing.
MonitorComplete == \A c \in Clients : 1 .. after[c] \subseteq received[c]
============================================================================
