--------------------------- MODULE StreamProofs ---------------------------
(***************************************************************************)
(* The proof of LossExplained: what a monitor has not received below the   *)
(* event it resumes from was refused, never published, overtaken, or       *)
(* fanned out while another monitor left.                                  *)
(*                                                                         *)
(* The invariant follows one event to one monitor.  Above the last event   *)
(* delivered, an event is still to be fanned out, or it is Due: in the     *)
(* queue, in the list that is being replayed, or gone for a known reason.  *)
(* Below it, an event that is neither received nor gone is still to be     *)
(* fanned out, and a later one has been.                                   *)
(***************************************************************************)
EXTENDS EventStream, SequenceTheorems, TLAPS

Subscribed(c) == conn[c] \in {"snapshot", "replay", "live"}

\* The reasons that outlive a fan-out.
Gone(c) == dropped[c] \cup unpublished \cup late \cup disturbed

Pending(e) == \E t \in Threads : pending[t] = e

\* The fan-out of f has begun, or is over.
Started(f) ==
  /\ f \in 1 .. log
  /\ f \notin unpublished
  /\ \A u \in Threads : pending[u] = f => at[u] > 0

Queued(c, e) == \E i \in 1 .. Len(queue[c]) : queue[c][i] = e

\* c will still get e, or e is gone.
Due(c, e) ==
  \/ e \in Gone(c)
  \/ Queued(c, e)
  \/ conn[c] = "snapshot"
  \/ conn[c] = "replay" /\ e <= replayTo[c]

StreamTypes ==
  /\ log \in Nat
  /\ pending \in [Threads -> Nat]
  /\ at \in [Threads -> Nat]
  /\ conn \in [Clients -> {"closed", "requested", "snapshot", "replay", "live"}]
  /\ subscribers \in Seq(Clients)
  /\ queue \in [Clients -> Seq(Nat)]
  /\ last \in [Clients -> Nat]
  /\ replayTo \in [Clients -> 0 .. log]
  /\ after \in [Clients -> Nat]
  /\ received \in [Clients -> SUBSET Nat]
  /\ dropped \in [Clients -> SUBSET Nat]
  /\ unpublished \in SUBSET (1 .. log)
  /\ late \in SUBSET Nat
  /\ disturbed \in SUBSET Nat

\* A subscriber is in the list once, and nobody else is.
Registered ==
  /\ \A i, j \in 1 .. Len(subscribers) : subscribers[i] = subscribers[j] => i = j
  /\ \A i \in 1 .. Len(subscribers) : Subscribed(subscribers[i])
  /\ \A c \in Clients : Subscribed(c) => \E i \in 1 .. Len(subscribers) : subscribers[i] = c

\* Every event is fanned out by one thread, and has passed the head of the list only.
FanOuts ==
  /\ \A t \in Threads : pending[t] <= log
  /\ \A t \in Threads : pending[t] \notin unpublished
  /\ \A t, u \in Threads : pending[t] # 0 /\ pending[t] = pending[u] => t = u
  /\ \A t \in Threads : pending[t] # 0 => at[t] <= Len(subscribers) \/ pending[t] \in disturbed

\* A queue holds events whose fan-out has begun; one behind a later one is late, one that
\* the generator will drop as old is accounted for.
QueueSound(c) ==
  /\ Len(queue[c]) > 0 => Subscribed(c)
  /\ \A i \in 1 .. Len(queue[c]) :
       /\ Started(queue[c][i])
       /\ queue[c][i] <= last[c] => queue[c][i] \in received[c] \/ queue[c][i] \in Gone(c)
       /\ \A j \in 1 .. Len(queue[c]) : i < j /\ queue[c][j] < queue[c][i] => queue[c][j] \in late

\* Below the resume point.
Behind(c) ==
  /\ after[c] <= log
  /\ \A e \in 1 .. after[c] :
       e \in received[c] \/ e \in Gone(c) \/ (Pending(e) /\ Overtaken(e))

\* Above the last event delivered.
Ahead(c) ==
  Subscribed(c) => /\ after[c] = last[c]
                   /\ \A e \in last[c] + 1 .. log : Due(c, e) \/ Pending(e)

\* The subscribers that a fan-out has passed.
Passed(t) ==
  pending[t] # 0 =>
    \A i \in 1 .. Len(subscribers) :
      i <= at[t] /\ last[subscribers[i]] < pending[t] => Due(subscribers[i], pending[t])

StreamInv ==
  /\ StreamTypes
  /\ Registered
  /\ FanOuts
  /\ \A c \in Clients : QueueSound(c) /\ Behind(c) /\ Ahead(c)
  /\ \A t \in Threads : Passed(t)

-----------------------------------------------------------------------------
(* What a step of the writers leaves alone *)

\* A fan-out that has begun stays so; nobody takes an event of the log up again.
Onward ==
  /\ log <= log'
  /\ \A f \in 1 .. log : f \in unpublished' => f \in unpublished
  /\ \A f \in 1 .. log, u \in Threads : pending'[u] = f => pending[u] = f /\ at[u] <= at'[u]

\* Under such a step what has been started or overtaken stays so.
LEMMA StaysOvertaken ==
  ASSUME StreamTypes, StreamTypes', Onward
  PROVE  /\ \A f \in Nat : Started(f) => Started(f)'
         /\ \A e \in Nat : Overtaken(e) => Overtaken(e)'
<1>1. \A f \in Nat : Started(f) => Started(f)'
  BY DEF StreamTypes, Onward, Started
<1>2. ASSUME NEW e \in Nat, Overtaken(e)
      PROVE  Overtaken(e)'
  <2>1. PICK f \in (e + 1 .. log) \ unpublished : \A u \in Threads : pending[u] = f => at[u] > 0
    BY <1>2 DEF Overtaken
  <2>2. f \in Nat /\ Started(f) /\ f > e
    BY <2>1 DEF Started, StreamTypes
  <2>3. Started(f)'
    BY <2>2, <1>1
  <2>4. f \in (e + 1 .. log') \ unpublished' /\ \A u \in Threads : pending'[u] = f => at'[u] > 0
    BY <2>2, <2>3 DEF Started, StreamTypes
  <2> QED
    BY <2>4 DEF Overtaken
<1> QED
  BY <1>1, <1>2

\* An event with a later one whose fan-out has begun is overtaken.
LEMMA OvertakenBy ==
  ASSUME StreamTypes, NEW e \in Nat, NEW f \in Nat, e < f, Started(f)
  PROVE  Overtaken(e)
<1>1. f \in (e + 1 .. log) \ unpublished /\ \A u \in Threads : pending[u] = f => at[u] > 0
  BY DEF Started, StreamTypes
<1> QED
  BY <1>1 DEF Overtaken

\* Nothing of client d changes.
SameClient(d) ==
  /\ conn'[d] = conn[d]
  /\ queue'[d] = queue[d]
  /\ last'[d] = last[d]
  /\ replayTo'[d] = replayTo[d]
  /\ after'[d] = after[d]
  /\ received'[d] = received[d]

MoreGone == \A d \in Clients : Gone(d) \subseteq Gone(d)'

\* A client of which nothing changes is still due what it was due, and its queue is sound.
LEMMA ClientFrame ==
  ASSUME StreamTypes, StreamTypes', Onward, MoreGone, unpublished \subseteq unpublished', late \subseteq late',
         NEW d \in Clients, SameClient(d), QueueSound(d)
  PROVE  /\ QueueSound(d)'
         /\ \A e \in Nat : Due(d, e) => Due(d, e)'
<1>1. \A f \in Nat : Started(f) => Started(f)'
  BY StaysOvertaken
<1>2. Gone(d) \subseteq Gone(d)'
  BY DEF MoreGone
<1>3. \A e \in Nat : Due(d, e) => Due(d, e)'
  BY <1>2 DEF Due, Queued, SameClient
<1>4. queue[d] \in Seq(Nat) /\ \A i \in 1 .. Len(queue[d]) : queue[d][i] \in Nat
  BY DEF StreamTypes
<1>5. Subscribed(d) => Subscribed(d)'
  BY DEF Subscribed, SameClient
<1>6. QueueSound(d)'
  <2> SUFFICES ASSUME NEW i \in 1 .. Len(queue[d])
               PROVE  /\ Started(queue[d][i])'
                      /\ queue[d][i] <= last[d] => queue[d][i] \in received[d] \/ queue[d][i] \in Gone(d)'
                      /\ \A j \in 1 .. Len(queue[d]) : i < j /\ queue[d][j] < queue[d][i] => queue[d][j] \in late'
    BY <1>5 DEF QueueSound, SameClient
  <2>1. Started(queue[d][i])
    BY DEF QueueSound
  <2>2. Started(queue[d][i])'
    <3> DEFINE q == queue[d][i]
    <3>1. PICK f \in Nat : f = q
      BY <1>4
    <3>2. Started(f)
      BY <2>1, <3>1
    <3>3. Started(f)'
      BY <3>2, <1>1
    <3>4. queue'[d][i] = f
      BY <3>1 DEF SameClient
    <3> QED
      BY <3>3, <3>4, <3>1 DEF Started, SameClient
  <2> QED
    BY <2>2, <1>2 DEF QueueSound
<1> QED
  BY <1>3, <1>6

\* It has nothing missing below its resume point, provided that an overtaken event that is
\* no longer to be fanned out is gone.
LEMMA BehindFrame ==
  ASSUME StreamTypes, StreamTypes', Onward, MoreGone, NEW d \in Clients,
         after'[d] = after[d], received'[d] = received[d], Behind(d),
         \A e \in Nat \ {0} : Pending(e) /\ Overtaken(e) => Pending(e)' \/ e \in Gone(d)'
  PROVE  Behind(d)'
<1>1. \A e \in Nat : Overtaken(e) => Overtaken(e)'
  BY StaysOvertaken
<1>2. Gone(d) \subseteq Gone(d)'
  BY DEF MoreGone
<1>3. after'[d] <= log' /\ after[d] \in Nat
  BY DEF Behind, StreamTypes, Onward
<1>4. ASSUME NEW e \in 1 .. after[d]
      PROVE  e \in received[d] \/ e \in Gone(d)' \/ (Pending(e)' /\ Overtaken(e)')
  <2>1. e \in Nat \ {0}
    BY <1>3
  <2>2. CASE e \in received[d] \/ e \in Gone(d)
    BY <2>2, <1>2
  <2>3. CASE Pending(e) /\ Overtaken(e)
    BY <2>1, <2>3, <1>1
  <2> QED
    BY <2>2, <2>3 DEF Behind
<1> QED
  BY <1>3, <1>4 DEF Behind

\* And it will get what is to come, provided that what is no longer to be fanned out is due.
LEMMA AheadFrame ==
  ASSUME StreamTypes, StreamTypes', Onward, NEW d \in Clients, Ahead(d),
         conn'[d] = conn[d], last'[d] = last[d], after'[d] = after[d],
         \A e \in Nat : Due(d, e) => Due(d, e)',
         Subscribed(d) =>
           \A e \in Nat : (Pending(e) \/ e > log) /\ last[d] < e /\ e <= log' => Pending(e)' \/ Due(d, e)'
  PROVE  Ahead(d)'
<1> SUFFICES ASSUME Subscribed(d)'
             PROVE  /\ after'[d] = last'[d]
                    /\ \A e \in last'[d] + 1 .. log' : Due(d, e)' \/ Pending(e)'
  BY DEF Ahead
<1>1. Subscribed(d)
  BY DEF Subscribed
<1>2. last[d] \in Nat /\ log \in Nat /\ log' \in Nat /\ last'[d] = last[d]
  BY DEF StreamTypes
<1>3. ASSUME NEW e \in last[d] + 1 .. log'
      PROVE  Due(d, e)' \/ Pending(e)'
  <2>1. e \in Nat /\ last[d] < e
    BY <1>2
  <2>2. CASE e > log
    BY <1>1, <1>2, <2>1, <2>2
  <2>3. CASE ~ e > log
    <3>1. Due(d, e) \/ Pending(e)
      BY <1>1, <1>2, <2>1, <2>3 DEF Ahead
    <3> QED
      BY <3>1, <1>1, <1>2, <2>1
  <2> QED
    BY <2>2, <2>3
<1> QED
  BY <1>1, <1>2, <1>3 DEF Ahead

\* The list of subscribers stays.
LEMMA ListFrame ==
  ASSUME Registered, subscribers' = subscribers, \A d \in Clients : Subscribed(d)' <=> Subscribed(d),
         subscribers \in Seq(Clients)
  PROVE  Registered'
<1>1. \A i \in 1 .. Len(subscribers) : subscribers[i] \in Clients
  OBVIOUS
<1> QED
  BY <1>1 DEF Registered

\* What a fan-out has passed stays due.
LEMMA PassedFrame ==
  ASSUME StreamTypes, FanOuts, subscribers' = subscribers, NEW u \in Threads, Passed(u),
         pending'[u] = pending[u], at'[u] = at[u],
         \A d \in Clients : last[d] <= last'[d],
         \A d \in Clients : last'[d] \in Nat,
         \A d \in Clients : \A e \in 1 .. log : last'[d] < e /\ Due(d, e) => Due(d, e)'
  PROVE  Passed(u)'
<1> SUFFICES ASSUME NEW i \in 1 .. Len(subscribers), pending[u] # 0, i <= at[u],
                    last'[subscribers[i]] < pending[u]
             PROVE  Due(subscribers[i], pending[u])'
  BY DEF Passed
<1>1. subscribers[i] \in Clients /\ pending[u] \in 1 .. log
  BY DEF StreamTypes, FanOuts
<1>2. PICK d \in Clients, e \in 1 .. log : d = subscribers[i] /\ e = pending[u]
  BY <1>1
<1>3. last[d] \in Nat
  BY DEF StreamTypes
<1>4. Due(d, e)
  BY <1>2, <1>3 DEF Passed
<1>5. Due(d, e)'
  BY <1>2, <1>4
<1>6. d = subscribers'[i] /\ e = pending'[u]
  BY <1>2
<1> QED
  BY <1>5, <1>6 DEF Due, Gone, Queued

-----------------------------------------------------------------------------
(* The writers *)

\* A mutation commits its event (commit_event).
LEMMA CommitStep ==
  ASSUME SizeAssumption, StreamInv, NEW t \in Threads, commit_event(t)
  PROVE  StreamInv'
<1>1. /\ log' = log + 1 /\ pending[t] = 0
      /\ pending' = [pending EXCEPT ![t] = log + 1]
      /\ at' = [at EXCEPT ![t] = 0]
      /\ subscribers' = subscribers /\ conn' = conn /\ queue' = queue /\ last' = last /\ replayTo' = replayTo
      /\ after' = after /\ received' = received
      /\ dropped' = dropped /\ unpublished' = unpublished /\ late' = late /\ disturbed' = disturbed
  BY DEF commit_event, server, client, history
<1>2. StreamTypes /\ Registered /\ FanOuts
  BY DEF StreamInv
<1>3. StreamTypes'
  BY <1>1, <1>2 DEF StreamTypes
<1>4. /\ log \in Nat /\ pending \in [Threads -> Nat] /\ at \in [Threads -> Nat] /\ unpublished \subseteq 1 .. log
      /\ \A u \in Threads : pending[u] <= log
      /\ pending'[t] = log + 1 /\ at'[t] = 0
      /\ \A u \in Threads : u # t => pending'[u] = pending[u] /\ at'[u] = at[u]
  BY <1>1, <1>2 DEF StreamTypes, FanOuts
<1>5. Onward
  BY <1>1, <1>4 DEF Onward
<1>6. MoreGone /\ \A d \in Clients : SameClient(d)
  BY <1>1 DEF MoreGone, SameClient, Gone
<1>7. \A e \in Nat : Pending(e) /\ e # 0 => Pending(e)'
  BY <1>4, <1>1 DEF Pending
<1>8. \A e \in Nat : e > log /\ e <= log' => Pending(e)'
  BY <1>1, <1>4 DEF Pending
<1>9. Registered'
  BY <1>1, <1>2, ListFrame DEF Subscribed, StreamTypes
<1>10. FanOuts'
  <2>1. \A u \in Threads : pending'[u] <= log' /\ pending'[u] \notin unpublished'
    BY <1>1, <1>2, <1>4 DEF FanOuts
  <2>2. \A u, v \in Threads : pending'[u] # 0 /\ pending'[u] = pending'[v] => u = v
    BY <1>1, <1>2, <1>4 DEF FanOuts
  <2>3. \A u \in Threads : pending'[u] # 0 => at'[u] <= Len(subscribers') \/ pending'[u] \in disturbed'
    <3>1. Len(subscribers) \in Nat
      BY <1>2 DEF StreamTypes
    <3> QED
      BY <3>1, <1>1, <1>2, <1>4 DEF FanOuts
  <2> QED
    BY <2>1, <2>2, <2>3 DEF FanOuts
<1>11. ASSUME NEW d \in Clients
       PROVE  /\ QueueSound(d)' /\ Behind(d)' /\ Ahead(d)'
              /\ \A e \in Nat : Due(d, e) => Due(d, e)'
  <2>1. QueueSound(d) /\ Behind(d) /\ Ahead(d)
    BY DEF StreamInv
  <2>2. QueueSound(d)' /\ \A e \in Nat : Due(d, e) => Due(d, e)'
    BY <1>1, <1>2, <1>3, <1>5, <1>6, <2>1, ClientFrame
  <2>3. \A e \in Nat \ {0} : Pending(e) /\ Overtaken(e) => Pending(e)' \/ e \in Gone(d)'
    BY <1>7
  <2>4. Behind(d)'
    BY <1>1, <1>2, <1>3, <1>5, <1>6, <2>1, <2>3, BehindFrame
  <2>5. \A e \in Nat : (Pending(e) \/ e > log) /\ last[d] < e /\ e <= log' => Pending(e)' \/ Due(d, e)'
    <3>1. last[d] \in Nat
      BY <1>2 DEF StreamTypes
    <3> QED
      BY <3>1, <1>7, <1>8
  <2>6. Ahead(d)'
    BY <1>1, <1>2, <1>3, <1>5, <2>1, <2>2, <2>5, AheadFrame
  <2> QED
    BY <2>2, <2>4, <2>6
<1>12. \A u \in Threads : Passed(u)'
  <2> SUFFICES ASSUME NEW u \in Threads
               PROVE  Passed(u)'
    OBVIOUS
  <2>1. CASE u = t
    <3>1. Len(subscribers) \in Nat /\ at'[u] = 0
      BY <2>1, <1>2, <1>4 DEF StreamTypes
    <3> QED
      BY <3>1, <1>1 DEF Passed
  <2>2. CASE u # t
    <3>1. \A d \in Clients : last[d] <= last'[d] /\ last'[d] \in Nat
      BY <1>1, <1>2 DEF StreamTypes
    <3>2. Passed(u) /\ pending'[u] = pending[u] /\ at'[u] = at[u]
      BY <2>2, <1>4 DEF StreamInv
    <3> QED
      BY <3>1, <3>2, <1>1, <1>2, <1>11, PassedFrame
  <2> QED
    BY <2>1, <2>2
<1> QED
  BY <1>3, <1>9, <1>10, <1>11, <1>12 DEF StreamInv

\* The reconcile step persists an event that nobody publishes (reconcile_runtime).
LEMMA ReconcileStep ==
  ASSUME SizeAssumption, StreamInv, reconcile_runtime
  PROVE  StreamInv'
<1>1. /\ log' = log + 1
      /\ pending' = pending /\ at' = at
      /\ subscribers' = subscribers /\ conn' = conn /\ queue' = queue /\ last' = last /\ replayTo' = replayTo
      /\ after' = after /\ received' = received
      /\ dropped' = dropped /\ unpublished' = unpublished \cup {log + 1} /\ late' = late /\ disturbed' = disturbed
  BY DEF reconcile_runtime, server, client
<1>2. StreamTypes /\ Registered /\ FanOuts
  BY DEF StreamInv
<1>3. StreamTypes'
  BY <1>1, <1>2 DEF StreamTypes
<1>4. /\ log \in Nat /\ pending \in [Threads -> Nat] /\ at \in [Threads -> Nat] /\ unpublished \subseteq 1 .. log
      /\ \A u \in Threads : pending[u] <= log
  BY <1>1, <1>2 DEF StreamTypes, FanOuts
<1>5. Onward
  BY <1>1, <1>4 DEF Onward
<1>6. MoreGone /\ \A d \in Clients : SameClient(d)
  BY <1>1 DEF MoreGone, SameClient, Gone
<1>7. \A e : Pending(e) => Pending(e)'
  BY <1>1 DEF Pending
<1>8. \A d \in Clients : \A e \in Nat : e > log /\ e <= log' => Due(d, e)'
  BY <1>1, <1>4 DEF Due, Gone
<1>9. Registered'
  BY <1>1, <1>2, ListFrame DEF Subscribed, StreamTypes
<1>10. FanOuts'
  BY <1>1, <1>2, <1>4 DEF FanOuts
<1>11. ASSUME NEW d \in Clients
       PROVE  /\ QueueSound(d)' /\ Behind(d)' /\ Ahead(d)'
              /\ \A e \in Nat : Due(d, e) => Due(d, e)'
  <2>1. QueueSound(d) /\ Behind(d) /\ Ahead(d)
    BY DEF StreamInv
  <2>2. QueueSound(d)' /\ \A e \in Nat : Due(d, e) => Due(d, e)'
    BY <1>1, <1>2, <1>3, <1>5, <1>6, <2>1, ClientFrame
  <2>3. Behind(d)'
    BY <1>1, <1>2, <1>3, <1>5, <1>6, <1>7, <2>1, BehindFrame
  <2>4. \A e \in Nat : (Pending(e) \/ e > log) /\ last[d] < e /\ e <= log' => Pending(e)' \/ Due(d, e)'
    BY <1>7, <1>8
  <2>5. Ahead(d)'
    BY <1>1, <1>2, <1>3, <1>5, <2>1, <2>2, <2>4, AheadFrame
  <2> QED
    BY <2>2, <2>3, <2>5
<1>12. ASSUME NEW u \in Threads
       PROVE  Passed(u)'
  <2>1. \A d \in Clients : last[d] <= last'[d] /\ last'[d] \in Nat
    BY <1>1, <1>2 DEF StreamTypes
  <2>2. Passed(u) /\ pending'[u] = pending[u] /\ at'[u] = at[u]
    BY <1>1 DEF StreamInv
  <2> QED
    BY <2>1, <2>2, <1>1, <1>2, <1>11, PassedFrame
<1> QED
  BY <1>3, <1>9, <1>10, <1>11, <1>12 DEF StreamInv

\* A fan-out is over: whatever it was not put into is gone, or above what its reader knows
\* and due (fanout_end).
LEMMA FanoutEndStep ==
  ASSUME StreamInv, NEW t \in Threads, fanout_end(t)
  PROVE  StreamInv'
<1>1. /\ pending[t] # 0 /\ at[t] >= Len(subscribers)
      /\ pending' = [pending EXCEPT ![t] = 0]
      /\ at' = [at EXCEPT ![t] = 0]
      /\ late' = IF Overtaken(pending[t]) THEN late \cup {pending[t]} ELSE late
      /\ log' = log
      /\ subscribers' = subscribers /\ conn' = conn /\ queue' = queue /\ last' = last /\ replayTo' = replayTo
      /\ after' = after /\ received' = received
      /\ dropped' = dropped /\ unpublished' = unpublished /\ disturbed' = disturbed
  BY DEF fanout_end, server, client
<1>2. StreamTypes /\ Registered /\ FanOuts
  BY DEF StreamInv
<1>3. StreamTypes'
  BY <1>1, <1>2 DEF StreamTypes
<1>4. /\ log \in Nat /\ pending \in [Threads -> Nat] /\ at \in [Threads -> Nat]
      /\ pending'[t] = 0 /\ at'[t] = 0 /\ late \subseteq late'
      /\ \A u \in Threads : u # t => pending'[u] = pending[u] /\ at'[u] = at[u]
  BY <1>1, <1>2 DEF StreamTypes
<1>5. Onward
  BY <1>1, <1>4 DEF Onward
<1>6. MoreGone /\ \A d \in Clients : SameClient(d)
  BY <1>1, <1>4 DEF MoreGone, SameClient, Gone
<1>7. \A e \in Nat : Pending(e) => Pending(e)' \/ e = pending[t]
  BY <1>4 DEF Pending
<1>8. PICK own \in Nat : own = pending[t]
  BY <1>4
<1>9. Registered'
  BY <1>1, <1>2, ListFrame DEF Subscribed, StreamTypes
<1>10. FanOuts'
  <2>1. Len(subscribers) \in Nat /\ 0 \notin unpublished
    BY <1>2 DEF StreamTypes
  <2>2. \A u \in Threads : pending'[u] <= log' /\ pending'[u] \notin unpublished'
    BY <2>1, <1>1, <1>2, <1>4 DEF FanOuts
  <2>3. \A u, v \in Threads : pending'[u] # 0 /\ pending'[u] = pending'[v] => u = v
    BY <1>1, <1>2, <1>4 DEF FanOuts
  <2>4. \A u \in Threads : pending'[u] # 0 => at'[u] <= Len(subscribers') \/ pending'[u] \in disturbed'
    BY <1>1, <1>2, <1>4 DEF FanOuts
  <2> QED
    BY <2>2, <2>3, <2>4 DEF FanOuts
<1>11. ASSUME NEW d \in Clients
       PROVE  /\ QueueSound(d)' /\ Behind(d)' /\ Ahead(d)'
              /\ \A e \in Nat : Due(d, e) => Due(d, e)'
  <2>1. QueueSound(d) /\ Behind(d) /\ Ahead(d)
    BY DEF StreamInv
  <2>2. QueueSound(d)' /\ \A e \in Nat : Due(d, e) => Due(d, e)'
    BY <1>1, <1>2, <1>3, <1>4, <1>5, <1>6, <2>1, ClientFrame
  <2>3. \A e \in Nat \ {0} : Pending(e) /\ Overtaken(e) => Pending(e)' \/ e \in Gone(d)'
    BY <1>1, <1>7 DEF Gone
  <2>4. Behind(d)'
    BY <1>1, <1>2, <1>3, <1>5, <1>6, <2>1, <2>3, BehindFrame
  <2>5. Subscribed(d) /\ last[d] < own => Due(d, own)
    <3> SUFFICES ASSUME Subscribed(d), last[d] < own
                 PROVE  Due(d, own)
      OBVIOUS
    <3>1. PICK i \in 1 .. Len(subscribers) : subscribers[i] = d
      BY <1>2 DEF Registered
    <3>2. i <= at[t]
      BY <1>1, <1>2, <3>1 DEF StreamTypes
    <3>3. Passed(t)
      BY DEF StreamInv
    <3> QED
      BY <3>1, <3>2, <3>3, <1>1, <1>8 DEF Passed
  <2>6. Subscribed(d) =>
          \A e \in Nat : (Pending(e) \/ e > log) /\ last[d] < e /\ e <= log' => Pending(e)' \/ Due(d, e)'
    <3> SUFFICES ASSUME Subscribed(d), NEW e \in Nat, Pending(e) \/ e > log, last[d] < e, e <= log'
                 PROVE  Pending(e)' \/ Due(d, e)'
      OBVIOUS
    <3>1. Pending(e)
      BY <1>1, <1>4
    <3>2. CASE e = own
      BY <3>2, <2>2, <2>5
    <3>3. CASE e # own
      BY <3>1, <3>3, <1>7, <1>8
    <3> QED
      BY <3>2, <3>3
  <2>7. Ahead(d)'
    BY <1>1, <1>2, <1>3, <1>5, <2>1, <2>2, <2>6, AheadFrame
  <2> QED
    BY <2>2, <2>4, <2>7
<1>12. ASSUME NEW u \in Threads
       PROVE  Passed(u)'
  <2>1. CASE u = t
    BY <2>1, <1>4 DEF Passed
  <2>2. CASE u # t
    <3>1. \A d \in Clients : last[d] <= last'[d] /\ last'[d] \in Nat
      BY <1>1, <1>2 DEF StreamTypes
    <3>2. Passed(u) /\ pending'[u] = pending[u] /\ at'[u] = at[u]
      BY <2>2, <1>4 DEF StreamInv
    <3> QED
      BY <3>1, <3>2, <1>1, <1>2, <1>11, PassedFrame
  <2> QED
    BY <2>1, <2>2
<1> QED
  BY <1>3, <1>9, <1>10, <1>11, <1>12 DEF StreamInv

\* A turn of a fan-out: the event is put into the next queue or refused by it (fanout).
LEMMA FanoutStep ==
  ASSUME StreamInv, NEW t \in Threads, fanout(t)
  PROVE  StreamInv'
<1>2. StreamTypes /\ Registered /\ FanOuts
  BY DEF StreamInv
<1>4. /\ log \in Nat /\ pending \in [Threads -> Nat] /\ at \in [Threads -> Nat] /\ unpublished \subseteq 1 .. log
      /\ Len(subscribers) \in Nat /\ \A i \in 1 .. Len(subscribers) : subscribers[i] \in Clients
  BY <1>2 DEF StreamTypes
<1>7. at[t] + 1 \in 1 .. Len(subscribers) /\ pending[t] # 0
  BY <1>4 DEF fanout
<1>8. PICK c \in Clients, own \in Nat : c = subscribers[at[t] + 1] /\ own = pending[t]
  BY <1>4, <1>7
<1>1. /\ at' = [at EXCEPT ![t] = @ + 1]
      /\ late' = IF Overtaken(own) THEN late \cup {own} ELSE late
      /\ log' = log /\ pending' = pending
      /\ subscribers' = subscribers /\ conn' = conn /\ last' = last /\ replayTo' = replayTo
      /\ after' = after /\ received' = received /\ unpublished' = unpublished /\ disturbed' = disturbed
      /\ \/ queue' = [queue EXCEPT ![c] = Append(@, own)] /\ dropped' = dropped
         \/ queue' = queue /\ dropped' = [dropped EXCEPT ![c] = @ \cup {own}]
  BY <1>8 DEF fanout, client
<1>3. StreamTypes'
  <2>1. queue' \in [Clients -> Seq(Nat)] /\ dropped' \in [Clients -> SUBSET Nat]
    <3>1. queue \in [Clients -> Seq(Nat)] /\ dropped \in [Clients -> SUBSET Nat]
      BY <1>2 DEF StreamTypes
    <3>2. Append(queue[c], own) \in Seq(Nat) /\ dropped[c] \cup {own} \in SUBSET Nat
      BY <3>1
    <3> QED
      BY <3>1, <3>2, <1>1
  <2>2. late' \in SUBSET Nat
    BY <1>1, <1>2 DEF StreamTypes
  <2>3. /\ conn' \in [Clients -> {"closed", "requested", "snapshot", "replay", "live"}]
        /\ replayTo' \in [Clients -> 0 .. log'] /\ subscribers' \in Seq(Clients)
        /\ at' \in [Threads -> Nat] /\ pending' \in [Threads -> Nat]
    BY <1>1, <1>2 DEF StreamTypes
  <2> QED
    BY <2>1, <2>2, <2>3, <1>1, <1>2 DEF StreamTypes
<1>5. Onward
  BY <1>1, <1>4 DEF Onward
<1>6. /\ MoreGone /\ late \subseteq late' /\ \A d \in Clients : d # c => SameClient(d)
      /\ queue' = queue => SameClient(c)
  <2>1. late \subseteq late' /\ \A d \in Clients : dropped[d] \subseteq dropped'[d]
    BY <1>1, <1>2 DEF StreamTypes
  <2>2. \A d \in Clients : d # c => queue'[d] = queue[d]
    BY <1>1, <1>2 DEF StreamTypes
  <2> QED
    BY <1>1, <2>1, <2>2 DEF MoreGone, SameClient, Gone
<1>9. Registered'
  BY <1>1, <1>2, ListFrame DEF Subscribed, StreamTypes
<1>10. FanOuts'
  <2>1. at'[t] = at[t] + 1 /\ \A u \in Threads : u # t => at'[u] = at[u]
    BY <1>1, <1>4
  <2> QED
    BY <2>1, <1>1, <1>2, <1>4, <1>7 DEF FanOuts
<1>11. /\ Started(own)' /\ own <= log /\ own # 0
       /\ Subscribed(c) /\ after[c] = last[c] /\ QueueSound(c) /\ Behind(c)
  <2>1. \A u \in Threads : pending[u] = own => u = t
    BY <1>2, <1>7, <1>8 DEF FanOuts
  <2>2. own <= log /\ own \notin unpublished /\ own # 0 /\ at'[t] > 0
    BY <1>1, <1>2, <1>4, <1>7, <1>8 DEF FanOuts
  <2>3. Subscribed(c)
    BY <1>2, <1>7, <1>8 DEF Registered
  <2>4. \A u \in Threads : pending'[u] = own => at'[u] > 0
    BY <2>1, <2>2, <1>1
  <2>5. own \in 1 .. log' /\ own \notin unpublished'
    BY <2>2, <1>1, <1>4
  <2> QED
    BY <2>2, <2>3, <2>4, <2>5 DEF Started, StreamInv, Ahead
<1>12. /\ QueueSound(c)'
       /\ \A e \in Nat : Due(c, e) => Due(c, e)'
       /\ Due(c, own)'
  <2>1. CASE queue' = queue /\ dropped' = [dropped EXCEPT ![c] = @ \cup {own}]
    <3>1. own \in Gone(c)'
      BY <1>2, <2>1 DEF Gone, StreamTypes
    <3> QED
      BY <3>1, <1>1, <1>2, <1>3, <1>5, <1>6, <1>11, <2>1, ClientFrame DEF Due
  <2>2. CASE queue' = [queue EXCEPT ![c] = Append(@, own)]
    <3> DEFINE n == Len(queue[c])
    <3>1. /\ n \in Nat /\ \A i \in 1 .. n : queue[c][i] \in Nat
          /\ Len(queue'[c]) = n + 1 /\ queue'[c][n + 1] = own
          /\ \A i \in 1 .. n : queue'[c][i] = queue[c][i]
      BY <1>2, <2>2 DEF StreamTypes
    <3> HIDE DEF n
    <3>2. \A i \in 1 .. n : Started(queue[c][i]) /\ Started(queue[c][i])'
      <4> SUFFICES ASSUME NEW i \in 1 .. n
                   PROVE  Started(queue[c][i]) /\ Started(queue[c][i])'
        OBVIOUS
      <4>1. Started(queue[c][i])
        BY <1>11 DEF QueueSound, n
      <4>2. PICK f \in Nat : f = queue[c][i]
        BY <3>1
      <4>3. Started(f)'
        BY <4>1, <4>2, <1>2, <1>3, <1>5, StaysOvertaken
      <4>4. Started(queue[c][i])'
        BY <4>2, <4>3, <3>1 DEF Started
      <4> QED
        BY <4>1, <4>4
    <3>3. own <= last[c] => own \in received[c] \/ own \in Gone(c)'
      BY <1>1, <1>6, <1>11 DEF Behind, Gone, MoreGone
    <3>4. \A i \in 1 .. n : own < queue[c][i] => own \in late'
      BY <3>1, <3>2, <1>1, <1>2, OvertakenBy
    <3>5. QueueSound(c)'
      <4> SUFFICES ASSUME NEW i \in 1 .. n + 1
                   PROVE  /\ Started(queue[c][i])'
                          /\ queue'[c][i] <= last[c] => queue'[c][i] \in received[c] \/ queue'[c][i] \in Gone(c)'
                          /\ \A j \in 1 .. n + 1 : i < j /\ queue'[c][j] < queue'[c][i] => queue'[c][j] \in late'
        BY <3>1, <1>1, <1>11 DEF QueueSound, Subscribed
      <4>1. CASE i \in 1 .. n
        <5>1. queue[c][i] <= last[c] => queue[c][i] \in received[c] \/ queue[c][i] \in Gone(c)'
          BY <4>1, <1>6, <1>11 DEF QueueSound, MoreGone, n
        <5>2. \A j \in 1 .. n : i < j /\ queue[c][j] < queue[c][i] => queue[c][j] \in late'
          BY <4>1, <1>6, <1>11 DEF QueueSound, n
        <5>3. Started(queue[c][i])'
          BY <4>1, <3>2
        <5>4. queue'[c][i] = queue[c][i]
          BY <4>1, <3>1
        <5>5. \A j \in 1 .. n + 1 : i < j /\ queue'[c][j] < queue'[c][i] => queue'[c][j] \in late'
          <6>1. own < queue[c][i] => own \in late'
            BY <4>1, <3>4
          <6>2. \A j \in 1 .. n + 1 : j \in 1 .. n \/ j = n + 1
            BY <3>1
          <6> QED
            BY <5>2, <5>4, <6>1, <6>2, <3>1
        <5> QED
          BY <5>1, <5>3, <5>4, <5>5
      <4>2. CASE i = n + 1
        BY <4>2, <3>1, <3>3, <1>11 DEF Started
      <4> QED
        BY <4>1, <4>2, <3>1
    <3>6. \A e \in Nat : Queued(c, e) => Queued(c, e)'
      BY <3>1 DEF Queued, n
    <3>7. Queued(c, own)'
      BY <3>1 DEF Queued
    <3>8. \A e \in Nat : Due(c, e) => Due(c, e)'
      BY <3>6, <1>1, <1>6 DEF Due, MoreGone
    <3> QED
      BY <3>5, <3>7, <3>8 DEF Due
  <2> QED
    BY <2>1, <2>2, <1>1
<1>13. ASSUME NEW d \in Clients
       PROVE  /\ QueueSound(d)' /\ Behind(d)' /\ Ahead(d)'
              /\ \A e \in Nat : Due(d, e) => Due(d, e)'
  <2>1. QueueSound(d) /\ Behind(d) /\ Ahead(d)
    BY DEF StreamInv
  <2>2. QueueSound(d)' /\ \A e \in Nat : Due(d, e) => Due(d, e)'
    BY <1>1, <1>2, <1>3, <1>5, <1>6, <1>12, <2>1, ClientFrame
  <2>3. \A e : Pending(e) => Pending(e)'
    BY <1>1 DEF Pending
  <2>4. Behind(d)'
    BY <1>1, <1>2, <1>3, <1>5, <1>6, <2>1, <2>3, BehindFrame
  <2>5. \A e \in Nat : (Pending(e) \/ e > log) /\ last[d] < e /\ e <= log' => Pending(e)' \/ Due(d, e)'
    BY <1>1, <1>4, <2>3
  <2>6. Ahead(d)'
    BY <1>1, <1>2, <1>3, <1>5, <2>1, <2>2, <2>5, AheadFrame
  <2> QED
    BY <2>2, <2>4, <2>6
<1>14. ASSUME NEW u \in Threads
       PROVE  Passed(u)'
  <2>0. Passed(u)
    BY DEF StreamInv
  <2>1. CASE u = t
    <3> SUFFICES ASSUME NEW i \in 1 .. Len(subscribers), i <= at'[t], last[subscribers[i]] < own
                 PROVE  Due(subscribers[i], own)'
      BY <2>1, <1>1, <1>8 DEF Passed
    <3>1. PICK d \in Clients : d = subscribers[i]
      BY <1>4
    <3>2. at'[t] = at[t] + 1 /\ at[t] \in Nat
      BY <1>1, <1>4
    <3>3. CASE i <= at[t]
      <4>1. Due(d, own)
        BY <3>1, <3>3, <2>0, <2>1, <1>7, <1>8 DEF Passed
      <4>2. Due(d, own)'
        BY <4>1, <1>13
      <4> QED
        BY <4>2, <3>1, <1>1 DEF Due, Gone, Queued
    <3>4. CASE i > at[t]
      <4>1. d = c
        BY <3>1, <3>2, <3>4, <1>8
      <4> QED
        BY <4>1, <3>1, <1>12, <1>1 DEF Due, Gone, Queued
    <3> QED
      BY <3>2, <3>3, <3>4
  <2>2. CASE u # t
    <3>1. \A d \in Clients : last[d] <= last'[d] /\ last'[d] \in Nat
      BY <1>1, <1>2 DEF StreamTypes
    <3>2. pending'[u] = pending[u] /\ at'[u] = at[u]
      BY <2>2, <1>1, <1>4
    <3> QED
      BY <3>1, <3>2, <2>0, <1>1, <1>2, <1>13, PassedFrame
  <2> QED
    BY <2>1, <2>2
<1> QED
  BY <1>3, <1>9, <1>10, <1>13, <1>14 DEF StreamInv

-----------------------------------------------------------------------------
(* The generators *)

\* The writers rest, and no client but c changes.
ClientTurn(c) ==
  /\ log' = log /\ pending' = pending /\ at' = at
  /\ dropped' = dropped /\ unpublished' = unpublished /\ late' = late
  /\ disturbed \subseteq disturbed'
  /\ \A d \in Clients : d # c => SameClient(d)

\* Everything that another client's step leaves as it was.
LEMMA TurnFrame ==
  ASSUME StreamInv, StreamTypes', NEW c \in Clients, ClientTurn(c)
  PROVE  /\ Onward /\ MoreGone
         /\ \A f \in Nat : Started(f) => Started(f)'
         /\ \A e \in Nat : Overtaken(e) => Overtaken(e)'
         /\ \A e : Pending(e) <=> Pending(e)'
         /\ \A d \in Clients : d # c => /\ QueueSound(d)' /\ Behind(d)' /\ Ahead(d)'
                                        /\ \A e \in Nat : Due(d, e) => Due(d, e)'
<1>1. StreamTypes /\ FanOuts /\ log \in Nat /\ at \in [Threads -> Nat]
  BY DEF StreamInv, StreamTypes
<1>2. Onward
  BY <1>1 DEF Onward, ClientTurn
<1>3. MoreGone
  BY DEF MoreGone, ClientTurn, Gone
<1>4. \A e : Pending(e) <=> Pending(e)'
  BY DEF Pending, ClientTurn
<1>5. ASSUME NEW d \in Clients, d # c
      PROVE  /\ QueueSound(d)' /\ Behind(d)' /\ Ahead(d)'
             /\ \A e \in Nat : Due(d, e) => Due(d, e)'
  <2>1. QueueSound(d) /\ Behind(d) /\ Ahead(d) /\ SameClient(d)
    BY <1>5 DEF StreamInv, ClientTurn
  <2>2. QueueSound(d)' /\ \A e \in Nat : Due(d, e) => Due(d, e)'
    BY <1>1, <1>2, <1>3, <2>1, ClientFrame DEF ClientTurn
  <2>3. Behind(d)'
    BY <1>1, <1>2, <1>3, <1>4, <2>1, BehindFrame DEF SameClient
  <2>4. \A e \in Nat : (Pending(e) \/ e > log) /\ last[d] < e /\ e <= log' => Pending(e)' \/ Due(d, e)'
    BY <1>1, <1>4 DEF ClientTurn
  <2>5. Ahead(d)'
    BY <1>1, <1>2, <2>1, <2>2, <2>4, AheadFrame DEF SameClient
  <2> QED
    BY <2>2, <2>3, <2>5
<1>6. /\ \A f \in Nat : Started(f) => Started(f)'
      /\ \A e \in Nat : Overtaken(e) => Overtaken(e)'
  BY <1>1, <1>2, StaysOvertaken
<1> QED
  BY <1>2, <1>3, <1>4, <1>5, <1>6

\* A step of a client that joins or leaves no list.
LEMMA ClientMoves ==
  ASSUME StreamInv, StreamTypes', NEW c \in Clients, ClientTurn(c), subscribers' = subscribers,
         disturbed' = disturbed,
         Subscribed(c)' <=> Subscribed(c), last[c] <= last'[c],
         QueueSound(c)', Behind(c)', Ahead(c)',
         \A e \in 1 .. log : last'[c] < e /\ Due(c, e) => Due(c, e)'
  PROVE  StreamInv'
<1>1. StreamTypes /\ Registered /\ FanOuts /\ \A u \in Threads : Passed(u)
  BY DEF StreamInv
<1>2. \A d \in Clients : d # c => /\ QueueSound(d)' /\ Behind(d)' /\ Ahead(d)'
                                  /\ \A e \in Nat : Due(d, e) => Due(d, e)'
  BY TurnFrame
<1>3. Registered'
  <2>1. \A d \in Clients : Subscribed(d)' <=> Subscribed(d)
    BY DEF ClientTurn, SameClient, Subscribed
  <2> QED
    BY <1>1, <2>1, ListFrame DEF StreamTypes
<1>4. FanOuts'
  BY <1>1 DEF FanOuts, ClientTurn
<1>5. ASSUME NEW u \in Threads PROVE Passed(u)'
  <2>1. \A d \in Clients : last[d] <= last'[d] /\ last'[d] \in Nat
    <3>1. last \in [Clients -> Nat] /\ last' \in [Clients -> Nat]
      BY <1>1 DEF StreamTypes
    <3>2. \A d \in Clients : d # c => last'[d] = last[d]
      BY DEF ClientTurn, SameClient
    <3> QED
      BY <3>1, <3>2
  <2>2. pending'[u] = pending[u] /\ at'[u] = at[u]
    BY DEF ClientTurn
  <2>3. \A d \in Clients : \A e \in 1 .. log : last'[d] < e /\ Due(d, e) => Due(d, e)'
    <3> SUFFICES ASSUME NEW d \in Clients, NEW e \in 1 .. log, last'[d] < e, Due(d, e)
                 PROVE  Due(d, e)'
      OBVIOUS
    <3>1. e \in Nat
      OBVIOUS
    <3> QED
      BY <3>1, <1>2
  <2> QED
    BY <2>1, <2>2, <2>3, <1>1, PassedFrame
<1> QED
  BY <1>1, <1>2, <1>3, <1>4, <1>5 DEF StreamInv

\* A client asks, and may be refused (request_stream, subscribe on a full house).
LEMMA AskSteps ==
  ASSUME StreamInv, NEW c \in Clients,
         request_stream(c) \/ (subscribe(c) /\ conn'[c] = "closed")
  PROVE  StreamInv'
<1>1. /\ log' = log /\ pending' = pending /\ at' = at
      /\ dropped' = dropped /\ unpublished' = unpublished /\ late' = late /\ disturbed' = disturbed
      /\ subscribers' = subscribers /\ queue' = queue /\ last' = last /\ replayTo' = replayTo
      /\ after' = after /\ received' = received
      /\ conn[c] \in {"closed", "requested"}
      /\ conn' = [conn EXCEPT ![c] = "requested"] \/ conn' = [conn EXCEPT ![c] = "closed"]
  <2>1. conn \in [Clients -> {"closed", "requested", "snapshot", "replay", "live"}]
    BY DEF StreamInv, StreamTypes
  <2> QED
    BY <2>1 DEF request_stream, subscribe, Subscribe, writer, client, history
<1>2. StreamTypes /\ QueueSound(c) /\ Behind(c) /\ log \in Nat
  BY DEF StreamInv, StreamTypes
<1>3. StreamTypes'
  BY <1>1, <1>2 DEF StreamTypes
<1>4. ClientTurn(c) /\ conn'[c] \in {"closed", "requested"}
  BY <1>1, <1>2 DEF ClientTurn, SameClient, StreamTypes
<1>5. ~ Subscribed(c) /\ ~ Subscribed(c)' /\ Len(queue[c]) \in Nat /\ last[c] \in Nat
  BY <1>1, <1>2, <1>4 DEF Subscribed, StreamTypes
<1>6. QueueSound(c)'
  BY <1>1, <1>2, <1>5 DEF QueueSound
<1>7. Onward /\ MoreGone /\ \A e : Pending(e) <=> Pending(e)'
  BY <1>3, <1>4, TurnFrame
<1>8. Behind(c)'
  BY <1>1, <1>2, <1>3, <1>7, BehindFrame
<1>9. Ahead(c)'
  BY <1>5 DEF Ahead
<1>10. \A e \in 1 .. log : Due(c, e) => Due(c, e)'
  BY <1>1 DEF Due, Gone, Queued
<1> QED
  BY <1>1, <1>3, <1>4, <1>5, <1>6, <1>8, <1>9, <1>10, ClientMoves

\* The list of persisted events is read (events_after).
LEMMA ListStep ==
  ASSUME StreamInv, NEW c \in Clients, events_after(c)
  PROVE  StreamInv'
<1>1. /\ log' = log /\ pending' = pending /\ at' = at
      /\ dropped' = dropped /\ unpublished' = unpublished /\ late' = late /\ disturbed' = disturbed
      /\ subscribers' = subscribers /\ queue' = queue /\ last' = last
      /\ after' = after /\ received' = received
      /\ conn[c] = "snapshot"
      /\ conn' = [conn EXCEPT ![c] = "replay"]
      /\ replayTo' = [replayTo EXCEPT ![c] = log]
  BY DEF events_after, writer, client, history
<1>2. StreamTypes /\ QueueSound(c) /\ Behind(c) /\ Ahead(c) /\ log \in Nat
  BY DEF StreamInv, StreamTypes
<1>3. StreamTypes'
  BY <1>1, <1>2 DEF StreamTypes
<1>4. ClientTurn(c) /\ conn'[c] = "replay" /\ replayTo'[c] = log
  BY <1>1, <1>2 DEF ClientTurn, SameClient, StreamTypes
<1>5. Subscribed(c) /\ Subscribed(c)' /\ last[c] \in Nat
  BY <1>1, <1>2, <1>4 DEF Subscribed, StreamTypes
<1>6. /\ Onward /\ MoreGone /\ \A e : Pending(e) <=> Pending(e)'
      /\ \A f \in Nat : Started(f) => Started(f)'
  BY <1>3, <1>4, TurnFrame
<1>7. QueueSound(c)'
  BY <1>1, <1>2, <1>5, <1>4 DEF QueueSound, Started, Gone
<1>8. Behind(c)'
  BY <1>1, <1>2, <1>3, <1>6, BehindFrame
<1>9. \A e \in 1 .. log : Due(c, e)'
  BY <1>4 DEF Due
<1>10. Ahead(c)'
  BY <1>1, <1>2, <1>4, <1>5, <1>9 DEF Ahead
<1> QED
  BY <1>1, <1>3, <1>4, <1>5, <1>7, <1>8, <1>9, <1>10, ClientMoves

\* A persisted event is replayed, or the list is at its end (replay_event).
LEMMA ReplayStep ==
  ASSUME StreamInv, NEW c \in Clients, replay_event(c)
  PROVE  StreamInv'
<1>1. /\ log' = log /\ pending' = pending /\ at' = at
      /\ dropped' = dropped /\ unpublished' = unpublished /\ late' = late /\ disturbed' = disturbed
      /\ subscribers' = subscribers /\ queue' = queue
      /\ conn[c] = "replay"
  BY DEF replay_event, writer, history
<1>2. /\ StreamTypes /\ QueueSound(c) /\ Behind(c) /\ Ahead(c) /\ log \in Nat
      /\ last[c] \in Nat /\ replayTo[c] \in 0 .. log /\ after[c] \in Nat
  BY DEF StreamInv, StreamTypes
<1>3. Subscribed(c) /\ after[c] = last[c]
  BY <1>1, <1>2 DEF Subscribed, Ahead
<1>4. CASE last[c] < replayTo[c]
  <2>1. /\ last' = [last EXCEPT ![c] = @ + 1]
        /\ received' = [received EXCEPT ![c] = @ \cup {last[c] + 1}]
        /\ after' = [after EXCEPT ![c] = IF last[c] + 1 > @ THEN last[c] + 1 ELSE @]
        /\ conn' = conn /\ replayTo' = replayTo
    BY <1>2, <1>4 DEF replay_event, Receive
  <2>2. /\ last'[c] = last[c] + 1 /\ after'[c] = last[c] + 1
        /\ received'[c] = received[c] \cup {last[c] + 1}
    BY <2>1, <1>2, <1>3 DEF StreamTypes
  <2>3. StreamTypes'
    <3>1. last' \in [Clients -> Nat] /\ after' \in [Clients -> Nat]
      BY <2>1, <1>2 DEF StreamTypes
    <3>2. received' \in [Clients -> SUBSET Nat]
      BY <2>1, <1>2 DEF StreamTypes
    <3> QED
      BY <3>1, <3>2, <2>1, <1>1, <1>2 DEF StreamTypes
  <2>4. ClientTurn(c) /\ Subscribed(c)'
    BY <2>1, <1>1, <1>2, <1>3 DEF ClientTurn, SameClient, StreamTypes, Subscribed
  <2>5. /\ \A f \in Nat : Started(f) => Started(f)'
        /\ \A e \in Nat : Overtaken(e) => Overtaken(e)'
        /\ \A e : Pending(e) <=> Pending(e)'
        /\ Gone(c)' = Gone(c)
    BY <1>1, <2>3, <2>4, TurnFrame DEF Gone
  <2>6. QueueSound(c)'
    <3> SUFFICES ASSUME NEW i \in 1 .. Len(queue[c])
                 PROVE  /\ Started(queue[c][i])'
                        /\ queue[c][i] <= last[c] + 1 =>
                             queue[c][i] \in received'[c] \/ queue[c][i] \in Gone(c)
                        /\ \A j \in 1 .. Len(queue[c]) : i < j /\ queue[c][j] < queue[c][i] => queue[c][j] \in late
      BY <1>1, <2>2, <2>4, <2>5 DEF QueueSound
    <3>1. Started(queue[c][i])'
      BY <1>1, <1>2 DEF QueueSound, Started
    <3>2. queue[c][i] \in Nat
      BY <1>2 DEF StreamTypes
    <3> QED
      BY <3>1, <3>2, <1>2, <2>2 DEF QueueSound
  <2>7. Behind(c)'
    <3>1. after'[c] <= log'
      BY <1>1, <1>2, <1>4, <2>2
    <3>2. ASSUME NEW e \in 1 .. last[c] + 1
          PROVE  e \in received'[c] \/ e \in Gone(c)' \/ (Pending(e)' /\ Overtaken(e)')
      <4>1. CASE e = last[c] + 1
        BY <4>1, <2>2
      <4>2. CASE e # last[c] + 1
        <5>1. e \in 1 .. after[c] /\ e \in Nat
          BY <4>2, <1>2, <1>3
        <5> QED
          BY <5>1, <1>2, <2>2, <2>5 DEF Behind
      <4> QED
        BY <4>1, <4>2
    <3> QED
      BY <3>1, <3>2, <2>2 DEF Behind
  <2>8. \A e \in 1 .. log : Due(c, e) => Due(c, e)'
    BY <1>1, <2>1, <2>5 DEF Due, Queued
  <2>9. Ahead(c)'
    <3>1. \A e \in last[c] + 2 .. log : Due(c, e)' \/ Pending(e)'
      <4> SUFFICES ASSUME NEW e \in last[c] + 2 .. log
                   PROVE  Due(c, e)' \/ Pending(e)'
        OBVIOUS
      <4>1. e \in last[c] + 1 .. log /\ e \in 1 .. log
        BY <1>2
      <4>2. Due(c, e) \/ Pending(e)
        BY <4>1, <1>2, <1>3 DEF Ahead
      <4> QED
        BY <4>1, <4>2, <2>5, <2>8
    <3>2. last'[c] + 1 = last[c] + 2 /\ log' = log
      BY <1>1, <1>2, <2>2
    <3> QED
      BY <3>1, <3>2, <2>2 DEF Ahead
  <2>10. last[c] <= last'[c]
    BY <1>2, <2>2
  <2> QED
    BY <1>1, <1>3, <2>3, <2>4, <2>6, <2>7, <2>8, <2>9, <2>10, ClientMoves
<1>5. CASE last[c] >= replayTo[c]
  <2>1. /\ last' = last /\ received' = received /\ after' = after
        /\ conn' = [conn EXCEPT ![c] = "live"]
        /\ replayTo' = [replayTo EXCEPT ![c] = 0]
    BY <1>2, <1>5 DEF replay_event, client
  <2>2. StreamTypes'
    <3>1. /\ conn' \in [Clients -> {"closed", "requested", "snapshot", "replay", "live"}]
          /\ replayTo' \in [Clients -> 0 .. log']
      BY <2>1, <1>1, <1>2 DEF StreamTypes
    <3> QED
      BY <3>1, <2>1, <1>1, <1>2 DEF StreamTypes
  <2>3. ClientTurn(c) /\ Subscribed(c)' /\ conn'[c] = "live"
    BY <2>1, <1>1, <1>2, <1>3 DEF ClientTurn, SameClient, StreamTypes, Subscribed
  <2>4. /\ \A e : Pending(e) <=> Pending(e)'
        /\ Onward /\ MoreGone /\ Gone(c)' = Gone(c)
    BY <1>1, <2>2, <2>3, TurnFrame DEF Gone
  <2>5. QueueSound(c)'
    BY <1>1, <1>2, <2>1, <2>3, <2>4 DEF QueueSound, Started
  <2>6. Behind(c)'
    BY <1>2, <2>1, <2>2, <2>4, BehindFrame
  <2>7. \A e \in 1 .. log : last[c] < e /\ Due(c, e) => Due(c, e)'
    BY <1>1, <1>2, <1>5, <2>4 DEF Due, Queued
  <2>8. Ahead(c)'
    <3>1. \A e \in last[c] + 1 .. log : Due(c, e)' \/ Pending(e)'
      BY <1>2, <1>3, <2>4, <2>7 DEF Ahead
    <3> QED
      BY <3>1, <1>1, <1>3, <2>1 DEF Ahead
  <2>9. last[c] <= last'[c]
    BY <1>2, <2>1
  <2> QED
    BY <1>1, <1>3, <2>1, <2>2, <2>3, <2>5, <2>6, <2>7, <2>8, <2>9, ClientMoves
<1> QED
  BY <1>2, <1>4, <1>5

\* A live event is delivered, or dropped as old (live_event).
LEMMA LiveStep ==
  ASSUME StreamInv, NEW c \in Clients, live_event(c)
  PROVE  StreamInv'
<1>0. StreamTypes
  BY DEF StreamInv
<1>1. /\ log' = log /\ pending' = pending /\ at' = at
      /\ dropped' = dropped /\ unpublished' = unpublished /\ late' = late /\ disturbed' = disturbed
      /\ subscribers' = subscribers /\ conn' = conn /\ replayTo' = replayTo
      /\ conn[c] = "live" /\ queue[c] # <<>>
      /\ queue' = [queue EXCEPT ![c] = Tail(@)]
  BY DEF live_event, writer, history
<1>2. /\ QueueSound(c) /\ Behind(c) /\ Ahead(c) /\ log \in Nat
      /\ last[c] \in Nat /\ after[c] \in Nat /\ queue[c] \in Seq(Nat)
  BY DEF StreamInv, StreamTypes
<1>3. Subscribed(c) /\ after[c] = last[c]
  BY <1>1, <1>2 DEF Subscribed, Ahead
<1>4. PICK n \in Nat : n + 1 = Len(queue[c])
  <2>1. Len(queue[c]) \in Nat /\ Len(queue[c]) # 0
    BY <1>1, <1>2, EmptySeq
  <2>2. Len(queue[c]) - 1 \in Nat /\ (Len(queue[c]) - 1) + 1 = Len(queue[c])
    BY <2>1
  <2> QED
    BY <2>2
<1>5. PICK h \in Nat : h = queue[c][1] /\ h = Head(queue[c])
  BY <1>1, <1>2
<1>6. /\ Len(queue'[c]) = n /\ \A i \in 1 .. n : queue'[c][i] = queue[c][i + 1]
      /\ \A i \in 1 .. n + 1 : queue[c][i] \in Nat
      /\ queue' \in [Clients -> Seq(Nat)]
  <2>1. queue'[c] = Tail(queue[c])
    BY <1>0, <1>1 DEF StreamTypes
  <2>2. Tail(queue[c]) \in Seq(Nat)
    BY <1>1, <1>2
  <2>3. queue' \in [Clients -> Seq(Nat)]
    BY <2>2, <1>0, <1>1 DEF StreamTypes
  <2> QED
    BY <2>1, <2>3, <1>1, <1>2, <1>4
<1>7. Started(h) /\ h \in 1 .. log
  <2>1. 1 \in 1 .. Len(queue[c])
    BY <1>4
  <2>2. Started(queue[c][1])
    BY <2>1, <1>2 DEF QueueSound
  <2> QED
    BY <2>2, <1>5 DEF Started
<1>8. \A e \in Nat : Queued(c, e) => e = h \/ (Queued(c, e)' /\ (e < h => e \in late))
  <2> SUFFICES ASSUME NEW e \in Nat, NEW i \in 1 .. n + 1, queue[c][i] = e, e # h
               PROVE  Queued(c, e)' /\ (e < h => e \in late)
    BY <1>4 DEF Queued
  <2>1. i # 1 /\ i - 1 \in 1 .. n /\ (i - 1) + 1 = i
    BY <1>4, <1>5
  <2>2. queue'[c][i - 1] = e
    BY <2>1, <1>6
  <2>3. Queued(c, e)'
    BY <2>1, <2>2, <1>6 DEF Queued
  <2>4. 1 \in 1 .. Len(queue[c]) /\ i \in 1 .. Len(queue[c]) /\ 1 < i
    BY <2>1, <1>4
  <2>5. e < h => e \in late
    BY <2>4, <1>2, <1>5 DEF QueueSound
  <2> QED
    BY <2>3, <2>5
<1>9. Gone(c)' = Gone(c)
  BY <1>1 DEF Gone
<1>10. \A e \in Nat : e # h /\ Due(c, e) => Due(c, e)'
  BY <1>1, <1>8, <1>9 DEF Due
<1>11. \A i \in 1 .. n : /\ Started(queue[c][i + 1])
                         /\ queue'[c][i] <= last[c] => queue'[c][i] \in received[c] \/ queue'[c][i] \in Gone(c)
                         /\ \A j \in 1 .. n : i < j /\ queue'[c][j] < queue'[c][i] => queue'[c][j] \in late
                         /\ queue'[c][i] < h => queue'[c][i] \in late
  <2> SUFFICES ASSUME NEW i \in 1 .. n
               PROVE  /\ Started(queue[c][i + 1])
                      /\ queue[c][i + 1] <= last[c] => queue[c][i + 1] \in received[c] \/ queue[c][i + 1] \in Gone(c)
                      /\ \A j \in 1 .. n : i < j /\ queue[c][j + 1] < queue[c][i + 1] => queue[c][j + 1] \in late
                      /\ queue[c][i + 1] < h => queue[c][i + 1] \in late
    BY <1>6
  <2>1. /\ i + 1 \in 1 .. Len(queue[c]) /\ 1 \in 1 .. Len(queue[c]) /\ 1 < i + 1
        /\ \A j \in 1 .. n : j + 1 \in 1 .. Len(queue[c]) /\ (i < j => i + 1 < j + 1)
    BY <1>4
  <2>2. queue[c][i + 1] < h => queue[c][i + 1] \in late
    BY <2>1, <1>2, <1>5 DEF QueueSound
  <2>3. \A j \in 1 .. n : i < j /\ queue[c][j + 1] < queue[c][i + 1] => queue[c][j + 1] \in late
    BY <2>1, <1>2 DEF QueueSound
  <2> QED
    BY <2>1, <2>2, <2>3, <1>2 DEF QueueSound
<1>12. \A f : Started(f) <=> Started(f)'
  BY <1>1 DEF Started
<1>13. CASE h > last[c]
  <2>1. /\ last' = [last EXCEPT ![c] = h]
        /\ received' = [received EXCEPT ![c] = @ \cup {h}]
        /\ after' = [after EXCEPT ![c] = IF h > @ THEN h ELSE @]
    BY <1>2, <1>5, <1>13 DEF live_event, Receive
  <2>2. last'[c] = h /\ after'[c] = h /\ received'[c] = received[c] \cup {h}
    BY <2>1, <1>0, <1>3, <1>13 DEF StreamTypes
  <2>3. StreamTypes'
    <3>1. last' \in [Clients -> Nat] /\ after' \in [Clients -> Nat]
      BY <2>1, <1>0 DEF StreamTypes
    <3>2. received' \in [Clients -> SUBSET Nat]
      BY <2>1, <1>0 DEF StreamTypes
    <3> QED
      BY <3>1, <3>2, <1>0, <1>1, <1>6 DEF StreamTypes
  <2>4. ClientTurn(c) /\ Subscribed(c)'
    BY <2>1, <1>0, <1>1, <1>3 DEF ClientTurn, SameClient, StreamTypes, Subscribed
  <2>5. /\ \A e \in Nat : Overtaken(e) => Overtaken(e)'
        /\ \A e : Pending(e) <=> Pending(e)'
    BY <2>3, <2>4, TurnFrame
  <2>6. QueueSound(c)'
    <3> SUFFICES ASSUME NEW i \in 1 .. n
                 PROVE  /\ Started(queue[c][i])'
                        /\ queue'[c][i] <= h => queue'[c][i] \in received'[c] \/ queue'[c][i] \in Gone(c)
                        /\ \A j \in 1 .. n : i < j /\ queue'[c][j] < queue'[c][i] => queue'[c][j] \in late
      BY <1>1, <1>6, <1>9, <2>2, <2>4 DEF QueueSound
    <3>1. queue'[c][i] \in Nat
      BY <1>6
    <3>2. Started(queue[c][i])'
      BY <1>1, <1>6, <1>11 DEF Started
    <3> QED
      BY <3>1, <3>2, <1>11, <2>2 DEF Gone
  <2>7. Behind(c)'
    <3>1. after'[c] <= log'
      BY <1>1, <1>7, <2>2
    <3>2. ASSUME NEW e \in 1 .. h
          PROVE  e \in received'[c] \/ e \in Gone(c)' \/ (Pending(e)' /\ Overtaken(e)')
      <4>0. e \in Nat /\ e \in 1 .. log
        BY <1>2, <1>7
      <4>1. CASE e = h
        BY <4>1, <2>2
      <4>2. CASE e \in 1 .. after[c]
        BY <4>0, <4>2, <1>2, <1>9, <2>2, <2>5 DEF Behind
      <4>3. CASE e < h /\ last[c] < e
        <5>1. Due(c, e) \/ Pending(e)
          BY <4>0, <4>3, <1>2, <1>3 DEF Ahead
        <5>2. CASE Pending(e)
          BY <5>2, <4>0, <4>3, <1>0, <1>7, <2>5, OvertakenBy
        <5>3. CASE Due(c, e)
          <6>1. e \in Gone(c) \/ Queued(c, e)
            BY <5>3, <1>1 DEF Due
          <6> QED
            BY <6>1, <4>0, <4>3, <1>8, <1>9 DEF Gone
        <5> QED
          BY <5>1, <5>2, <5>3
      <4> QED
        BY <4>0, <4>1, <4>2, <4>3, <1>2, <1>3
    <3> QED
      BY <3>1, <3>2, <2>2 DEF Behind
  <2>8. \A e \in 1 .. log : last'[c] < e /\ Due(c, e) => Due(c, e)'
    BY <1>10, <2>2
  <2>9. Ahead(c)'
    <3>1. \A e \in h + 1 .. log : Due(c, e)' \/ Pending(e)'
      <4> SUFFICES ASSUME NEW e \in h + 1 .. log
                   PROVE  Due(c, e)' \/ Pending(e)'
        OBVIOUS
      <4>1. e \in last[c] + 1 .. log /\ e \in 1 .. log /\ h < e
        BY <1>2, <1>13
      <4>2. Due(c, e) \/ Pending(e)
        BY <4>1, <1>2, <1>3 DEF Ahead
      <4> QED
        BY <4>1, <4>2, <2>2, <2>5, <2>8
    <3> QED
      BY <3>1, <1>1, <2>2 DEF Ahead
  <2>10. last[c] <= last'[c]
    BY <1>2, <1>13, <2>2
  <2> QED
    BY <1>1, <1>3, <2>3, <2>4, <2>6, <2>7, <2>8, <2>9, <2>10, ClientMoves
<1>14. CASE h <= last[c]
  <2>1. last' = last /\ received' = received /\ after' = after
    BY <1>2, <1>5, <1>14 DEF live_event, client
  <2>2. StreamTypes'
    BY <2>1, <1>0, <1>1, <1>6 DEF StreamTypes
  <2>3. ClientTurn(c) /\ Subscribed(c)'
    BY <2>1, <1>0, <1>1, <1>3 DEF ClientTurn, SameClient, StreamTypes, Subscribed
  <2>4. Onward /\ MoreGone /\ \A e : Pending(e) <=> Pending(e)'
    BY <2>2, <2>3, TurnFrame
  <2>5. QueueSound(c)'
    <3> SUFFICES ASSUME NEW i \in 1 .. n
                 PROVE  /\ Started(queue[c][i])'
                        /\ queue'[c][i] <= last[c] => queue'[c][i] \in received[c] \/ queue'[c][i] \in Gone(c)
                        /\ \A j \in 1 .. n : i < j /\ queue'[c][j] < queue'[c][i] => queue'[c][j] \in late
      BY <1>1, <1>6, <1>9, <2>1, <2>3 DEF QueueSound
    <3>1. Started(queue[c][i])'
      BY <1>1, <1>6, <1>11 DEF Started
    <3> QED
      BY <3>1, <1>11
  <2>6. Behind(c)'
    BY <1>0, <1>2, <2>1, <2>2, <2>4, BehindFrame
  <2>7. \A e \in 1 .. log : last'[c] < e /\ Due(c, e) => Due(c, e)'
    BY <1>2, <1>10, <1>14, <2>1
  <2>8. Ahead(c)'
    <3>1. \A e \in last[c] + 1 .. log : Due(c, e)' \/ Pending(e)'
      BY <1>2, <1>3, <2>1, <2>4, <2>7 DEF Ahead
    <3> QED
      BY <3>1, <1>1, <1>3, <2>1 DEF Ahead
  <2>9. last[c] <= last'[c]
    BY <1>2, <2>1
  <2> QED
    BY <1>1, <1>3, <2>1, <2>2, <2>3, <2>5, <2>6, <2>7, <2>8, <2>9, ClientMoves
<1> QED
  BY <1>2, <1>13, <1>14

\* A generator registers its queue (subscribe).
LEMMA JoinStep ==
  ASSUME StreamInv, NEW c \in Clients, subscribe(c), Subscribe(c)
  PROVE  StreamInv'
<1>1. /\ log' = log /\ pending' = pending /\ at' = at
      /\ dropped' = dropped /\ unpublished' = unpublished /\ late' = late /\ disturbed' = disturbed
      /\ after' = after /\ received' = received /\ replayTo' = replayTo
      /\ conn[c] = "requested"
      /\ conn' = [conn EXCEPT ![c] = "snapshot"]
      /\ subscribers' = Append(subscribers, c)
      /\ queue' = [queue EXCEPT ![c] = <<>>]
      /\ last' = [last EXCEPT ![c] = after[c]]
  BY DEF subscribe, Subscribe, writer, client, history
<1>2. /\ StreamTypes /\ Registered /\ FanOuts /\ QueueSound(c) /\ Behind(c) /\ log \in Nat
      /\ at \in [Threads -> Nat] /\ subscribers \in Seq(Clients)
  BY DEF StreamInv, StreamTypes
<1>3. StreamTypes'
  <2>1. /\ conn' \in [Clients -> {"closed", "requested", "snapshot", "replay", "live"}]
        /\ last' \in [Clients -> Nat]
    BY <1>1, <1>2 DEF StreamTypes
  <2>2. queue' \in [Clients -> Seq(Nat)] /\ subscribers' \in Seq(Clients)
    <3>1. queue \in [Clients -> Seq(Nat)] /\ <<>> \in Seq(Nat)
      BY <1>2 DEF StreamTypes
    <3> QED
      BY <3>1, <1>1, <1>2
  <2> QED
    BY <2>1, <2>2, <1>1, <1>2 DEF StreamTypes
<1>4. /\ ClientTurn(c)
      /\ conn'[c] = "snapshot" /\ queue'[c] = <<>> /\ last'[c] = after[c]
      /\ \A d \in Clients : d # c => conn'[d] = conn[d]
  BY <1>1, <1>2 DEF ClientTurn, SameClient, StreamTypes
<1>5. /\ Len(subscribers) \in Nat /\ Len(subscribers') = Len(subscribers) + 1
      /\ \A i \in 1 .. Len(subscribers) : subscribers[i] \in Clients /\ subscribers'[i] = subscribers[i]
      /\ subscribers'[Len(subscribers) + 1] = c
      /\ \A i \in 1 .. Len(subscribers) : subscribers[i] # c
  <2>1. ~ Subscribed(c)
    BY <1>1 DEF Subscribed
  <2> QED
    BY <2>1, <1>1, <1>2 DEF Registered
<1>6. \A d \in Clients : Subscribed(d)' <=> Subscribed(d) \/ d = c
  BY <1>4 DEF Subscribed
<1>7. Registered'
  <2>1. \A i, j \in 1 .. Len(subscribers) + 1 : subscribers'[i] = subscribers'[j] => i = j
    BY <1>2, <1>5 DEF Registered
  <2>2. \A i \in 1 .. Len(subscribers) + 1 : Subscribed(subscribers[i])'
    <3> SUFFICES ASSUME NEW i \in 1 .. Len(subscribers) + 1
                 PROVE  conn'[subscribers'[i]] \in {"snapshot", "replay", "live"}
      BY DEF Subscribed
    <3>1. CASE i \in 1 .. Len(subscribers)
      BY <3>1, <1>2, <1>4, <1>5 DEF Registered, Subscribed
    <3>2. CASE i = Len(subscribers) + 1
      BY <3>2, <1>4, <1>5
    <3> QED
      BY <3>1, <3>2, <1>5
  <2>3. \A d \in Clients : Subscribed(d)' => \E i \in 1 .. Len(subscribers) + 1 : subscribers'[i] = d
    BY <1>2, <1>5, <1>6 DEF Registered
  <2> QED
    BY <2>1, <2>2, <2>3, <1>5 DEF Registered
<1>8. FanOuts'
  BY <1>1, <1>2, <1>5 DEF FanOuts
<1>9. /\ Onward /\ MoreGone /\ \A e : Pending(e) <=> Pending(e)'
      /\ \A d \in Clients : d # c => /\ QueueSound(d)' /\ Behind(d)' /\ Ahead(d)'
                                     /\ \A e \in Nat : Due(d, e) => Due(d, e)'
  BY <1>3, <1>4, TurnFrame
<1>10. QueueSound(c)'
  BY <1>4, <1>6 DEF QueueSound
<1>11. Behind(c)'
  BY <1>1, <1>2, <1>3, <1>9, BehindFrame
<1>12. \A e : Due(c, e)'
  BY <1>4 DEF Due
<1>13. Ahead(c)'
  BY <1>1, <1>4, <1>12 DEF Ahead
<1>14. ASSUME NEW u \in Threads
       PROVE  Passed(u)'
  <2> SUFFICES ASSUME NEW i \in 1 .. Len(subscribers) + 1, pending[u] # 0, i <= at[u],
                      last'[subscribers'[i]] < pending[u]
               PROVE  Due(subscribers[i], pending[u])'
    BY <1>1, <1>5 DEF Passed
  <2>1. CASE i \in 1 .. Len(subscribers)
    <3>1. PICK d \in Clients, e \in Nat : d = subscribers[i] /\ e = pending[u] /\ d # c
      BY <2>1, <1>2, <1>5 DEF StreamTypes
    <3>2. last'[d] = last[d] /\ last[d] < e
      BY <2>1, <3>1, <1>4, <1>5 DEF ClientTurn, SameClient
    <3>3. Due(d, e)
      BY <2>1, <3>1, <3>2 DEF StreamInv, Passed
    <3>4. Due(d, e)'
      BY <3>1, <3>3, <1>9
    <3>5. subscribers'[i] = d /\ pending'[u] = e
      BY <2>1, <3>1, <1>1, <1>5
    <3> QED
      BY <3>4, <3>5 DEF Due, Gone, Queued
  <2>2. CASE i = Len(subscribers) + 1
    <3>1. subscribers'[i] = c
      BY <2>2, <1>5
    <3> QED
      BY <3>1, <1>12 DEF Due, Gone, Queued
  <2> QED
    BY <2>1, <2>2, <1>5
<1> QED
  BY <1>3, <1>7, <1>8, <1>9, <1>10, <1>11, <1>13, <1>14 DEF StreamInv

\* What is left of the list when a queue is removed from it.
LEMMA WithoutFacts ==
  ASSUME subscribers \in Seq(Clients), Registered, NEW c \in Clients,
         NEW p \in 1 .. Len(subscribers), subscribers[p] = c
  PROVE  /\ Without(c) \in Seq(Clients) /\ Len(Without(c)) = Len(subscribers) - 1
         /\ \A i \in 1 .. Len(subscribers) - 1 :
              Without(c)[i] = subscribers[IF i < p THEN i ELSE i + 1]
<1>1. DOMAIN subscribers = 1 .. Len(subscribers) /\ Len(subscribers) \in Nat
  OBVIOUS
<1>2. p = CHOOSE i \in DOMAIN subscribers : subscribers[i] = c
  <2>1. \A i \in DOMAIN subscribers : subscribers[i] = c <=> i = p
    BY <1>1 DEF Registered
  <2> QED
    BY <2>1, <1>1
<1>3. Without(c) = [i \in 1 .. Len(subscribers) - 1 |-> subscribers[IF i < p THEN i ELSE i + 1]]
  BY <1>2 DEF Without
<1>4. \A i \in 1 .. Len(subscribers) - 1 : subscribers[IF i < p THEN i ELSE i + 1] \in Clients
  <2>1. \A i \in 1 .. Len(subscribers) - 1 : (IF i < p THEN i ELSE i + 1) \in 1 .. Len(subscribers)
    BY <1>1
  <2> QED
    BY <2>1
<1>5. Len(subscribers) - 1 \in Nat
  BY <1>1
<1>6. Without(c) \in [1 .. Len(subscribers) - 1 -> Clients]
  BY <1>3, <1>4
<1> QED
  BY <1>3, <1>4, <1>5, <1>6

\* A generator ends: its queue leaves the list, and the fan-outs that had passed it are
\* disturbed (Close, of heartbeat and disconnect).
LEMMA CloseStep ==
  ASSUME StreamInv, NEW c \in Clients, Close(c)
  PROVE  StreamInv'
<1> DEFINE In == \E i \in 1 .. Len(subscribers) : subscribers[i] = c
           Left(u) == \E i \in 1 .. Len(subscribers) : i <= at[u] /\ subscribers[i] = c
<1>2. /\ StreamTypes /\ Registered /\ FanOuts /\ QueueSound(c) /\ Behind(c) /\ log \in Nat
      /\ at \in [Threads -> Nat] /\ pending \in [Threads -> Nat] /\ subscribers \in Seq(Clients)
      /\ DOMAIN subscribers = 1 .. Len(subscribers) /\ Len(subscribers) \in Nat
  <2>1. StreamTypes /\ Registered /\ FanOuts /\ QueueSound(c) /\ Behind(c)
    BY DEF StreamInv
  <2>2. /\ log \in Nat /\ at \in [Threads -> Nat] /\ pending \in [Threads -> Nat]
        /\ subscribers \in Seq(Clients)
    BY <2>1 DEF StreamTypes
  <2>3. DOMAIN subscribers = 1 .. Len(subscribers) /\ Len(subscribers) \in Nat
    BY <2>2
  <2> QED
    BY <2>1, <2>2, <2>3
<1>1. /\ log' = log /\ pending' = pending /\ at' = at
      /\ dropped' = dropped /\ unpublished' = unpublished /\ late' = late
      /\ after' = after /\ received' = received
      /\ conn' = [conn EXCEPT ![c] = "closed"]
      /\ queue' = [queue EXCEPT ![c] = <<>>]
      /\ last' = [last EXCEPT ![c] = 0]
      /\ replayTo' = [replayTo EXCEPT ![c] = 0]
      /\ subscribers' = IF In THEN Without(c) ELSE subscribers
  BY <1>2 DEF Close, writer, client
<1>3. /\ disturbed \subseteq disturbed' /\ disturbed' \in SUBSET Nat
      /\ \A u \in Threads : Left(u) => pending[u] \in disturbed'
  <2>1. disturbed' = disturbed \cup {pending[t] : t \in {u \in Threads :
                                     \E i \in 1 .. at[u] \cap DOMAIN subscribers : subscribers[i] = c}}
    BY DEF Close
  <2>2. disturbed \in SUBSET Nat
    BY <1>2 DEF StreamTypes
  <2>3. \A u \in Threads : Left(u) => \E i \in 1 .. at[u] \cap DOMAIN subscribers : subscribers[i] = c
    BY <1>2
  <2> QED
    BY <2>1, <2>2, <2>3, <1>2
<1>4. /\ Len(subscribers') \in Nat /\ subscribers' \in Seq(Clients)
      /\ \A i \in 1 .. Len(subscribers') : subscribers'[i] \in Clients /\ subscribers'[i] # c
                                           /\ \E j \in 1 .. Len(subscribers) : subscribers'[i] = subscribers[j]
      /\ \A i, j \in 1 .. Len(subscribers') : subscribers'[i] = subscribers'[j] => i = j
      /\ \A i \in 1 .. Len(subscribers) : subscribers[i] # c =>
           \E j \in 1 .. Len(subscribers') : subscribers'[j] = subscribers[i]
      /\ \A u \in Threads : ~ Left(u) =>
           /\ at[u] <= Len(subscribers) => at[u] <= Len(subscribers')
           /\ \A i \in 1 .. Len(subscribers') : i <= at[u] =>
                i \in 1 .. Len(subscribers) /\ subscribers'[i] = subscribers[i]
  <2>1. CASE ~ In
    <3>1. subscribers' = subscribers
      BY <2>1, <1>1
    <3>2. \A i \in 1 .. Len(subscribers) : subscribers[i] \in Clients /\ subscribers[i] # c
      BY <2>1, <1>2
    <3> QED
      BY <3>1, <3>2, <1>2 DEF Registered
  <2>2. CASE In
    <3>1. PICK p \in 1 .. Len(subscribers) : subscribers[p] = c
      BY <2>2
    <3>2. subscribers' = Without(c)
      BY <2>2, <1>1
    <3>3. PICK n \in Nat : n + 1 = Len(subscribers)
      <4>1. Len(subscribers) - 1 \in Nat /\ (Len(subscribers) - 1) + 1 = Len(subscribers)
        BY <3>1, <1>2
      <4> QED
        BY <4>1
    <3>4. /\ subscribers' \in Seq(Clients) /\ Len(subscribers') = n
          /\ \A i \in 1 .. n : subscribers'[i] = subscribers[IF i < p THEN i ELSE i + 1]
      <4>1. /\ Without(c) \in Seq(Clients) /\ Len(Without(c)) = Len(subscribers) - 1
            /\ \A i \in 1 .. Len(subscribers) - 1 :
                 Without(c)[i] = subscribers[IF i < p THEN i ELSE i + 1]
        BY <3>1, <1>2, WithoutFacts
      <4>2. Len(subscribers) - 1 = n
        BY <3>3
      <4> QED
        BY <4>1, <4>2, <3>2
    <3>5. \A i \in 1 .. n : \E j \in 1 .. n + 1 : /\ subscribers'[i] = subscribers[j] /\ j # p
                                                  /\ j = IF i < p THEN i ELSE i + 1
      BY <3>4
    <3>6. \A i, j \in 1 .. n + 1 : subscribers[i] = subscribers[j] => i = j
      BY <1>2, <3>3 DEF Registered
    <3>7. \A i \in 1 .. n + 1 : subscribers[i] \in Clients
      BY <1>2, <3>3
    <3>8. \A i \in 1 .. n : subscribers'[i] \in Clients /\ subscribers'[i] # c
                            /\ \E j \in 1 .. Len(subscribers) : subscribers'[i] = subscribers[j]
      BY <3>1, <3>3, <3>5, <3>6, <3>7
    <3>9. \A i, j \in 1 .. n : subscribers'[i] = subscribers'[j] => i = j
      BY <3>1, <3>5, <3>6
    <3>10. \A i \in 1 .. n + 1 : subscribers[i] # c => \E j \in 1 .. n : subscribers'[j] = subscribers[i]
      <4> SUFFICES ASSUME NEW i \in 1 .. n + 1, subscribers[i] # c
                   PROVE  \E j \in 1 .. n : subscribers'[j] = subscribers[i]
        OBVIOUS
      <4>1. CASE i < p
        <5>1. i \in 1 .. n
          BY <4>1, <3>1, <3>3
        <5> QED
          BY <4>1, <5>1, <3>4
      <4>2. CASE i > p
        <5>1. i - 1 \in 1 .. n /\ ~ (i - 1 < p) /\ (i - 1) + 1 = i
          BY <4>2, <3>1, <3>3
        <5> QED
          BY <5>1, <3>4
      <4> QED
        BY <4>1, <4>2, <3>1, <3>3
    <3>11. ASSUME NEW u \in Threads, ~ Left(u)
           PROVE  /\ at[u] <= Len(subscribers) => at[u] <= n
                  /\ \A i \in 1 .. n : i <= at[u] =>
                       i \in 1 .. Len(subscribers) /\ subscribers'[i] = subscribers[i]
      <4>1. at[u] < p /\ at[u] \in Nat
        BY <3>1, <3>11, <1>2
      <4> QED
        BY <4>1, <3>1, <3>3, <3>4
    <3> QED
      BY <3>3, <3>4, <3>8, <3>9, <3>10, <3>11
  <2> QED
    BY <2>1, <2>2
<1> HIDE DEF In, Left
<1>5. StreamTypes'
  <2>1. /\ conn' \in [Clients -> {"closed", "requested", "snapshot", "replay", "live"}]
        /\ last' \in [Clients -> Nat] /\ replayTo' \in [Clients -> 0 .. log']
    BY <1>1, <1>2 DEF StreamTypes
  <2>2. queue' \in [Clients -> Seq(Nat)]
    <3>1. queue \in [Clients -> Seq(Nat)] /\ <<>> \in Seq(Nat)
      BY <1>2 DEF StreamTypes
    <3> QED
      BY <3>1, <1>1
  <2> QED
    BY <2>1, <2>2, <1>1, <1>2, <1>3, <1>4 DEF StreamTypes
<1>6. /\ ClientTurn(c)
      /\ conn'[c] = "closed" /\ queue'[c] = <<>>
      /\ \A d \in Clients : d # c => conn'[d] = conn[d] /\ last'[d] = last[d]
  BY <1>1, <1>2, <1>3 DEF ClientTurn, SameClient, StreamTypes
<1>7. \A d \in Clients : Subscribed(d)' <=> Subscribed(d) /\ d # c
  BY <1>6 DEF Subscribed
<1>8. Registered'
  <2>1. ASSUME NEW i \in 1 .. Len(subscribers')
        PROVE  Subscribed(subscribers[i])'
    <3>1. subscribers'[i] \in Clients /\ subscribers'[i] # c
      BY <1>4
    <3>2. PICK j \in 1 .. Len(subscribers) : subscribers'[i] = subscribers[j]
      BY <1>4
    <3>3. Subscribed(subscribers[j])
      BY <1>2 DEF Registered
    <3> QED
      BY <3>1, <3>2, <3>3, <1>6 DEF Subscribed
  <2>2. \A d \in Clients : Subscribed(d)' => \E i \in 1 .. Len(subscribers') : subscribers'[i] = d
    BY <1>2, <1>4, <1>7 DEF Registered
  <2> QED
    BY <2>1, <2>2, <1>4 DEF Registered
<1>9. FanOuts'
  <2>1. ASSUME NEW u \in Threads, pending[u] # 0
        PROVE  at[u] <= Len(subscribers') \/ pending[u] \in disturbed'
    <3>1. at[u] <= Len(subscribers) \/ pending[u] \in disturbed
      BY <2>1, <1>2 DEF FanOuts
    <3>2. CASE Left(u)
      BY <3>2, <1>3
    <3>3. CASE ~ Left(u)
      BY <3>1, <3>3, <1>3, <1>4
    <3> QED
      BY <3>2, <3>3
  <2> QED
    BY <2>1, <1>1, <1>2 DEF FanOuts
<1>10. /\ Onward /\ MoreGone /\ \A e : Pending(e) <=> Pending(e)'
       /\ \A d \in Clients : d # c => /\ QueueSound(d)' /\ Behind(d)' /\ Ahead(d)'
                                      /\ \A e \in Nat : Due(d, e) => Due(d, e)'
  BY <1>5, <1>6, TurnFrame
<1>11. QueueSound(c)'
  BY <1>6 DEF QueueSound
<1>12. Behind(c)'
  BY <1>1, <1>2, <1>5, <1>10, BehindFrame
<1>13. Ahead(c)'
  BY <1>7 DEF Ahead
<1>14. ASSUME NEW u \in Threads
       PROVE  Passed(u)'
  <2> SUFFICES ASSUME NEW i \in 1 .. Len(subscribers'), pending[u] # 0, i <= at[u],
                      last'[subscribers'[i]] < pending[u]
               PROVE  Due(subscribers[i], pending[u])'
    BY <1>1 DEF Passed
  <2>1. PICK d \in Clients, e \in Nat : d = subscribers'[i] /\ e = pending[u] /\ d # c
    BY <1>2, <1>4
  <2>2. Due(d, e)'
    <3>1. CASE Left(u)
      BY <3>1, <2>1, <1>3 DEF Due, Gone
    <3>2. CASE ~ Left(u)
      <4>1. i \in 1 .. Len(subscribers) /\ d = subscribers[i]
        BY <3>2, <2>1, <1>4
      <4>2. last[d] < e
        BY <2>1, <1>6
      <4>3. Due(d, e)
        BY <4>1, <4>2, <2>1 DEF StreamInv, Passed
      <4> QED
        BY <4>3, <2>1, <1>10
    <3> QED
      BY <3>1, <3>2
  <2>3. subscribers'[i] = d /\ pending'[u] = e
    BY <2>1, <1>1
  <2> QED
    BY <2>2, <2>3 DEF Due, Gone, Queued
<1> QED
  BY <1>5, <1>8, <1>9, <1>10, <1>11, <1>12, <1>13, <1>14 DEF StreamInv

-----------------------------------------------------------------------------
\* Every step keeps the invariant.
LEMMA StreamStep == SizeAssumption /\ StreamInv /\ [Next]_vars => StreamInv'
<1> SUFFICES ASSUME SizeAssumption, StreamInv, [Next]_vars
             PROVE  StreamInv'
  OBVIOUS
<1>1. CASE UNCHANGED vars
  BY <1>1 DEF StreamInv, StreamTypes, Registered, FanOuts, QueueSound, Behind, Ahead, Passed, Due, Gone,
              Queued, Pending, Started, Subscribed, Overtaken, vars, writer, server, client, history
<1>2. CASE \E t \in Threads : commit_event(t) \/ Publish(t)
  BY <1>2, CommitStep, FanoutStep, FanoutEndStep DEF Publish
<1>3. CASE reconcile_runtime
  BY <1>3, ReconcileStep
<1>4. CASE \E c \in Clients : request_stream(c) \/ Generate(c) \/ disconnect(c)
  <2> SUFFICES ASSUME NEW c \in Clients, request_stream(c) \/ Generate(c) \/ disconnect(c)
               PROVE  StreamInv'
    BY <1>4
  <2>1. CASE request_stream(c)
    BY <2>1, AskSteps
  <2>2. CASE subscribe(c)
    <3>1. Subscribe(c) \/ conn'[c] = "closed"
      <4>1. conn \in [Clients -> {"closed", "requested", "snapshot", "replay", "live"}]
        BY DEF StreamInv, StreamTypes
      <4> QED
        BY <4>1, <2>2 DEF subscribe
    <3> QED
      BY <3>1, <2>2, AskSteps, JoinStep
  <2>3. CASE heartbeat(c) \/ disconnect(c)
    BY <2>3, CloseStep DEF heartbeat, disconnect
  <2> QED
    BY <2>1, <2>2, <2>3, ListStep, ReplayStep, LiveStep DEF Generate
<1> QED
  BY <1>1, <1>2, <1>3, <1>4 DEF Next

\* Nothing is persisted and nobody is connected at first.
LEMMA StreamBegins == Init => StreamInv
<1> SUFFICES ASSUME Init PROVE StreamInv
  OBVIOUS
<1>1. StreamTypes
  BY DEF Init, StreamTypes
<1>2. Registered /\ FanOuts /\ \A t \in Threads : Passed(t)
  BY DEF Init, Registered, FanOuts, Passed, Subscribed
<1>3. \A c \in Clients : QueueSound(c) /\ Behind(c) /\ Ahead(c)
  BY DEF Init, QueueSound, Behind, Ahead, Subscribed
<1> QED
  BY <1>1, <1>2, <1>3 DEF StreamInv

\* The hand-over from the persisted list to the live queue loses nothing: what a monitor
\* has not received below the event it resumes from was refused by its full queue, never
\* published, overtaken by a later fan-out, disturbed by a leaving monitor, or is still to
\* be fanned out (stream_events, _fanout, the client's handleMessage).
THEOREM LossExplainedInvariant == Spec => []LossExplained
<1>1. StreamInv => LossExplained
  <2> SUFFICES ASSUME StreamInv, NEW c \in Clients, NEW e \in 1 .. after[c]
               PROVE  e \in received[c] \/ e \in Excused(c)
    BY DEF LossExplained
  <2>1. e \in received[c] \/ e \in Gone(c) \/ Pending(e)
    BY DEF StreamInv, Behind
  <2> QED
    BY <2>1 DEF Excused, Gone, Pending
<1> QED
  BY <1>1, StreamBegins, StreamStep, SizeAssumption, PTL DEF Spec

==============================================================================
