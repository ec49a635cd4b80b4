----------------------------- MODULE BrainStream -----------------------------
(***************************************************************************)
(* The live event stream: EventBroadcaster (src/axiom/ingest/broadcaster), *)
(* the /ws/brain handler that feeds one subscription to one WebSocket, and *)
(* one browser page with its BrainSocket connections, its store and the    *)
(* HTTP bootstrap that loads the whole graph.                              *)
(*                                                                         *)
(* An event announces one entity, numbered in the order the ingest         *)
(* pipeline committed it; its payload and the other event types are left   *)
(* out.  A page opens two sockets (the brain view and the status bridge)   *)
(* that feed one store.  The server runs on one event loop: what happens   *)
(* between two awaits is one step.  A broken connection ends the server's  *)
(* generator at once (the code notices at its next send), and an event     *)
(* lost on the wire is a connection that breaks before it is delivered.    *)
(* The definitions marked "Fault" are not part of the specification: each  *)
(* is a way its code could go wrong that a property must notice.           *)
(***************************************************************************)
EXTENDS Naturals, Sequences, FiniteSets

CONSTANTS
  Sockets,      \* the page's BrainSocket objects
  Capacity,     \* BUFFER_CAPACITY of the replay buffer
  QueueMax,     \* maxsize of a subscriber's queue
  Bad,          \* entities whose envelope cannot be serialized
  MaxEvents,    \* bound on the entities committed
  MaxRestarts,  \* bound on server restarts
  NotFetched    \* no bootstrap response on its way

ASSUME StreamAssumption ==
  /\ Capacity \in Nat \ {0}
  /\ QueueMax \in Nat \ {0}
  /\ MaxEvents \in Nat
  /\ MaxRestarts \in Nat

VARIABLES
  committed,  \* number of entities committed to the database
  toPublish,  \* committed entities whose event is not published yet
  seq,        \* EventBroadcaster._seq
  buffer,     \* EventBroadcaster._buffer: the newest events, oldest first
  subs,       \* EventBroadcaster._subscribers
  queue,      \* each subscriber's asyncio.Queue
  phase,      \* where the subscribe() generator of each socket is
  todo,       \* rest of the snapshot a generator is replaying
  lastSeq,    \* BrainSocket.lastSeq
  storeSeq,   \* lastSeq of the page's store
  entities,   \* entities in the page's store
  fetched,    \* the bootstrap response on its way, or NotFetched
  restarts    \* server restarts so far

serverVars == <<committed, toPublish, seq, buffer>>
connVars == <<subs, queue, phase, todo>>
pageVars == <<lastSeq, storeSeq, entities, fetched>>
vars == <<serverVars, connVars, pageVars, restarts>>

Event == [seq: Nat, entity: 1..MaxEvents]

-----------------------------------------------------------------------------
(* The server.                                                             *)

\* The pipeline commits an entity, before it publishes anything about it.
Commit ==
  /\ committed < MaxEvents
  /\ committed' = committed + 1
  /\ toPublish' = toPublish \cup {committed + 1}
  /\ UNCHANGED <<seq, buffer, connVars, pageVars, restarts>>

\* deque(maxlen): appending to a full buffer drops its oldest event.
PushBounded(b, e) ==
  IF Len(b) < Capacity THEN Append(b, e) ELSE Append(Tail(b), e)

\* Fault: a subscriber whose queue is full misses the event and stays.
PublishSkippingFull(n) ==
  LET e == [seq |-> seq + 1, entity |-> n] IN
  /\ n \in toPublish
  /\ toPublish' = toPublish \ {n}
  /\ seq' = seq + 1
  /\ buffer' = PushBounded(buffer, e)
  /\ queue' = [s \in Sockets |->
                 IF s \in subs /\ Len(queue[s]) < QueueMax
                 THEN Append(queue[s], e) ELSE queue[s]]
  /\ UNCHANGED <<committed, subs, phase, todo, pageVars, restarts>>

\* publish: number the event, buffer it, and hand it to every subscriber; a
\* subscriber whose queue is full is dropped, and is not told.
Publish(n) ==
  LET e == [seq |-> seq + 1, entity |-> n]
      full == {s \in subs : Len(queue[s]) >= QueueMax}
  IN
  /\ n \in toPublish
  /\ toPublish' = toPublish \ {n}
  /\ seq' = seq + 1
  /\ buffer' = PushBounded(buffer, e)
  /\ subs' = subs \ full
  /\ queue' = [s \in Sockets |->
                 IF s \in subs \ full THEN Append(queue[s], e) ELSE queue[s]]
  /\ UNCHANGED <<committed, phase, todo, pageVars, restarts>>

\* The generator goes on after its replay: it creates its queue and
\* subscribes.
Subscribe(s) ==
  /\ subs' = subs \cup {s}
  /\ queue' = [queue EXCEPT ![s] = <<>>]
  /\ phase' = [phase EXCEPT ![s] = "live"]

\* Events after `since` in the buffer: its end, because the numbers grow
\* along it.
Since(since) ==
  LET old == {i \in DOMAIN buffer : buffer[i].seq <= since}
  IN  SubSeq(buffer, Cardinality(old) + 1, Len(buffer))

\* A socket connects with ?since=lastSeq and the generator copies the buffer.
\* With nothing to replay it subscribes before it gives up the event loop.
Connect(s) ==
  /\ phase[s] = "offline"
  /\ \/ /\ Since(lastSeq[s]) = <<>>
        /\ Subscribe(s)
        /\ UNCHANGED todo
     \/ /\ Since(lastSeq[s]) # <<>>
        /\ phase' = [phase EXCEPT ![s] = "replay"]
        /\ todo' = [todo EXCEPT ![s] = Since(lastSeq[s])]
        /\ UNCHANGED <<subs, queue>>
  /\ UNCHANGED <<serverVars, pageVars, restarts>>

\* The end of the replay.
GoLive(s) ==
  /\ phase[s] = "replay"
  /\ todo[s] = <<>>
  /\ Subscribe(s)
  /\ UNCHANGED <<serverVars, todo, pageVars, restarts>>

-----------------------------------------------------------------------------
(* The page.                                                               *)

\* BrainSocket.onmessage and the store's applyEvent: the socket remembers the
\* largest number it saw, the store ignores numbers it has passed.
Receive(s, e) ==
  /\ lastSeq' = [lastSeq EXCEPT ![s] = IF e.seq > @ THEN e.seq ELSE @]
  /\ \/ /\ e.seq <= storeSeq
        /\ UNCHANGED <<storeSeq, entities>>
     \/ /\ e.seq > storeSeq
        /\ storeSeq' = e.seq
        /\ entities' = entities \cup {e.entity}
  /\ UNCHANGED fetched

\* ws_brain sends one envelope; one that cannot be serialized is logged and
\* dropped.
Send(s, e) ==
  IF e.entity \in Bad THEN UNCHANGED pageVars ELSE Receive(s, e)

\* One replayed event is sent; publishers may run while the send waits.
Replay(s) ==
  /\ phase[s] = "replay"
  /\ todo[s] # <<>>
  /\ Send(s, Head(todo[s]))
  /\ todo' = [todo EXCEPT ![s] = Tail(@)]
  /\ UNCHANGED <<serverVars, subs, queue, phase, restarts>>

\* Fault: an envelope that cannot be serialized is tried again for ever.
DeliverRetrying(s) ==
  /\ phase[s] = "live"
  /\ queue[s] # <<>>
  /\ Send(s, Head(queue[s]))
  /\ queue' = [queue EXCEPT ![s] =
                 IF Head(@).entity \in Bad THEN @ ELSE Tail(@)]
  /\ UNCHANGED <<serverVars, subs, phase, todo, restarts>>

\* One queued event is sent.
Deliver(s) ==
  /\ phase[s] = "live"
  /\ queue[s] # <<>>
  /\ Send(s, Head(queue[s]))
  /\ queue' = [queue EXCEPT ![s] = Tail(@)]
  /\ UNCHANGED <<serverVars, subs, phase, todo, restarts>>

\* The generators of these sockets are closed, with what they had queued.
Close(S) ==
  /\ subs' = subs \ S
  /\ queue' = [s \in Sockets |-> IF s \in S THEN <<>> ELSE queue[s]]
  /\ todo' = [s \in Sockets |-> IF s \in S THEN <<>> ELSE todo[s]]
  /\ phase' = [s \in Sockets |-> IF s \in S THEN "offline" ELSE phase[s]]

\* The network connection breaks; BrainSocket retries after a delay.
Disconnect(s) ==
  /\ phase[s] # "offline"
  /\ Close({s})
  /\ UNCHANGED <<serverVars, pageVars, restarts>>

\* The component that owns the socket is mounted again: a new BrainSocket,
\* starting from 0, feeds the same store.
Remount(s) ==
  /\ lastSeq[s] # 0
  /\ Close({s})
  /\ lastSeq' = [lastSeq EXCEPT ![s] = 0]
  /\ UNCHANGED <<serverVars, storeSeq, entities, fetched, restarts>>

\* The bootstrap request is answered from the database ...
BootstrapRead ==
  /\ fetched = NotFetched
  /\ fetched' = 1..committed
  /\ UNCHANGED <<serverVars, connVars, lastSeq, storeSeq, entities, restarts>>

\* ... and its answer replaces the store's entities.
BootstrapApply ==
  /\ fetched # NotFetched
  /\ entities' = fetched
  /\ fetched' = NotFetched
  /\ UNCHANGED <<serverVars, connVars, lastSeq, storeSeq, restarts>>

\* The server process is restarted: numbering, buffer and subscriptions are
\* in memory and start again, events not yet published are lost.
Restart ==
  /\ restarts < MaxRestarts
  /\ restarts' = restarts + 1
  /\ seq' = 0
  /\ buffer' = <<>>
  /\ toPublish' = {}
  /\ Close(Sockets)
  /\ UNCHANGED <<committed, pageVars>>

Init ==
  /\ committed = 0 /\ toPublish = {} /\ seq = 0 /\ buffer = <<>>
  /\ subs = {}
  /\ queue = [s \in Sockets |-> <<>>]
  /\ phase = [s \in Sockets |-> "offline"]
  /\ todo = [s \in Sockets |-> <<>>]
  /\ lastSeq = [s \in Sockets |-> 0]
  /\ storeSeq = 0 /\ entities = {} /\ fetched = NotFetched
  /\ restarts = 0

Next ==
  \/ Commit
  \/ \E n \in 1..MaxEvents : Publish(n)
  \/ \E s \in Sockets :
       \/ Connect(s) \/ Replay(s) \/ GoLive(s) \/ Deliver(s)
       \/ Disconnect(s) \/ Remount(s)
  \/ BootstrapRead \/ BootstrapApply
  \/ Restart

Spec == Init /\ [][Next]_vars

\* The event loop resumes every generator whose send has finished, and
\* onclose always schedules a new connection.
Fairness ==
  \A s \in Sockets :
    /\ WF_vars(Connect(s))
    /\ WF_vars(Replay(s) \/ GoLive(s))
    /\ WF_vars(Deliver(s))

FairSpec == Spec /\ Fairness

-----------------------------------------------------------------------------
(* Correctness.                                                            *)

\* Shapes and bounds, and what each phase of a generator has to hand.
TypeOK ==
  /\ committed \in 0..MaxEvents
  /\ toPublish \subseteq 1..committed
  /\ seq \in 0..committed
  /\ buffer \in Seq(Event) /\ Len(buffer) <= Capacity
  /\ subs \subseteq {s \in Sockets : phase[s] = "live"}
  /\ phase \in [Sockets -> {"offline", "replay", "live"}]
  /\ \A s \in Sockets :
       /\ queue[s] \in Seq(Event) /\ Len(queue[s]) <= QueueMax
       /\ todo[s] \in Seq(Event)
       /\ phase[s] # "live" => queue[s] = <<>>
       /\ phase[s] # "replay" => todo[s] = <<>>
  /\ lastSeq \in [Sockets -> 0..MaxEvents]
  /\ storeSeq \in 0..MaxEvents
  /\ entities \subseteq 1..committed
  /\ fetched = NotFetched \/ fetched \subseteq 1..committed
  /\ restarts \in 0..MaxRestarts

\* Events with consecutive numbers that end with number n.
EndsAt(events, n) ==
  \A i \in DOMAIN events : events[i].seq = n - Len(events) + i

\* Queues are exact.  A subscription misses nothing: from the moment it is
\* registered until it is dropped, what waits in its queue is the newest
\* events, in order, so that every event published since has been sent or is
\* waiting.  And until the server restarts, no socket is sent an event again
\* that it has received, not even across reconnects, and never an older one.
QueuesAreExact ==
  /\ TypeOK
  /\ \A s \in subs : EndsAt(queue[s], seq)
  /\ restarts = 0 =>
       \A s \in Sockets :
         LET rest == todo[s] \o queue[s] IN
         /\ \A i \in DOMAIN rest : rest[i].seq > lastSeq[s]
         /\ \A i, j \in DOMAIN rest : i < j => rest[i].seq < rest[j].seq

\* An event that waits in a queue reaches its page or the connection ends.
QueuedEventsArrive ==
  \A s \in Sockets : queue[s] # <<>> ~> (queue[s] = <<>> \/ phase[s] = "offline")

=============================================================================
