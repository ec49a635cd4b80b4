---------------------------- MODULE Studio_proofs ----------------------------
(***************************************************************************)
(* Proofs about what runs in the Studio's process: the event stream        *)
(* (BrainStream), the limiter of its paid calls (PaidCalls) and the agents *)
(* of its event loop, one of which listens to that stream (Upkeep).  Their *)
(* specifications stand side by side.                                      *)
(***************************************************************************)
EXTENDS BrainStream, PaidCalls, Upkeep, SequenceTheorems, FiniteSetTheorems,
        WellFoundedInduction, TLAPS

-----------------------------------------------------------------------------
(* The event stream: its inductive invariant.                              *)

USE StreamAssumption

\* Events published since the server started, of entities it has committed.
Sent == [seq : 1..seq, entity : 1..committed]

\* Numbers grow along a sequence of events, and are all above n.
Rising(q) == \A i, j \in DOMAIN q : i < j => q[i].seq < q[j].seq
Above(q, n) == \A i \in DOMAIN q : q[i].seq > n

\* The shapes of the state.  A number is taken by one committed entity only.
Shapes ==
  /\ committed \in 0..MaxEvents
  /\ toPublish \subseteq 1..committed
  /\ seq \in Nat /\ seq + Cardinality(toPublish) <= committed
  /\ buffer \in Seq(Sent) /\ Len(buffer) <= Capacity
  /\ subs \subseteq Sockets
  /\ queue \in [Sockets -> Seq(Sent)] /\ todo \in [Sockets -> Seq(Sent)]
  /\ phase \in [Sockets -> {"offline", "replay", "live"}]
  /\ lastSeq \in [Sockets -> 0..MaxEvents]
  /\ storeSeq \in 0..MaxEvents
  /\ entities \subseteq 1..committed
  /\ fetched = NotFetched \/ fetched \subseteq 1..committed
  /\ restarts \in 0..MaxRestarts

\* What waits for one socket.
SocketInv(s) ==
  /\ Len(queue[s]) <= QueueMax
  /\ s \in subs => phase[s] = "live" /\ EndsAt(queue[s], seq)
  /\ phase[s] # "live" => queue[s] = <<>>
  /\ phase[s] # "replay" => todo[s] = <<>>
  /\ Rising(queue[s]) /\ Rising(todo[s])
  /\ restarts = 0 => /\ lastSeq[s] <= seq
                     /\ Above(queue[s], lastSeq[s]) /\ Above(todo[s], lastSeq[s])

StreamInv ==
  /\ Shapes
  /\ EndsAt(buffer, seq)
  /\ \A s \in Sockets : SocketInv(s)

-----------------------------------------------------------------------------
(* Sequences of events.                                                    *)

\* Nothing is in order, and above everything.
LEMMA EmptyQueue ==
  ASSUME NEW S, NEW n
  PROVE  /\ <<>> \in Seq(S) /\ Len(<<>>) = 0
         /\ Rising(<<>>) /\ Above(<<>>, n) /\ EndsAt(<<>>, n)
BY DEF Rising, Above, EndsAt

\* A sequence over a set is one over a larger set.
LEMMA LargerSeq ==
  ASSUME NEW S, NEW T, S \subseteq T, NEW q \in Seq(S)
  PROVE  q \in Seq(T)
OBVIOUS

\* An event that follows all others stays in order at the end.
LEMMA Appended ==
  ASSUME NEW S, NEW q \in Seq(S), NEW e \in S, NEW n \in Nat, NEW m,
         \A d \in S : d.seq \in Nat,
         e.seq = n + 1
  PROVE  /\ Append(q, e) \in Seq(S) /\ Len(Append(q, e)) = Len(q) + 1
         /\ EndsAt(q, n) => EndsAt(Append(q, e), n + 1)
         /\ Rising(q) /\ (\A i \in DOMAIN q : q[i].seq <= n) => Rising(Append(q, e))
         /\ Above(q, m) /\ m \in Nat /\ m <= n => Above(Append(q, e), m)
<1> DEFINE r == Append(q, e)
<1>1. /\ r \in Seq(S) /\ Len(r) = Len(q) + 1 /\ DOMAIN q = 1..Len(q) /\ DOMAIN r = 1..(Len(q) + 1)
      /\ Len(q) \in Nat /\ r[Len(q) + 1] = e
      /\ \A i \in 1..Len(q) : r[i] = q[i]
  OBVIOUS
<1> HIDE DEF r
<1>2. ASSUME EndsAt(q, n) PROVE EndsAt(r, n + 1)
  <2>1. ASSUME NEW i \in 1..(Len(q) + 1) PROVE r[i].seq = (n + 1) - (Len(q) + 1) + i
    <3>1. CASE i = Len(q) + 1
      BY <1>1, <3>1
    <3>2. CASE i # Len(q) + 1
      <4>1. i \in 1..Len(q) /\ i \in Nat
        BY <1>1, <3>2
      <4>2. q[i].seq = n - Len(q) + i /\ r[i] = q[i]
        BY <1>1, <1>2, <4>1 DEF EndsAt
      <4>3. n - Len(q) + i = (n + 1) - (Len(q) + 1) + i
        BY <1>1, <4>1
      <4> QED BY <4>2, <4>3
    <3> QED BY <3>1, <3>2
  <2> QED BY <1>1, <2>1 DEF EndsAt
<1>3. ASSUME Rising(q), \A i \in DOMAIN q : q[i].seq <= n PROVE Rising(r)
  <2>1. ASSUME NEW i \in DOMAIN r, NEW j \in DOMAIN r, i < j PROVE r[i].seq < r[j].seq
    <3>1. i \in 1..Len(q) /\ q[i] \in S
      BY <1>1, <2>1
    <3>2. CASE j = Len(q) + 1
      BY <1>1, <1>3, <3>1, <3>2
    <3>3. CASE j \in 1..Len(q)
      BY <1>1, <1>3, <2>1, <3>1, <3>3 DEF Rising
    <3> QED BY <1>1, <3>2, <3>3
  <2> QED BY <2>1 DEF Rising
<1>4. Above(q, m) /\ m \in Nat /\ m <= n => Above(r, m)
  BY <1>1 DEF Above
<1> QED BY <1>1, <1>2, <1>3, <1>4 DEF r

\* What is left after the first event.
LEMMA TailOf ==
  ASSUME NEW S, NEW q \in Seq(S), q # <<>>, \A d \in S : d.seq \in Nat
  PROVE  /\ Head(q) \in S /\ Head(q) = q[1] /\ 1 \in DOMAIN q
         /\ Tail(q) \in Seq(S) /\ Len(Tail(q)) = Len(q) - 1 /\ Len(q) \in Nat
         /\ \A n \in Nat : EndsAt(q, n) => EndsAt(Tail(q), n)
         /\ Rising(q) => Rising(Tail(q)) /\ Above(Tail(q), Head(q).seq)
         /\ \A m : Above(q, m) => Above(Tail(q), m)
<1> DEFINE r == Tail(q)
<1>1. r \in Seq(S)
  OBVIOUS
<1>2. /\ Len(r) = Len(q) - 1 /\ DOMAIN q = 1..Len(q) /\ DOMAIN r = 1..(Len(q) - 1)
      /\ Len(q) \in Nat \ {0} /\ Head(q) = q[1] /\ Head(q) \in S
      /\ \A i \in 1..(Len(q) - 1) : r[i] = q[i + 1]
  OBVIOUS
<1> HIDE DEF r
<1>3. \A i \in 1..(Len(q) - 1) : i + 1 \in 1..Len(q) /\ 1 < i + 1 /\ r[i] = q[i + 1]
  BY <1>2
<1>4. ASSUME NEW n \in Nat, EndsAt(q, n) PROVE EndsAt(r, n)
  <2>1. ASSUME NEW i \in 1..(Len(q) - 1) PROVE r[i].seq = n - (Len(q) - 1) + i
    <3>1. i + 1 \in 1..Len(q) /\ i \in Nat /\ r[i] = q[i + 1]
      BY <1>2, <1>3
    <3>2. q[i + 1].seq = n - Len(q) + (i + 1)
      BY <1>2, <1>4, <3>1 DEF EndsAt
    <3>3. n - Len(q) + (i + 1) = n - (Len(q) - 1) + i
      BY <1>2, <3>1
    <3> QED BY <3>1, <3>2, <3>3
  <2> QED BY <1>2, <2>1 DEF EndsAt
<1>5. ASSUME Rising(q) PROVE Rising(r) /\ Above(r, Head(q).seq)
  <2>1. \A i, j \in 1..(Len(q) - 1) : i < j => i + 1 < j + 1
    BY <1>2
  <2>2. Rising(r)
    BY <1>2, <1>3, <1>5, <2>1 DEF Rising
  <2>3. 1 \in 1..Len(q)
    BY <1>2
  <2>4. ASSUME NEW i \in 1..(Len(q) - 1) PROVE r[i].seq > q[1].seq
    <3>1. i + 1 \in 1..Len(q) /\ 1 < i + 1
      BY <1>3
    <3>2. q[1].seq < q[i + 1].seq
      BY <1>2, <1>5, <2>3, <3>1 DEF Rising
    <3>3. q[1].seq \in Nat /\ q[i + 1].seq \in Nat
      BY <1>2, <2>3, <3>1
    <3> QED BY <1>3, <3>2, <3>3
  <2> QED BY <1>2, <2>2, <2>4 DEF Above
<1>6. ASSUME NEW m, Above(q, m) PROVE Above(r, m)
  BY <1>2, <1>3, <1>6 DEF Above
<1>7. 1 \in DOMAIN q
  BY <1>2
<1> QED BY <1>1, <1>2, <1>4, <1>5, <1>6, <1>7 DEF r

\* A full buffer drops its oldest event for the newest.
LEMMA Pushed ==
  ASSUME NEW S, NEW b \in Seq(S), NEW e \in S, NEW n \in Nat, \A d \in S : d.seq \in Nat,
         e.seq = n + 1, EndsAt(b, n), Len(b) <= Capacity
  PROVE  /\ PushBounded(b, e) \in Seq(S) /\ Len(PushBounded(b, e)) <= Capacity
         /\ EndsAt(PushBounded(b, e), n + 1)
<1>1. Len(b) \in Nat /\ Capacity \in Nat \ {0}
  OBVIOUS
<1>2. CASE Len(b) < Capacity
  BY <1>1, <1>2, Appended DEF PushBounded
<1>3. CASE ~ (Len(b) < Capacity)
  <2>1. b # <<>> /\ Len(b) = Capacity
    BY <1>1, <1>3
  <2>2. Tail(b) \in Seq(S) /\ Len(Tail(b)) = Capacity - 1 /\ EndsAt(Tail(b), n)
    BY <2>1, TailOf
  <2>3. /\ Append(Tail(b), e) \in Seq(S) /\ Len(Append(Tail(b), e)) = Len(Tail(b)) + 1
        /\ EndsAt(Append(Tail(b), e), n + 1)
    BY <2>2, Appended
  <2> QED BY <1>1, <1>3, <2>2, <2>3 DEF PushBounded
<1> QED BY <1>2, <1>3

\* What is replayed comes in order, and after what the socket has seen.
LEMMA Replayed ==
  ASSUME Shapes, EndsAt(buffer, seq), NEW n \in Nat
  PROVE  Since(n) \in Seq(Sent) /\ Rising(Since(n)) /\ Above(Since(n), n)
<1> DEFINE L == Len(buffer)
           k == IF n - seq + L < 0 THEN 0 ELSE IF n - seq + L > L THEN L ELSE n - seq + L
           old == {i \in DOMAIN buffer : buffer[i].seq <= n}
<1>1. /\ L \in Nat /\ DOMAIN buffer = 1..L /\ seq \in Nat
      /\ \A i \in 1..L : buffer[i] \in Sent /\ buffer[i].seq = seq - L + i
  BY DEF Shapes, EndsAt
<1>2. k \in 0..L
  BY <1>1
<1>3. \A i \in 1..L : seq - L + i <= n <=> i <= k
  BY <1>1
<1>4. old = 1..k
  BY <1>1, <1>2, <1>3
<1>5. Cardinality(1..k) = k
  <2>1. \A m \in Nat : Cardinality(1..m) = m
    <3> TAKE m \in Nat
    <3>1. Cardinality(1..m) = IF 1 > m THEN 0 ELSE m - 1 + 1
      BY FS_Interval
    <3> QED BY <3>1
  <2>2. k \in Nat
    BY <1>1, <1>2
  <2> QED BY <2>1, <2>2
<1> HIDE DEF k, old
<1>6. Since(n) = SubSeq(buffer, k + 1, L)
  BY <1>4, <1>5 DEF Since, old
<1> DEFINE r == SubSeq(buffer, k + 1, L)
<1>7. \A i \in (k + 1)..L : buffer[i] \in Sent
  BY <1>1, <1>2
<1>8. /\ r \in Seq(Sent) /\ Len(r) = L - k
      /\ \A i \in 1..(L - k) : r[i] = buffer[k + i]
  <2>1. k + 1 \in Int /\ L \in Int /\ k \in Int
    BY <1>1, <1>2
  <2>2. /\ r \in Seq(Sent)
        /\ Len(r) = IF k + 1 <= L THEN L - (k + 1) + 1 ELSE 0
        /\ \A i \in 1..(L - (k + 1) + 1) : r[i] = buffer[(k + 1) + i - 1]
    BY <1>7, <2>1, SubSeqProperties
  <2>3. L - (k + 1) + 1 = L - k /\ \A i \in Int : (k + 1) + i - 1 = k + i
    BY <2>1
  <2>4. Len(r) = L - k
    <3>1. \A m \in Nat : \A j \in 0..m : (j + 1 <= m => m - (j + 1) + 1 = m - j) /\ (~ (j + 1 <= m) => m - j = 0)
      OBVIOUS
    <3>2. (k + 1 <= L => L - (k + 1) + 1 = L - k) /\ (~ (k + 1 <= L) => L - k = 0)
      BY <1>1, <1>2, <3>1
    <3> QED BY <2>2, <3>2
  <2>5. ASSUME NEW i \in 1..(L - k) PROVE r[i] = buffer[k + i]
    <3>1. i \in 1..(L - (k + 1) + 1) /\ (k + 1) + i - 1 = k + i
      BY <2>3
    <3>2. r[i] = buffer[(k + 1) + i - 1]
      BY <2>2, <3>1
    <3> QED BY <3>1, <3>2
  <2> QED BY <2>2, <2>4, <2>5
<1> HIDE DEF r
<1>9. \A i \in 1..(L - k) : r[i].seq = seq - L + (k + i) /\ k + i \in 1..L
  <2>1. \A i \in 1..(L - k) : k + i \in 1..L
    BY <1>1, <1>2
  <2> QED BY <1>1, <1>8, <2>1
<1>10. DOMAIN r = 1..(L - k)
  BY <1>8
<1>11. Rising(r)
  <2>1. \A i, j \in 1..(L - k) : i < j => seq - L + (k + i) < seq - L + (k + j)
    BY <1>1, <1>2
  <2> QED BY <1>9, <1>10, <2>1 DEF Rising
<1>12. Above(r, n)
  <2>1. \A i \in 1..(L - k) : seq - L + (k + i) > n
    <3> TAKE i \in 1..(L - k)
    <3>1. k + i \in 1..L /\ ~ (k + i <= k)
      BY <1>1, <1>2
    <3>2. ~ (seq - L + (k + i) <= n)
      BY <1>3, <3>1
    <3> QED BY <1>1, <1>2, <3>1, <3>2
  <2> QED BY <1>9, <1>10, <2>1 DEF Above
<1> QED BY <1>6, <1>8, <1>11, <1>12 DEF r

-----------------------------------------------------------------------------
(* One socket.                                                             *)

\* Numbers never run ahead of the database.
LEMMA Numbers ==
  ASSUME Shapes
  PROVE  /\ IsFiniteSet(toPublish) /\ Cardinality(toPublish) \in Nat
         /\ committed \in Nat /\ seq <= committed /\ seq <= MaxEvents /\ committed <= MaxEvents
         /\ \A e \in Sent : e.seq \in Nat /\ e.seq <= seq /\ e.entity \in 1..committed
<1>1. committed \in Nat /\ seq \in Nat /\ committed <= MaxEvents
  BY DEF Shapes
<1>2. IsFiniteSet(1..committed)
  BY <1>1, FS_Interval
<1>3. IsFiniteSet(toPublish) /\ Cardinality(toPublish) \in Nat
  BY <1>2, FS_Subset, FS_CardinalityType DEF Shapes
<1>4. seq <= committed
  BY <1>1, <1>3 DEF Shapes
<1> QED BY <1>1, <1>3, <1>4 DEF Sent

\* A step that leaves a socket alone.
LEMMA SocketStays ==
  ASSUME NEW s \in Sockets, SocketInv(s), queue'[s] = queue[s], todo'[s] = todo[s],
         phase'[s] = phase[s], s \in subs' => s \in subs, lastSeq'[s] = lastSeq[s],
         UNCHANGED <<seq, restarts>>
  PROVE  SocketInv(s)'
BY DEF SocketInv, Rising, Above, EndsAt

\* A connection that is gone.
LEMMA SocketCloses ==
  ASSUME NEW s \in Sockets, queue'[s] = <<>>, todo'[s] = <<>>, phase'[s] = "offline",
         s \notin subs', restarts' = 0 => lastSeq'[s] <= seq'
  PROVE  SocketInv(s)'
<1>1. Len(<<>>) = 0 /\ QueueMax \in Nat
  OBVIOUS
<1> QED BY <1>1 DEF SocketInv, Rising, Above

\* A generator that has subscribed.
LEMMA SocketSubscribes ==
  ASSUME NEW s \in Sockets, SocketInv(s), queue'[s] = <<>>, todo'[s] = <<>>,
         phase'[s] = "live", lastSeq'[s] = lastSeq[s], UNCHANGED <<seq, restarts>>
  PROVE  SocketInv(s)'
<1>1. Len(<<>>) = 0 /\ QueueMax \in Nat
  OBVIOUS
<1> QED BY <1>1 DEF SocketInv, Rising, Above, EndsAt

-----------------------------------------------------------------------------
(* The steps.                                                              *)

\* An entity is committed: its number of events is one greater.
LEMMA CommitKeeps == ASSUME StreamInv, Commit PROVE StreamInv'
<1>1. Sent \subseteq Sent' /\ committed' = committed + 1 /\ seq' = seq
  <2>1. committed \in Nat
    BY Numbers DEF StreamInv
  <2>2. 1..committed \subseteq 1..(committed + 1)
    BY <2>1
  <2> QED BY <2>2 DEF Commit, Sent
<1>2. /\ UNCHANGED <<seq, buffer, subs, queue, phase, todo, lastSeq, storeSeq, entities, fetched, restarts>>
      /\ committed < MaxEvents /\ toPublish' = toPublish \cup {committed + 1}
  BY DEF Commit, connVars, pageVars
<1>3. Shapes'
  <2>1. /\ committed \in Nat /\ seq \in Nat /\ Cardinality(toPublish) \in Nat
        /\ IsFiniteSet(toPublish) /\ seq + Cardinality(toPublish) <= committed
    BY Numbers DEF StreamInv, Shapes
  <2>2. committed' \in 0..MaxEvents
    BY <1>1, <1>2, <2>1
  <2>3. 1..committed \subseteq 1..committed' /\ committed + 1 \in 1..committed'
    BY <1>1, <2>1
  <2>4. Cardinality(toPublish') <= Cardinality(toPublish) + 1 /\ Cardinality(toPublish') \in Nat
    BY <1>2, <2>1, FS_AddElement
  <2>5. seq' + Cardinality(toPublish') <= committed'
    BY <1>1, <2>1, <2>4
  <2>6. toPublish' \subseteq 1..committed' /\ entities' \subseteq 1..committed'
        /\ (fetched' = NotFetched \/ fetched' \subseteq 1..committed')
    BY <1>2, <2>3 DEF StreamInv, Shapes
  <2>7. buffer' \in Seq(Sent') /\ \A s \in Sockets : queue'[s] \in Seq(Sent') /\ todo'[s] \in Seq(Sent')
    <3>1. \A q \in Seq(Sent) : q \in Seq(Sent')
      BY <1>1, LargerSeq
    <3> QED BY <1>2, <3>1 DEF StreamInv, Shapes
  <2>8. queue' \in [Sockets -> Seq(Sent')] /\ todo' \in [Sockets -> Seq(Sent')]
    BY <1>2, <2>7 DEF StreamInv, Shapes
  <2> QED BY <1>2, <2>1, <2>2, <2>5, <2>6, <2>7, <2>8 DEF StreamInv, Shapes
<1>4. \A s \in Sockets : SocketInv(s)'
  BY <1>2, SocketStays DEF StreamInv
<1>5. EndsAt(buffer, seq)'
  BY <1>2 DEF StreamInv, EndsAt
<1> QED BY <1>3, <1>4, <1>5 DEF StreamInv

\* What a publisher hands to one subscriber, or takes from it.
LEMMA PublishReaches ==
  ASSUME StreamInv, NEW n \in 1..MaxEvents, Publish(n), NEW s \in Sockets,
         [seq |-> seq + 1, entity |-> n] \in Sent', Sent \subseteq Sent'
  PROVE  queue'[s] \in Seq(Sent') /\ SocketInv(s)'
<1> DEFINE e == [seq |-> seq + 1, entity |-> n]
           full == {u \in subs : Len(queue[u]) >= QueueMax}
<1>1. /\ UNCHANGED <<phase, todo, lastSeq, restarts>> /\ seq' = seq + 1 /\ subs' = subs \ full
      /\ queue'[s] = IF s \in subs \ full THEN Append(queue[s], e) ELSE queue[s]
  BY DEF Publish, pageVars
<1>2. /\ e \in Sent' /\ e.seq = seq + 1
      /\ seq \in Nat /\ queue[s] \in Seq(Sent) /\ todo[s] \in Seq(Sent) /\ SocketInv(s)
      /\ lastSeq[s] \in Nat /\ Len(queue[s]) \in Nat
  BY DEF StreamInv, Shapes
<1> HIDE DEF e
<1>3. queue[s] \in Seq(Sent') /\ todo[s] \in Seq(Sent')
  BY <1>2, LargerSeq
<1>4. \A d \in Sent' : d.seq \in Nat
  BY DEF Sent
<1>5. CASE s \in subs \ full
  <2>1. queue'[s] = Append(queue[s], e) /\ Len(queue[s]) < QueueMax /\ phase[s] = "live"
        /\ EndsAt(queue[s], seq)
    BY <1>1, <1>2, <1>5 DEF SocketInv
  <2>2. \A i \in DOMAIN queue[s] : queue[s][i].seq <= seq
    <3>1. \A d \in Sent : d.seq <= seq
      BY Numbers DEF StreamInv
    <3> QED BY <1>2, <3>1
  <2>3. /\ queue'[s] \in Seq(Sent') /\ Len(queue'[s]) = Len(queue[s]) + 1
        /\ EndsAt(queue'[s], seq + 1) /\ Rising(queue'[s])
    <3>1. Rising(queue[s])
      BY <1>2 DEF SocketInv
    <3>2. /\ Append(queue[s], e) \in Seq(Sent') /\ Len(Append(queue[s], e)) = Len(queue[s]) + 1
          /\ EndsAt(Append(queue[s], e), seq + 1)
      BY <1>2, <1>3, <1>4, <2>1, Appended
    <3>3. Rising(Append(queue[s], e))
      BY <1>2, <1>3, <1>4, <2>2, <3>1, Appended
    <3> QED BY <2>1, <3>2, <3>3
  <2>4. restarts = 0 => Above(queue'[s], lastSeq[s])
    BY <1>2, <1>3, <1>4, <2>1, Appended DEF SocketInv
  <2>5. Len(queue'[s]) <= QueueMax
    BY <1>2, <2>1, <2>3
  <2>6. restarts = 0 => lastSeq[s] <= seq + 1
    BY <1>2 DEF SocketInv
  <2>7. EndsAt(queue[s], seq)'
    BY <1>1, <2>3 DEF EndsAt
  <2>8. Rising(queue[s])' /\ (restarts = 0 => Above(queue[s], lastSeq[s])')
    BY <1>1, <2>3, <2>4 DEF Rising, Above
  <2>9. Rising(todo[s])' /\ (restarts = 0 => Above(todo[s], lastSeq[s])')
    BY <1>1, <1>2 DEF SocketInv, Rising, Above
  <2> QED BY <1>1, <1>2, <2>1, <2>3, <2>5, <2>6, <2>7, <2>8, <2>9 DEF SocketInv
<1>6. CASE s \notin subs \ full
  <2>1. queue'[s] = queue[s] /\ s \notin subs'
    BY <1>1, <1>6
  <2>2. restarts = 0 => lastSeq[s] <= seq + 1
    BY <1>2 DEF SocketInv
  <2>3. Rising(todo[s])' /\ (restarts = 0 => Above(todo[s], lastSeq[s])')
    BY <1>1, <1>2 DEF SocketInv, Rising, Above
  <2>4. Rising(queue[s])' /\ (restarts = 0 => Above(queue[s], lastSeq[s])')
    BY <1>1, <1>2, <2>1 DEF SocketInv, Rising, Above
  <2> QED BY <1>1, <1>2, <1>3, <2>1, <2>2, <2>3, <2>4 DEF SocketInv
<1> QED BY <1>5, <1>6

\* An event is numbered, buffered and handed out.
LEMMA PublishKeeps == ASSUME StreamInv, NEW n \in 1..MaxEvents, Publish(n) PROVE StreamInv'
<1> DEFINE e == [seq |-> seq + 1, entity |-> n]
<1>1. /\ UNCHANGED <<committed, phase, todo, lastSeq, storeSeq, entities, fetched, restarts>>
      /\ seq' = seq + 1 /\ subs' \subseteq subs /\ n \in toPublish
      /\ toPublish' = toPublish \ {n} /\ buffer' = PushBounded(buffer, e)
      /\ queue' = [s \in Sockets |-> queue'[s]]
  BY DEF Publish, pageVars
<1>2. Sent \subseteq Sent' /\ e \in Sent'
  <2>1. seq \in Nat /\ n \in 1..committed
    BY <1>1 DEF StreamInv, Shapes
  <2>2. 1..seq \subseteq 1..(seq + 1) /\ seq + 1 \in 1..(seq + 1)
    BY <2>1
  <2> QED BY <1>1, <2>1, <2>2 DEF Sent
<1>3. /\ seq \in Nat /\ committed \in Nat /\ Cardinality(toPublish) \in Nat
      /\ IsFiniteSet(toPublish) /\ seq + Cardinality(toPublish) <= committed
  BY Numbers DEF StreamInv, Shapes
<1>4. /\ Cardinality(toPublish') = Cardinality(toPublish) - 1 /\ seq' \in Nat
      /\ seq' + Cardinality(toPublish') <= committed
  <2>1. Cardinality(toPublish') = Cardinality(toPublish) - 1
    BY <1>1, <1>3, FS_RemoveElement
  <2> QED BY <1>1, <1>3, <2>1
<1>5. e.seq = seq + 1
  OBVIOUS
<1> HIDE DEF e
<1>6. buffer' \in Seq(Sent') /\ Len(buffer') <= Capacity /\ EndsAt(buffer', seq + 1)
  <2>1. buffer \in Seq(Sent') /\ EndsAt(buffer, seq) /\ Len(buffer) <= Capacity
    BY <1>2, LargerSeq DEF StreamInv, Shapes
  <2>2. \A d \in Sent' : d.seq \in Nat
    BY DEF Sent
  <2> QED BY <1>1, <1>2, <1>3, <1>5, <2>1, <2>2, Pushed
<1>7. \A s \in Sockets : queue'[s] \in Seq(Sent') /\ SocketInv(s)'
  BY <1>2, PublishReaches DEF e
<1>8. Shapes'
  <2>1. queue' \in [Sockets -> Seq(Sent')]
    BY <1>1, <1>7
  <2>2. \A s \in Sockets : todo[s] \in Seq(Sent')
    BY <1>2, LargerSeq DEF StreamInv, Shapes
  <2>3. todo' \in [Sockets -> Seq(Sent')]
    BY <1>1, <2>2 DEF StreamInv, Shapes
  <2> QED BY <1>1, <1>4, <1>6, <2>1, <2>3 DEF StreamInv, Shapes
<1>9. EndsAt(buffer, seq)'
  BY <1>1, <1>6 DEF EndsAt
<1> QED BY <1>7, <1>8, <1>9 DEF StreamInv

\* A step of one socket that publishes nothing.
LEMMA OneSocket ==
  ASSUME StreamInv, NEW s \in Sockets, UNCHANGED <<serverVars, restarts>>, Shapes',
         SocketInv(s)', \A u \in Sockets : u # s =>
           /\ queue'[u] = queue[u] /\ todo'[u] = todo[u] /\ phase'[u] = phase[u]
           /\ (u \in subs' => u \in subs) /\ lastSeq'[u] = lastSeq[u]
  PROVE  StreamInv'
<1>1. EndsAt(buffer, seq)'
  BY DEF StreamInv, EndsAt, serverVars
<1>2. ASSUME NEW u \in Sockets PROVE SocketInv(u)'
  <2>1. CASE u # s
    BY <2>1, SocketStays DEF StreamInv, serverVars
  <2> QED BY <2>1
<1> QED BY <1>1, <1>2 DEF StreamInv

\* The server publishes and commits nothing: events stay what they are.
LEMMA SameEvents == ASSUME UNCHANGED serverVars PROVE Sent' = Sent
BY DEF serverVars, Sent

\* What a page does with an event it is sent, or not.
LEMMA PageTakes ==
  ASSUME StreamInv, NEW s \in Sockets, NEW e \in Sent, Send(s, e)
  PROVE  /\ lastSeq' \in [Sockets -> 0..MaxEvents]
         /\ \A u \in Sockets : u # s => lastSeq'[u] = lastSeq[u]
         /\ lastSeq'[s] = lastSeq[s] \/ lastSeq'[s] = e.seq
         /\ storeSeq' \in 0..MaxEvents /\ entities' \subseteq 1..committed /\ fetched' = fetched
<1>1. /\ e.seq \in 0..MaxEvents /\ e.entity \in 1..committed
      /\ lastSeq \in [Sockets -> 0..MaxEvents] /\ storeSeq \in 0..MaxEvents
      /\ entities \subseteq 1..committed
  BY Numbers DEF StreamInv, Shapes
<1>2. CASE UNCHANGED pageVars
  BY <1>1, <1>2 DEF pageVars
<1>3. CASE Receive(s, e)
  <2>1. fetched' = fetched /\ storeSeq' \in 0..MaxEvents /\ entities' \subseteq 1..committed
    BY <1>1, <1>3 DEF Receive
  <2>2. PICK m \in 0..MaxEvents : m \in {e.seq, lastSeq[s]} /\ lastSeq' = [lastSeq EXCEPT ![s] = m]
    BY <1>1, <1>3 DEF Receive
  <2> QED BY <1>1, <2>1, <2>2
<1> QED BY <1>2, <1>3 DEF Send

\* What waits behind the event just sent is still ahead of the socket.
LEMMA SentFromQueue ==
  ASSUME StreamInv, NEW s \in Sockets, NEW q \in Seq(Sent), q # <<>>,
         Rising(q), restarts = 0 => Above(q, lastSeq[s]) /\ lastSeq[s] <= seq,
         lastSeq'[s] = lastSeq[s] \/ lastSeq'[s] = Head(q).seq
  PROVE  /\ Tail(q) \in Seq(Sent) /\ Rising(Tail(q)) /\ Len(Tail(q)) = Len(q) - 1
         /\ restarts = 0 => Above(Tail(q), lastSeq'[s]) /\ lastSeq'[s] <= seq
<1>1. \A d \in Sent : d.seq \in Nat /\ d.seq <= seq
  BY Numbers DEF StreamInv
<1>2. /\ Head(q) \in Sent /\ Tail(q) \in Seq(Sent) /\ Len(Tail(q)) = Len(q) - 1
      /\ Rising(Tail(q)) /\ Above(Tail(q), Head(q).seq)
      /\ \A m : Above(q, m) => Above(Tail(q), m)
  BY <1>1, TailOf
<1> QED BY <1>1, <1>2

\* A queued event is sent.
LEMMA DeliverKeeps == ASSUME StreamInv, NEW s \in Sockets, Deliver(s) PROVE StreamInv'
<1>1. /\ UNCHANGED <<serverVars, subs, phase, todo, restarts>>
      /\ queue[s] # <<>> /\ queue' = [queue EXCEPT ![s] = Tail(@)] /\ Send(s, Head(queue[s]))
  BY DEF Deliver
<1>2. /\ queue[s] \in Seq(Sent) /\ SocketInv(s) /\ todo[s] = <<>> /\ phase[s] = "live"
  BY DEF StreamInv, Shapes, SocketInv, Deliver
<1>3. Head(queue[s]) \in Sent /\ Len(queue[s]) \in Nat
  BY <1>1, <1>2
<1>4. /\ lastSeq' \in [Sockets -> 0..MaxEvents]
      /\ \A u \in Sockets : u # s => lastSeq'[u] = lastSeq[u]
      /\ lastSeq'[s] = lastSeq[s] \/ lastSeq'[s] = Head(queue[s]).seq
      /\ storeSeq' \in 0..MaxEvents /\ entities' \subseteq 1..committed /\ fetched' = fetched
  BY <1>1, <1>3, PageTakes
<1>5. /\ Tail(queue[s]) \in Seq(Sent) /\ Rising(Tail(queue[s]))
      /\ Len(Tail(queue[s])) = Len(queue[s]) - 1
      /\ restarts = 0 => Above(Tail(queue[s]), lastSeq'[s]) /\ lastSeq'[s] <= seq
  BY <1>1, <1>2, <1>4, SentFromQueue DEF SocketInv
<1>6. queue' \in [Sockets -> Seq(Sent)] /\ queue'[s] = Tail(queue[s])
      /\ \A u \in Sockets : u # s => queue'[u] = queue[u]
  BY <1>1, <1>5 DEF StreamInv, Shapes
<1>7. Shapes'
  BY <1>1, <1>4, <1>6, SameEvents DEF StreamInv, Shapes, serverVars
<1>8. s \in subs => EndsAt(Tail(queue[s]), seq)
  <2>1. seq \in Nat /\ \A d \in Sent : d.seq \in Nat
    BY Numbers DEF StreamInv, Shapes
  <2> QED BY <1>1, <1>2, <2>1, TailOf DEF SocketInv
<1>9. SocketInv(s)'
  <2>1. Len(queue'[s]) <= QueueMax
    BY <1>2, <1>3, <1>5, <1>6 DEF SocketInv
  <2>2. /\ (s \in subs => EndsAt(queue[s], seq)') /\ Rising(queue[s])'
        /\ (restarts = 0 => Above(queue[s], lastSeq[s])')
    BY <1>1, <1>5, <1>6, <1>8 DEF EndsAt, Rising, Above, serverVars
  <2>3. Rising(todo[s])' /\ (restarts = 0 => Above(todo[s], lastSeq[s])')
    BY <1>1, <1>2, EmptyQueue DEF Rising, Above
  <2> QED BY <1>1, <1>2, <1>5, <2>1, <2>2, <2>3 DEF SocketInv, serverVars
<1> QED BY <1>1, <1>4, <1>6, <1>7, <1>9, OneSocket

\* An event of the snapshot is sent.
LEMMA ReplayKeeps == ASSUME StreamInv, NEW s \in Sockets, Replay(s) PROVE StreamInv'
<1>1. /\ UNCHANGED <<serverVars, subs, phase, queue, restarts>>
      /\ todo[s] # <<>> /\ todo' = [todo EXCEPT ![s] = Tail(@)] /\ Send(s, Head(todo[s]))
  BY DEF Replay
<1>2. /\ todo[s] \in Seq(Sent) /\ SocketInv(s) /\ queue[s] = <<>> /\ phase[s] = "replay"
      /\ s \notin subs
  BY DEF StreamInv, Shapes, SocketInv, Replay
<1>3. Head(todo[s]) \in Sent
  BY <1>1, <1>2
<1>4. /\ lastSeq' \in [Sockets -> 0..MaxEvents]
      /\ \A u \in Sockets : u # s => lastSeq'[u] = lastSeq[u]
      /\ lastSeq'[s] = lastSeq[s] \/ lastSeq'[s] = Head(todo[s]).seq
      /\ storeSeq' \in 0..MaxEvents /\ entities' \subseteq 1..committed /\ fetched' = fetched
  BY <1>1, <1>3, PageTakes
<1>5. /\ Tail(todo[s]) \in Seq(Sent) /\ Rising(Tail(todo[s]))
      /\ restarts = 0 => Above(Tail(todo[s]), lastSeq'[s]) /\ lastSeq'[s] <= seq
  BY <1>1, <1>2, <1>4, SentFromQueue DEF SocketInv
<1>6. todo' \in [Sockets -> Seq(Sent)] /\ todo'[s] = Tail(todo[s])
      /\ \A u \in Sockets : u # s => todo'[u] = todo[u]
  BY <1>1, <1>5 DEF StreamInv, Shapes
<1>7. Shapes'
  BY <1>1, <1>4, <1>6, SameEvents DEF StreamInv, Shapes, serverVars
<1>8. SocketInv(s)'
  <2>1. Rising(todo[s])' /\ (restarts = 0 => Above(todo[s], lastSeq[s])')
    BY <1>5, <1>6 DEF Rising, Above
  <2>2. Rising(queue[s])' /\ (restarts = 0 => Above(queue[s], lastSeq[s])')
    BY <1>1, <1>2, EmptyQueue DEF Rising, Above
  <2> QED BY <1>1, <1>2, <1>5, <2>1, <2>2 DEF SocketInv, serverVars
<1> QED BY <1>1, <1>4, <1>6, <1>7, <1>8, OneSocket

\* A generator subscribes: its queue is empty.
LEMMA Subscribed ==
  ASSUME StreamInv, NEW s \in Sockets, Subscribe(s), todo[s] = <<>>,
         UNCHANGED <<serverVars, todo, pageVars, restarts>>
  PROVE  StreamInv'
<1>1. /\ subs' = subs \cup {s} /\ queue' = [queue EXCEPT ![s] = <<>>]
      /\ phase' = [phase EXCEPT ![s] = "live"]
  BY DEF Subscribe
<1>2. /\ queue' \in [Sockets -> Seq(Sent)] /\ queue'[s] = <<>> /\ phase'[s] = "live"
      /\ \A u \in Sockets : u # s => queue'[u] = queue[u] /\ phase'[u] = phase[u]
  BY <1>1, EmptyQueue DEF StreamInv, Shapes
<1>3. phase' \in [Sockets -> {"offline", "replay", "live"}]
  BY <1>1 DEF StreamInv, Shapes
<1>4. Shapes'
  BY <1>1, <1>2, <1>3, SameEvents DEF StreamInv, Shapes, serverVars, pageVars
<1>5. SocketInv(s)'
  BY <1>2, SocketSubscribes DEF StreamInv, serverVars, pageVars
<1> QED BY <1>1, <1>2, <1>4, <1>5, OneSocket DEF pageVars

\* A socket connects, with something to replay or without.
LEMMA ConnectKeeps == ASSUME StreamInv, NEW s \in Sockets, Connect(s) PROVE StreamInv'
<1>1. /\ UNCHANGED <<serverVars, pageVars, restarts>> /\ phase[s] = "offline"
      /\ SocketInv(s) /\ todo[s] = <<>> /\ queue[s] = <<>> /\ s \notin subs
  BY DEF Connect, StreamInv, SocketInv
<1>2. CASE Subscribe(s) /\ UNCHANGED todo
  BY <1>1, <1>2, Subscribed
<1>3. CASE /\ phase' = [phase EXCEPT ![s] = "replay"]
           /\ todo' = [todo EXCEPT ![s] = Since(lastSeq[s])]
           /\ UNCHANGED <<subs, queue>>
  <2>1. lastSeq[s] \in Nat
    BY DEF StreamInv, Shapes
  <2>2. /\ Since(lastSeq[s]) \in Seq(Sent) /\ Rising(Since(lastSeq[s]))
        /\ Above(Since(lastSeq[s]), lastSeq[s])
    BY <2>1, Replayed DEF StreamInv
  <2>3. /\ todo' \in [Sockets -> Seq(Sent)] /\ todo'[s] = Since(lastSeq[s]) /\ phase'[s] = "replay"
        /\ \A u \in Sockets : u # s => todo'[u] = todo[u] /\ phase'[u] = phase[u]
    BY <1>3, <2>2 DEF StreamInv, Shapes
  <2>4. phase' \in [Sockets -> {"offline", "replay", "live"}]
    BY <1>3 DEF StreamInv, Shapes
  <2>5. Shapes'
    BY <1>1, <1>3, <2>3, <2>4, SameEvents DEF StreamInv, Shapes, serverVars, pageVars
  <2>6. SocketInv(s)'
    <3>1. Rising(todo[s])' /\ Above(todo[s], lastSeq[s])'
      BY <1>1, <2>2, <2>3 DEF Rising, Above, pageVars
    <3>2. Rising(queue[s])' /\ Above(queue[s], lastSeq[s])'
      BY <1>1, <1>3, EmptyQueue DEF Rising, Above
    <3> QED BY <1>1, <1>3, <2>3, <3>1, <3>2 DEF SocketInv, serverVars, pageVars
  <2> QED BY <1>1, <1>3, <2>3, <2>5, <2>6, OneSocket DEF pageVars
<1> QED BY <1>2, <1>3 DEF Connect

\* The replay ends.
LEMMA GoLiveKeeps == ASSUME StreamInv, NEW s \in Sockets, GoLive(s) PROVE StreamInv'
BY Subscribed DEF GoLive

\* Connections that are gone.
LEMMA Closed ==
  ASSUME Shapes, NEW S, Close(S)
  PROVE  /\ subs' = subs \ S
         /\ queue' \in [Sockets -> Seq(Sent)] /\ todo' \in [Sockets -> Seq(Sent)]
         /\ phase' \in [Sockets -> {"offline", "replay", "live"}]
         /\ \A u \in Sockets : /\ u \in S => queue'[u] = <<>> /\ todo'[u] = <<>> /\ phase'[u] = "offline"
                               /\ u \notin S => /\ queue'[u] = queue[u] /\ todo'[u] = todo[u]
                                                /\ phase'[u] = phase[u]
<1>1. <<>> \in Seq(Sent)
  OBVIOUS
<1> QED BY <1>1 DEF Close, Shapes

\* A connection breaks, or its socket is made anew.
LEMMA BreakKeeps ==
  ASSUME StreamInv, NEW s \in Sockets, Disconnect(s) \/ Remount(s) PROVE StreamInv'
<1>1. UNCHANGED <<serverVars, storeSeq, entities, fetched, restarts>> /\ Close({s})
  BY DEF Disconnect, Remount, pageVars
<1>2. /\ subs' = subs \ {s}
      /\ queue' \in [Sockets -> Seq(Sent)] /\ todo' \in [Sockets -> Seq(Sent)]
      /\ phase' \in [Sockets -> {"offline", "replay", "live"}]
      /\ queue'[s] = <<>> /\ todo'[s] = <<>> /\ phase'[s] = "offline"
      /\ \A u \in Sockets : u # s => queue'[u] = queue[u] /\ todo'[u] = todo[u] /\ phase'[u] = phase[u]
  BY <1>1, Closed DEF StreamInv
<1>3. /\ lastSeq' \in [Sockets -> 0..MaxEvents] /\ lastSeq'[s] \in {0, lastSeq[s]}
      /\ \A u \in Sockets : u # s => lastSeq'[u] = lastSeq[u]
  <2>1. 0 \in 0..MaxEvents /\ lastSeq \in [Sockets -> 0..MaxEvents]
    BY DEF StreamInv, Shapes
  <2> QED BY <2>1 DEF Disconnect, Remount, pageVars
<1>4. Shapes'
  BY <1>1, <1>2, <1>3, SameEvents DEF StreamInv, Shapes, serverVars
<1>5. SocketInv(s)'
  <2>1. restarts' = 0 => lastSeq'[s] <= seq'
    BY <1>1, <1>3 DEF StreamInv, Shapes, SocketInv, serverVars
  <2> QED BY <1>2, <2>1, SocketCloses
<1> QED BY <1>1, <1>2, <1>3, <1>4, <1>5, OneSocket

\* The page loads the whole graph: no event moves.
LEMMA BootstrapKeeps == ASSUME StreamInv, BootstrapRead \/ BootstrapApply PROVE StreamInv'
<1>1. /\ UNCHANGED <<serverVars, connVars, lastSeq, storeSeq, restarts>>
      /\ entities' \subseteq 1..committed
      /\ fetched' = NotFetched \/ fetched' \subseteq 1..committed
  BY DEF StreamInv, Shapes, BootstrapRead, BootstrapApply
<1>2. Shapes'
  BY <1>1, SameEvents DEF StreamInv, Shapes, serverVars, connVars
<1>3. \A s \in Sockets : SocketInv(s)'
  BY <1>1, SocketStays DEF StreamInv, serverVars, connVars
<1>4. EndsAt(buffer, seq)'
  BY <1>1 DEF StreamInv, EndsAt, serverVars
<1> QED BY <1>2, <1>3, <1>4 DEF StreamInv

\* The server starts again: every connection breaks, and numbering restarts.
LEMMA RestartKeeps == ASSUME StreamInv, Restart PROVE StreamInv'
<1>1. /\ UNCHANGED <<committed, pageVars>> /\ restarts' = restarts + 1 /\ restarts < MaxRestarts
      /\ seq' = 0 /\ buffer' = <<>> /\ toPublish' = {}
  BY DEF Restart
<1>2. subs' = subs \ Sockets /\ queue' = [s \in Sockets |-> <<>>] /\ todo' = [s \in Sockets |-> <<>>]
      /\ phase' = [s \in Sockets |-> "offline"]
  BY DEF Restart, Close
<1>3. restarts' \in 1..MaxRestarts
  BY <1>1 DEF StreamInv, Shapes
<1>4. Cardinality({}) = 0 /\ Len(<<>>) = 0 /\ \A S : <<>> \in Seq(S)
  BY FS_EmptySet
<1>5. Shapes'
  <2>1. seq' + Cardinality(toPublish') <= committed' /\ committed' \in 0..MaxEvents
    BY <1>1, <1>4, Numbers DEF StreamInv, Shapes
  <2>2. buffer' \in Seq(Sent') /\ Len(buffer') <= Capacity
    BY <1>1, <1>4
  <2>3. queue' \in [Sockets -> Seq(Sent')] /\ todo' \in [Sockets -> Seq(Sent')]
    BY <1>2, <1>4
  <2> QED BY <1>1, <1>2, <1>3, <2>1, <2>2, <2>3 DEF StreamInv, Shapes, pageVars
<1>6. \A s \in Sockets : SocketInv(s)'
  BY <1>2, <1>3, SocketCloses
<1>7. EndsAt(buffer, seq)'
  BY <1>1 DEF EndsAt
<1> QED BY <1>5, <1>6, <1>7 DEF StreamInv

\* Every step keeps the invariant.
LEMMA StepKeeps == StreamInv /\ [Next]_vars => StreamInv'
<1> SUFFICES ASSUME StreamInv, [Next]_vars PROVE StreamInv'
  OBVIOUS
<1>1. CASE UNCHANGED vars
  <2>1. UNCHANGED <<serverVars, connVars, pageVars, restarts>>
    BY <1>1 DEF vars
  <2>2. Shapes'
    BY <2>1, SameEvents DEF StreamInv, Shapes, serverVars, connVars, pageVars
  <2>3. \A s \in Sockets : SocketInv(s)'
    BY <2>1, SocketStays DEF StreamInv, serverVars, connVars, pageVars
  <2>4. EndsAt(buffer, seq)'
    BY <2>1 DEF StreamInv, EndsAt, serverVars
  <2> QED BY <2>2, <2>3, <2>4 DEF StreamInv
<1>2. ASSUME NEW s \in Sockets,
             \/ Connect(s) \/ Replay(s) \/ GoLive(s) \/ Deliver(s)
             \/ Disconnect(s) \/ Remount(s)
      PROVE  StreamInv'
  BY <1>2, ConnectKeeps, ReplayKeeps, GoLiveKeeps, DeliverKeeps, BreakKeeps
<1> QED BY <1>1, <1>2, CommitKeeps, PublishKeeps, BootstrapKeeps, RestartKeeps DEF Next

-----------------------------------------------------------------------------
(* The theorem.                                                            *)

\* A server that starts, with a page that has loaded nothing.
LEMMA InitStreamInv == Init => StreamInv
<1> SUFFICES ASSUME Init PROVE StreamInv
  OBVIOUS
<1>1. Cardinality({}) = 0 /\ Len(<<>>) = 0 /\ \A S : <<>> \in Seq(S)
  BY FS_EmptySet
<1>2. Shapes
  BY <1>1 DEF Init, Shapes
<1>3. \A s \in Sockets : SocketInv(s)
  BY <1>1, EmptyQueue DEF Init, SocketInv
<1> QED BY <1>2, <1>3, EmptyQueue DEF StreamInv, Init

\* What waits for a socket comes from one of two places only.
LEMMA OneIsEmpty ==
  ASSUME StreamInv, NEW s \in Sockets
  PROVE  todo[s] \o queue[s] = queue[s] \/ todo[s] \o queue[s] = todo[s]
<1>1. todo[s] = <<>> \/ queue[s] = <<>>
  BY DEF StreamInv, SocketInv
<1>2. \A q \in Seq(Sent) : <<>> \o q = q /\ q \o <<>> = q
  OBVIOUS
<1> QED BY <1>1, <1>2 DEF StreamInv, Shapes

\* A subscription misses nothing while it is registered: its queue holds the
\* newest events, without a gap.  Until the server restarts, no socket is sent
\* an event it has had, or one that is older than one it has had, through
\* whatever replays, full queues and reconnections.
THEOREM QueuesStayExact == Spec => []QueuesAreExact
<1>1. ASSUME StreamInv PROVE QueuesAreExact
  <2>1. TypeOK
    <3>1. seq \in 0..committed
      BY <1>1, Numbers DEF StreamInv, Shapes
    <3>2. Sent \subseteq Event
      <4>1. 1..seq \subseteq Nat /\ 1..committed \subseteq 1..MaxEvents
        BY <1>1, Numbers DEF StreamInv, Shapes
      <4> QED BY <4>1 DEF Sent, Event
    <3>3. \A q \in Seq(Sent) : q \in Seq(Event)
      BY <3>2, LargerSeq
    <3> QED BY <1>1, <3>1, <3>3 DEF StreamInv, Shapes, SocketInv, TypeOK
  <2>2. \A s \in subs : EndsAt(queue[s], seq)
    BY <1>1 DEF StreamInv, Shapes, SocketInv
  <2>3. ASSUME restarts = 0, NEW s \in Sockets
        PROVE  LET rest == todo[s] \o queue[s] IN
               /\ \A i \in DOMAIN rest : rest[i].seq > lastSeq[s]
               /\ \A i, j \in DOMAIN rest : i < j => rest[i].seq < rest[j].seq
    <3>1. /\ Above(queue[s], lastSeq[s]) /\ Above(todo[s], lastSeq[s])
          /\ Rising(queue[s]) /\ Rising(todo[s])
      BY <1>1, <2>3 DEF StreamInv, SocketInv
    <3>2. Above(todo[s] \o queue[s], lastSeq[s]) /\ Rising(todo[s] \o queue[s])
      BY <1>1, <3>1, OneIsEmpty
    <3> QED BY <3>2 DEF Above, Rising
  <2> QED BY <2>1, <2>2, <2>3 DEF QueuesAreExact
<1> QED BY InitStreamInv, StepKeeps, <1>1, PTL DEF Spec

-----------------------------------------------------------------------------
(* Sums over finite sets, as MapThenSumSet defines them.                   *)

\* The recursion that a sum over a finite set is defined by.
Pick(s) == CHOOSE x \in s : TRUE

Sums(c, S, g) ==
  g = [s \in SUBSET S |-> IF s = {} THEN 0 ELSE c[Pick(s)] + g[s \ {Pick(s)}]]

Sum(c, S) == (CHOOSE g : Sums(c, S, g))[S]

\* g holds the sums over all subsets of S.
SumsUp(c, S, g) ==
  /\ g \in [SUBSET S -> Nat] /\ Sums(c, S, g)
  /\ \A s \in SUBSET S : Sum(c, s) = g[s]

\* Of a set of finite sets, one has no other as a strict subset.
LEMMA SmallestSet ==
  ASSUME NEW S, IsFiniteSet(S), NEW Worse \in SUBSET (SUBSET S), Worse # {}
  PROVE  \E T \in Worse : \A V \in Worse : V \subseteq T => V = T
<1>1. Worse \subseteq FiniteSubsetsOf(S)
  BY FS_FiniteSubsetsOfFinite
<1>2. PICK T \in Worse : \A V \in Worse : <<V, T>> \notin StrictSubsetOrdering(S)
  <2> HIDE DEF StrictSubsetOrdering
  <2> QED BY <1>1, FS_StrictSubsetOrderingWellFounded, WFMin
<1> QED BY <1>2 DEF StrictSubsetOrdering

\* A set that is not empty has a picked element.
LEMMA Picked == ASSUME NEW s, s # {} PROVE Pick(s) \in s
BY DEF Pick

\* Two recursions over the subsets of two sets agree wherever both are defined.
LEMMA SumsAgree ==
  ASSUME NEW c, NEW T, NEW V, IsFiniteSet(T), NEW g, NEW h, Sums(c, T, g), Sums(c, V, h),
         NEW s \in SUBSET T, s \in SUBSET V
  PROVE  g[s] = h[s]
<1> DEFINE Worse == {b \in SUBSET T : b \subseteq V /\ g[b] # h[b]}
<1>1. SUFFICES ASSUME Worse # {} PROVE FALSE
  OBVIOUS
<1>2. PICK b \in Worse : \A a \in Worse : a \subseteq b => a = b
  <2> HIDE DEF Worse
  <2>1. Worse \in SUBSET (SUBSET T)
    BY DEF Worse
  <2> QED BY <1>1, <2>1, SmallestSet
<1>3. /\ g[b] = IF b = {} THEN 0 ELSE c[Pick(b)] + g[b \ {Pick(b)}]
      /\ h[b] = IF b = {} THEN 0 ELSE c[Pick(b)] + h[b \ {Pick(b)}]
  BY DEF Sums
<1>4. b # {}
  BY <1>3
<1>5. g[b \ {Pick(b)}] = h[b \ {Pick(b)}]
  BY <1>2, <1>4, Picked
<1> QED BY <1>3, <1>4, <1>5

\* The recursion has a solution over the subsets of a finite set, in the naturals.
LEMMA SumsExist ==
  ASSUME NEW S, IsFiniteSet(S), NEW c \in [S -> Nat]
  PROVE  \E g \in [SUBSET S -> Nat] : Sums(c, S, g)
<1> DEFINE Worse == {b \in SUBSET S : ~ \E g \in [SUBSET b -> Nat] : Sums(c, b, g)}
<1>1. SUFFICES ASSUME Worse # {} PROVE FALSE
  OBVIOUS
<1>2. PICK T \in Worse : \A a \in Worse : a \subseteq T => a = T
  <2> HIDE DEF Worse
  <2>1. Worse \in SUBSET (SUBSET S)
    BY DEF Worse
  <2> QED BY <1>1, <2>1, SmallestSet
<1> DEFINE G(u) == CHOOSE g \in [SUBSET u -> Nat] : Sums(c, u, g)
           h == [s \in SUBSET T |-> IF s = {} THEN 0
                   ELSE c[Pick(s)] + G(s \ {Pick(s)})[s \ {Pick(s)}]]
<1>3. \A u \in SUBSET T : u # T => G(u) \in [SUBSET u -> Nat] /\ Sums(c, u, G(u))
  BY <1>2
<1> HIDE DEF G
<1>4. \A s \in SUBSET T : s # {} =>
        /\ Pick(s) \in s /\ s \ {Pick(s)} # T /\ s \ {Pick(s)} \in SUBSET T
        /\ c[Pick(s)] \in Nat
        /\ G(s \ {Pick(s)})[s \ {Pick(s)}] \in Nat
  <2> SUFFICES ASSUME NEW s \in SUBSET T, s # {}
               PROVE  /\ Pick(s) \in s /\ s \ {Pick(s)} # T /\ s \ {Pick(s)} \in SUBSET T
                      /\ c[Pick(s)] \in Nat
                      /\ G(s \ {Pick(s)})[s \ {Pick(s)}] \in Nat
    OBVIOUS
  <2>1. Pick(s) \in s
    BY Picked
  <2>2. s \ {Pick(s)} # T /\ s \ {Pick(s)} \in SUBSET T
    BY <2>1
  <2>3. c[Pick(s)] \in Nat
    BY <2>1
  <2> QED BY <2>1, <2>2, <2>3, <1>3
<1>5. h \in [SUBSET T -> Nat]
  BY <1>4
<1>6. \A u \in SUBSET T : u # T => h[u] = G(u)[u]
  <2> SUFFICES ASSUME NEW u \in SUBSET T, u # T PROVE h[u] = G(u)[u]
    OBVIOUS
  <2>1. G(u)[u] = IF u = {} THEN 0 ELSE c[Pick(u)] + G(u)[u \ {Pick(u)}]
    BY <1>3 DEF Sums
  <2>2. CASE u = {}
    BY <2>1, <2>2
  <2>3. CASE u # {}
    <3> DEFINE v == u \ {Pick(u)}
    <3>1. v \in SUBSET T /\ v # T /\ v \in SUBSET u
      BY <2>3, <1>4
    <3>2. IsFiniteSet(u)
      BY FS_Subset
    <3>3. Sums(c, u, G(u)) /\ Sums(c, v, G(v))
      BY <1>3, <3>1
    <3>4. G(u)[v] = G(v)[v]
      <4> HIDE DEF v
      <4> QED BY <3>1, <3>2, <3>3, SumsAgree
    <3> QED BY <2>1, <2>3, <3>4
  <2> QED BY <2>2, <2>3
<1>7. Sums(c, T, h)
  <2>1. \A s \in SUBSET T : s # {} => h[s] = c[Pick(s)] + h[s \ {Pick(s)}]
    BY <1>4, <1>6
  <2>2. h[{}] = 0
    OBVIOUS
  <2>3. h = [s \in SUBSET T |-> h[s]]
    OBVIOUS
  <2> HIDE DEF h
  <2> QED BY <2>1, <2>2, <2>3 DEF Sums
<1> QED BY <1>2, <1>5, <1>7

\* The sum of no requests is 0, that of others a number that any of them adds to.
LEMMA SumOfNone == \A c : Sum(c, {}) = 0
<1> SUFFICES ASSUME NEW c PROVE Sum(c, {}) = 0
  OBVIOUS
<1>1. \E g : Sums(c, {}, g)
  <2>1. Sums(c, {}, [s \in SUBSET {} |-> 0])
    BY DEF Sums
  <2> QED BY <2>1
<1>2. Sums(c, {}, CHOOSE g : Sums(c, {}, g))
  BY <1>1
<1> QED BY <1>2 DEF Sum, Sums

\* One function gives the sums over all the subsets of a finite set.
LEMMA SumIs ==
  ASSUME NEW S, IsFiniteSet(S), NEW c \in [S -> Nat]
  PROVE  \E g : SumsUp(c, S, g)
<1>1. PICK g \in [SUBSET S -> Nat] : Sums(c, S, g)
  BY SumsExist
<1>2. ASSUME NEW s \in SUBSET S PROVE Sum(c, s) = g[s]
  <2> DEFINE d == [r \in s |-> c[r]]
  <2>1. IsFiniteSet(s) /\ d \in [s -> Nat]
    BY FS_Subset
  <2>2. PICK h0 \in [SUBSET s -> Nat] : Sums(d, s, h0)
    <3> HIDE DEF d
    <3> QED BY <2>1, SumsExist
  <2>3. Sums(c, s, h0)
    <3>1. \A u \in SUBSET s : u # {} => d[Pick(u)] = c[Pick(u)]
      BY Picked
    <3> HIDE DEF d
    <3> QED BY <2>2, <3>1 DEF Sums
  <2>4. Sums(c, s, CHOOSE h : Sums(c, s, h))
    BY <2>3
  <2> DEFINE h == CHOOSE k : Sums(c, s, k)
  <2>5. Sums(c, s, h) /\ s \in SUBSET s
    BY <2>4
  <2> HIDE DEF h
  <2>6. h[s] = g[s]
    BY <1>1, <2>1, <2>5, SumsAgree
  <2>7. Sum(c, s) = h[s]
    BY DEF h, Sum
  <2> QED BY <2>6, <2>7
<1> QED BY <1>1, <1>2 DEF SumsUp

\* Any element can be taken out of a sum, and not only the picked one.
LEMMA SumSplits ==
  ASSUME NEW S, IsFiniteSet(S), NEW c \in [S -> Nat], NEW r \in S
  PROVE  Sum(c, S) = c[r] + Sum(c, S \ {r})
<1>0. PICK g : SumsUp(c, S, g)
  BY SumIs
<1>1. /\ g \in [SUBSET S -> Nat] /\ Sums(c, S, g)
      /\ \A s \in SUBSET S : Sum(c, s) = g[s]
  BY <1>0 DEF SumsUp
<1> DEFINE Worse == {b \in SUBSET S : \E x \in b : g[b] # c[x] + g[b \ {x}]}
<1>2. CASE Worse = {}
  <2>1. S \notin Worse
    BY <1>2
  <2>2. g[S] = c[r] + g[S \ {r}]
    BY <2>1
  <2> QED BY <1>1, <2>2
<1>3. CASE Worse # {}
  <2>1. PICK b \in Worse : \A a \in Worse : a \subseteq b => a = b
    <3> HIDE DEF Worse
    <3>1. Worse \in SUBSET (SUBSET S)
      BY DEF Worse
    <3> QED BY <1>3, <3>1, SmallestSet
  <2>2. PICK x \in b : g[b] # c[x] + g[b \ {x}]
    OBVIOUS
  <2> DEFINE y == Pick(b)
  <2>3. y \in b /\ g[b] = c[y] + g[b \ {y}]
    BY <1>1, <2>2, Picked DEF Sums
  <2>4. x # y
    BY <2>2, <2>3
  <2> HIDE DEF y
  <2>5. g[b \ {y}] = c[x] + g[(b \ {y}) \ {x}]
    <3>1. b \ {y} \notin Worse /\ x \in b \ {y}
      BY <2>1, <2>3, <2>4
    <3> QED BY <3>1
  <2>6. g[b \ {x}] = c[y] + g[(b \ {x}) \ {y}]
    <3>1. b \ {x} \notin Worse /\ y \in b \ {x}
      BY <2>1, <2>2, <2>3, <2>4
    <3> QED BY <3>1
  <2>7. (b \ {y}) \ {x} = (b \ {x}) \ {y}
    OBVIOUS
  <2>8. c[x] \in Nat /\ c[y] \in Nat /\ g[(b \ {y}) \ {x}] \in Nat
    <3>1. b \in SUBSET S /\ x \in S /\ y \in S
      BY <2>2, <2>3
    <3> HIDE DEF Worse
    <3> QED BY <1>1, <3>1
  <2>9. \A i, j, k \in Nat : i + (j + k) = j + (i + k)
    OBVIOUS
  <2>10. c[y] + (c[x] + g[(b \ {y}) \ {x}]) = c[x] + (c[y] + g[(b \ {y}) \ {x}])
    BY <2>8, <2>9
  <2>11. g[b] = c[x] + g[b \ {x}]
    BY <2>3, <2>5, <2>6, <2>7, <2>10
  <2> QED BY <2>2, <2>11
<1> QED BY <1>2, <1>3

\* A sum of naturals is a natural.
LEMMA SumIsNatural ==
  ASSUME NEW S, IsFiniteSet(S), NEW c \in [S -> Nat]
  PROVE  Sum(c, S) \in Nat
<1>0. PICK g : SumsUp(c, S, g)
  BY SumIs
<1>1. /\ g \in [SUBSET S -> Nat] /\ Sums(c, S, g)
      /\ \A s \in SUBSET S : Sum(c, s) = g[s]
  BY <1>0 DEF SumsUp
<1> QED BY <1>1

\* A sum depends on the terms of its own elements only.
LEMMA SumOfSame ==
  ASSUME NEW S, NEW c, NEW d, \A r \in S : c[r] = d[r]
  PROVE  Sum(c, S) = Sum(d, S)
<1>1. \A u \in SUBSET S : u # {} => d[Pick(u)] = c[Pick(u)]
  BY Picked
<1>2. \A g : Sums(c, S, g) <=> Sums(d, S, g)
  BY <1>1 DEF Sums
<1> QED BY <1>2 DEF Sum

-----------------------------------------------------------------------------
(* The limiter of paid calls: its inductive invariant.                     *)

\* Requests that hold a permit.
Running == {r \in Requests : request[r].kind = "skill" /\ request[r].step = "call"}

\* Every permit is free or held by a run; the queue holds each waiting run once.
PermitInv ==
  /\ IsFiniteSet(Running) /\ permits + Cardinality(Running) = Permits
  /\ \A i, j \in DOMAIN waiting : waiting[i] = waiting[j] => i = j
  /\ \A r \in Requests : request[r].step = "wait" => request[r].kind = "skill"

\* What is charged for a request whose cost is not known yet is its estimate.
ChargeInv ==
  /\ IsFiniteSet(today) /\ (tokens = NoEntry => today = {})
  /\ \A r \in today : request[r].step \notin {"new", "check"}
  /\ \A r \in Requests : request[r].step \in {"wait", "call", "reconcile"} =>
       charge[r] = request[r].estimate

\* The assumptions of PaidCalls on its constants, which no step changes.
Limits == LimiterAssumption /\ EntryAssumption

PaidInv ==
  /\ Limits
  /\ PaidTypeOK
  /\ PermitInv
  /\ ChargeInv
  /\ OnlyStragglersDistort

Requested == [kind : RequestKinds, estimate : Nat, actual : Nat, now : Nat, step : Steps]

\* The sum that the module of finite sets defines is the recursion above.
LEMMA CostIsSum ==
  /\ CostToday = Sum(charge, today)
  /\ CostToday' = Sum(charge', today')
BY DEF CostToday, MapThenSumSet, MapThenFoldSet, Sum, Sums, Pick

\* PaidInv holds at the start.
LEMMA InitPaidInv == Limits /\ PaidInit => PaidInv
<1> SUFFICES ASSUME Limits, PaidInit PROVE PaidInv
  OBVIOUS
<1>1. Permits \in Nat
  BY DEF Limits, LimiterAssumption
<1>2. Running = {}
  BY DEF PaidInit, Running
<1>3. PaidTypeOK
  BY <1>1 DEF PaidInit, PaidTypeOK, RequestKinds, Steps
<1>4. PermitInv
  BY <1>1, <1>2, FS_EmptySet DEF PaidInit, PermitInv
<1>5. ChargeInv
  BY FS_EmptySet DEF PaidInit, ChargeInv
<1>6. OnlyStragglersDistort
  <2>1. CostToday = 0
    BY CostIsSum, SumOfNone DEF PaidInit
  <2> QED BY <2>1 DEF PaidInit, OnlyStragglersDistort, Charged
<1> QED BY <1>3, <1>4, <1>5, <1>6 DEF PaidInv

-----------------------------------------------------------------------------
(* Permits and the queue for them.                                         *)

\* A step of one request: the others stay as they are.
OneMoves(r) ==
  /\ request' \in [Requests -> Requested]
  /\ \A s \in Requests \ {r} : request'[s] = request[s]

\* The runs in progress change by the request that moves.
LEMMA RunningMoves ==
  ASSUME IsFiniteSet(Running), NEW r \in Requests, OneMoves(r)
  PROVE  /\ IsFiniteSet(Running')
         /\ Cardinality(Running') =
              Cardinality(Running) + (IF r \in Running' THEN 1 ELSE 0) - (IF r \in Running THEN 1 ELSE 0)
<1>0. Cardinality(Running) \in Nat
  BY FS_CardinalityType
<1>1. \A s \in Requests \ {r} : s \in Running' <=> s \in Running
  BY DEF OneMoves, Running
<1>2. Running' \subseteq Requests /\ Running \subseteq Requests
  BY DEF Running
<1>3. CASE r \in Running' /\ r \notin Running
  <2>1. Running' = Running \cup {r}
    BY <1>1, <1>2, <1>3
  <2> QED BY <1>0, <1>3, <2>1, FS_AddElement
<1>4. CASE r \notin Running' /\ r \in Running
  <2>1. Running' = Running \ {r}
    BY <1>1, <1>2, <1>4
  <2> QED BY <1>0, <1>4, <2>1, FS_RemoveElement
<1>5. CASE r \in Running' <=> r \in Running
  <2>1. Running' = Running
    BY <1>1, <1>2, <1>5
  <2> QED BY <1>0, <1>5, <2>1
<1> QED BY <1>3, <1>4, <1>5

\* What PaidInv says of permits and the queue, and of the requests.
Queue ==
  /\ permits \in 0..Permits /\ waiting \in Seq(Requests)
  /\ request \in [Requests -> Requested]
  /\ \A r \in Requests : request[r].step = "wait" <=> \E i \in DOMAIN waiting : waiting[i] = r
  /\ PermitInv

\* What the limiter's lemmas ask of a state holds in every state of the invariant.
LEMMA QueueOfInv ==
  ASSUME PaidInv PROVE Queue
BY DEF PaidInv, PaidTypeOK, Queue, Requested

\* A step that neither queues a request nor takes one from the queue, and
\* frees a permit exactly when it ends a run.
LEMMA QueueStays ==
  ASSUME Limits, Queue, NEW r \in Requests, OneMoves(r), UNCHANGED waiting,
         request[r].step # "wait", request'[r].step # "wait", r \notin Running',
         permits' = permits + (IF r \in Running THEN 1 ELSE 0)
  PROVE  Queue'
<1>1. Permits \in Nat /\ permits \in Nat
  BY DEF Limits, LimiterAssumption, Queue
<1>2. /\ IsFiniteSet(Running')
      /\ Cardinality(Running') = Cardinality(Running) - (IF r \in Running THEN 1 ELSE 0)
  <2>1. IsFiniteSet(Running) /\ Cardinality(Running) \in Nat
    BY FS_CardinalityType DEF Queue, PermitInv
  <2> QED BY <2>1, RunningMoves
<1>3. Cardinality(Running) \in Nat /\ Cardinality(Running') \in Nat
  BY <1>2, FS_CardinalityType DEF Queue, PermitInv
<1>4. permits' + Cardinality(Running') = Permits /\ permits' \in 0..Permits
  <2>1. \A n, free, runs, left \in Nat : \A d \in {0, 1} :
            free + runs = n /\ left = runs - d
              => free + d + left = n /\ free + d \in 0..n
    OBVIOUS
  <2>2. permits + Cardinality(Running) = Permits
    BY DEF Queue, PermitInv
  <2>3. CASE r \in Running
    BY <1>1, <1>2, <1>3, <2>1, <2>2, <2>3
  <2>4. CASE r \notin Running
    BY <1>1, <1>2, <1>3, <2>1, <2>2, <2>4
  <2> QED BY <2>3, <2>4
<1>5. \A s \in Requests : request'[s].step = "wait" <=> request[s].step = "wait"
  BY DEF OneMoves
<1>6. \A s \in Requests : request'[s].step = "wait" => request'[s].kind = "skill"
  BY DEF OneMoves, Queue, PermitInv
<1> QED BY <1>2, <1>4, <1>5, <1>6 DEF Queue, PermitInv, OneMoves

\* A skill run that is admitted joins the queue.
LEMMA QueueGrows ==
  ASSUME Limits, Queue, NEW r \in Requests, OneMoves(r), UNCHANGED permits,
         request[r].step = "check", request'[r].step = "wait", request'[r].kind = "skill",
         waiting' = Append(waiting, r)
  PROVE  Queue'
<1>1. r \notin Running /\ r \notin Running'
  BY DEF Running
<1>2. IsFiniteSet(Running') /\ Cardinality(Running') = Cardinality(Running)
  <2>1. IsFiniteSet(Running) /\ Cardinality(Running) \in Nat
    BY FS_CardinalityType DEF Queue, PermitInv
  <2> QED BY <1>1, <2>1, RunningMoves
<1>3. /\ waiting' \in Seq(Requests) /\ Len(waiting') = Len(waiting) + 1 /\ Len(waiting) \in Nat
      /\ \A i \in 1..Len(waiting) : waiting'[i] = waiting[i]
      /\ waiting'[Len(waiting) + 1] = r
      /\ DOMAIN waiting = 1..Len(waiting) /\ DOMAIN waiting' = 1..(Len(waiting) + 1)
  BY AppendProperties DEF Queue
<1>4. \A i \in 1..Len(waiting) : waiting[i] # r
  BY <1>3 DEF Queue
<1>5. \A i, j \in DOMAIN waiting' : waiting'[i] = waiting'[j] => i = j
  <2>1. \A i \in DOMAIN waiting' : i \in 1..Len(waiting) \/ i = Len(waiting) + 1
    BY <1>3
  <2>2. \A i, j \in 1..Len(waiting) : waiting[i] = waiting[j] => i = j
    BY <1>3 DEF Queue, PermitInv
  <2> QED BY <1>3, <1>4, <2>1, <2>2
<1>6. ASSUME NEW s \in Requests
      PROVE  request'[s].step = "wait" <=> \E i \in DOMAIN waiting' : waiting'[i] = s
  <2>1. CASE s = r
    <3>1. Len(waiting) + 1 \in DOMAIN waiting'
      BY <1>3
    <3> QED BY <1>3, <2>1, <3>1
  <2>2. CASE s # r
    <3>1. request'[s].step = "wait" <=> \E i \in 1..Len(waiting) : waiting[i] = s
      BY <1>3, <2>2 DEF OneMoves, Queue
    <3>2. \A i \in DOMAIN waiting' : i \in 1..Len(waiting) \/ i = Len(waiting) + 1
      BY <1>3
    <3>3. 1..Len(waiting) \subseteq DOMAIN waiting'
      BY <1>3
    <3> QED BY <1>3, <2>2, <3>1, <3>2, <3>3
  <2> QED BY <2>1, <2>2
<1>7. \A s \in Requests : request'[s].step = "wait" => request'[s].kind = "skill"
  BY DEF OneMoves, Queue, PermitInv
<1> QED BY <1>2, <1>3, <1>5, <1>6, <1>7 DEF Queue, PermitInv, OneMoves

\* The first run in the queue takes a free permit.
LEMMA QueueShrinks ==
  ASSUME Limits, Queue, NEW r \in Requests, OneMoves(r), permits > 0, permits' = permits - 1,
         waiting # <<>>, Head(waiting) = r, waiting' = Tail(waiting),
         request'[r].step = "call", request'[r].kind = request[r].kind
  PROVE  Queue'
<1>1. /\ waiting' \in Seq(Requests) /\ Len(waiting') = Len(waiting) - 1
      /\ Len(waiting) \in Nat \ {0} /\ Len(waiting') \in Nat
      /\ \A i \in 1..Len(waiting') : waiting'[i] = waiting[i + 1]
      /\ DOMAIN waiting = 1..Len(waiting) /\ DOMAIN waiting' = 1..Len(waiting')
  BY HeadTailProperties, EmptySeq DEF Queue
<1>2. waiting[1] = r /\ 1 \in DOMAIN waiting
  BY <1>1 DEF Queue
<1>3. request[r].step = "wait" /\ request[r].kind = "skill"
  BY <1>2 DEF Queue, PermitInv
<1>4. r \notin Running /\ r \in Running'
  BY <1>3 DEF Running
<1>5. IsFiniteSet(Running') /\ Cardinality(Running') = Cardinality(Running) + 1
  <2>1. IsFiniteSet(Running) /\ Cardinality(Running) \in Nat
    BY FS_CardinalityType DEF Queue, PermitInv
  <2> QED BY <1>4, <2>1, RunningMoves
<1>6. permits' + Cardinality(Running') = Permits /\ permits' \in 0..Permits
  <2>1. Cardinality(Running) \in Nat /\ permits \in Nat /\ Permits \in Nat
    BY FS_CardinalityType DEF Queue, PermitInv, Limits, LimiterAssumption
  <2> QED BY <1>5, <2>1 DEF Queue, PermitInv
<1>7. \A i \in DOMAIN waiting' : i + 1 \in DOMAIN waiting /\ i + 1 # 1 /\ waiting'[i] = waiting[i + 1]
  BY <1>1
<1>8. \A i, j \in DOMAIN waiting' : waiting'[i] = waiting'[j] => i = j
  <2>1. \A i, j \in DOMAIN waiting' : waiting'[i] = waiting'[j] => i + 1 = j + 1
    BY <1>7 DEF Queue, PermitInv
  <2> QED BY <1>1, <2>1
<1>9. ASSUME NEW s \in Requests
      PROVE  request'[s].step = "wait" <=> \E i \in DOMAIN waiting' : waiting'[i] = s
  <2>1. CASE s = r
    <3>1. \A i \in DOMAIN waiting' : waiting'[i] # r
      BY <1>2, <1>7 DEF Queue, PermitInv
    <3> QED BY <2>1, <3>1
  <2>2. CASE s # r
    <3>1. request'[s].step = "wait" <=> \E i \in DOMAIN waiting : waiting[i] = s
      BY <2>2 DEF OneMoves, Queue
    <3>2. ASSUME NEW i \in DOMAIN waiting, waiting[i] = s
          PROVE  \E j \in DOMAIN waiting' : waiting'[j] = s
      <4>1. i # 1
        BY <1>2, <2>2, <3>2
      <4>2. i - 1 \in DOMAIN waiting' /\ (i - 1) + 1 = i
        BY <1>1, <4>1
      <4> QED BY <1>7, <3>2, <4>2
    <3> QED BY <1>7, <3>1, <3>2
  <2> QED BY <2>1, <2>2
<1>10. \A s \in Requests : request'[s].step = "wait" => request'[s].kind = "skill"
  BY DEF OneMoves, Queue, PermitInv
<1> QED BY <1>1, <1>5, <1>6, <1>8, <1>9, <1>10 DEF Queue, PermitInv, OneMoves

-----------------------------------------------------------------------------
(* The day's total.                                                        *)

Totals == [start : Nat, charged : Nat]

\* What PaidInv says of the day's total and of the history of the day.
DayInv ==
  /\ tokens \in Totals \cup {NoEntry}
  /\ today \subseteq Requests /\ charge \in [Requests -> Nat]
  /\ refunds \in Nat /\ excess \in Nat
  /\ ChargeInv
  /\ OnlyStragglersDistort

\* What the lemmas about a day's charge ask holds in every state of the invariant.
LEMMA DayOfInv ==
  ASSUME PaidInv PROVE DayInv
BY DEF PaidInv, PaidTypeOK, DayInv, Totals

\* A request that moves without touching the total.
LEMMA DayStays ==
  ASSUME DayInv, NEW r \in Requests, OneMoves(r), UNCHANGED <<tokens, histVars>>,
         r \in today => request'[r].step \notin {"new", "check"},
         request'[r].step \in {"wait", "call", "reconcile"} =>
           charge[r] = request'[r].estimate
  PROVE  DayInv'
<1>1. CostToday' = CostToday
  BY CostIsSum DEF histVars
<1>2. ChargeInv'
  BY DEF DayInv, ChargeInv, OneMoves, histVars
<1>3. OnlyStragglersDistort'
  BY <1>1 DEF DayInv, OnlyStragglersDistort, Charged, histVars
<1> QED BY <1>2, <1>3 DEF DayInv, histVars

\* The day as a request finds it: the one that is kept, or one that begins
\* later than it.
LEMMA DayFound ==
  ASSUME Limits, DayInv, NEW now \in Nat
  PROVE  LET d == CurrentDay(now) IN
         /\ d \in Totals
         /\ NewDay(d) => d = [start |-> now, charged |-> 0]
         /\ ~ NewDay(d) => tokens # NoEntry /\ d = tokens
<1>1. Day \in Nat /\ Day > 0
  BY DEF Limits, LimiterAssumption
<1>2. CASE tokens = NoEntry
  BY <1>2 DEF CurrentDay, NewDay, Totals
<1>3. CASE tokens # NoEntry
  <2>1. tokens \in Totals /\ tokens.start \in Nat
    BY <1>3 DEF DayInv, Totals
  <2>2. CASE now - tokens.start >= Day
    <3>1. now # tokens.start
      BY <1>1, <2>1, <2>2
    <3> QED BY <1>3, <2>1, <2>2, <3>1 DEF CurrentDay, NewDay, Totals
  <2>3. CASE ~ (now - tokens.start >= Day)
    BY <1>3, <2>1, <2>3 DEF CurrentDay, NewDay
  <2> QED BY <2>2, <2>3
<1> QED BY <1>2, <1>3

\* Admission adds its estimate to the day's total and to its cost.
LEMMA AdmitKeepsDay ==
  ASSUME Limits, DayInv, NEW r \in Requests, Admit(r), OneMoves(r),
         request[r] \in Requested, request'[r].estimate = request[r].estimate,
         request'[r].step \in {"wait", "call"}
  PROVE  DayInv'
<1> DEFINE q == request[r]
           d == CurrentDay(q.now)
<1>1. /\ q.step = "check"
      /\ SetDay([d EXCEPT !.charged = @ + q.estimate], {r})
      /\ charge' = [charge EXCEPT ![r] = q.estimate]
      /\ refunds' = IF NewDay(d) THEN 0 ELSE refunds
      /\ excess' = IF NewDay(d) THEN 0 ELSE excess
  BY DEF Admit
<1>2. /\ q.now \in Nat /\ q.estimate \in Nat
      /\ d \in Totals
      /\ NewDay(d) => d = [start |-> q.now, charged |-> 0]
      /\ ~ NewDay(d) => tokens # NoEntry /\ d = tokens
  <2>1. q.now \in Nat /\ q.estimate \in Nat
    BY DEF Requested
  <2> QED BY <2>1, DayFound
<1>3. r \notin today
  BY <1>1 DEF DayInv, ChargeInv
<1>4. /\ tokens' = [d EXCEPT !.charged = @ + q.estimate]
      /\ tokens' \in Totals /\ tokens'.charged = d.charged + q.estimate
      /\ tokens'.start = d.start
  BY <1>1, <1>2 DEF SetDay, Totals
<1>5. /\ NewDay(d) => today' = {r}
      /\ ~ NewDay(d) => today' = today \cup {r}
  BY <1>1, <1>4 DEF SetDay, NewDay
<1>6. charge' \in [Requests -> Nat] /\ charge'[r] = q.estimate
      /\ \A s \in Requests \ {r} : charge'[s] = charge[s]
  BY <1>1, <1>2 DEF DayInv
<1>7. NoEntry \notin Totals
  BY DEF Limits, EntryAssumption, Totals
<1>8. /\ IsFiniteSet(today') /\ r \in today' /\ today' \subseteq Requests
      /\ today' \ {r} = IF NewDay(d) THEN {} ELSE today
  <2>1. IsFiniteSet({r}) /\ IsFiniteSet(today \cup {r})
    BY FS_Singleton, FS_AddElement DEF DayInv, ChargeInv
  <2> QED BY <1>3, <1>5, <2>1 DEF DayInv
<1>9. ChargeInv'
  <2>1. \A s \in today' : s = r \/ s \in today
    BY <1>5
  <2>2. \A s \in today' : request'[s].step \notin {"new", "check"}
    BY <2>1 DEF DayInv, ChargeInv, OneMoves
  <2>3. ASSUME NEW s \in Requests, request'[s].step \in {"wait", "call", "reconcile"}
        PROVE  charge'[s] = request'[s].estimate
    <3>1. CASE s = r
      BY <1>6, <3>1
    <3>2. CASE s # r
      BY <1>6, <2>3, <3>2 DEF OneMoves, DayInv, ChargeInv
    <3> QED BY <3>1, <3>2
  <2> QED BY <1>4, <1>7, <1>8, <2>2, <2>3 DEF ChargeInv
<1>10. CostToday' = q.estimate + (IF NewDay(d) THEN 0 ELSE CostToday)
  <2> DEFINE c == [s \in today' |-> charge'[s]]
  <2>1. c \in [today' -> Nat]
    BY <1>6, <1>8
  <2>2. Sum(c, today') = c[r] + Sum(c, today' \ {r})
    <3> HIDE DEF c
    <3> QED BY <1>8, <2>1, SumSplits
  <2>3. Sum(c, today') = Sum(charge', today')
    <3>1. \A s \in today' : c[s] = charge'[s]
      OBVIOUS
    <3> HIDE DEF c
    <3> QED BY <3>1, SumOfSame
  <2>4. Sum(c, today' \ {r}) = IF NewDay(d) THEN 0 ELSE Sum(charge, today)
    <3>1. CASE NewDay(d)
      <4> HIDE DEF c
      <4> QED BY <1>8, <3>1, SumOfNone
    <3>2. CASE ~ NewDay(d)
      <4>1. \A s \in today : c[s] = charge[s]
        BY <1>3, <1>5, <1>6, <3>2 DEF DayInv
      <4> HIDE DEF c
      <4>2. Sum(c, today) = Sum(charge, today)
        BY <4>1, SumOfSame
      <4> QED BY <1>8, <3>2, <4>2
    <3> QED BY <3>1, <3>2
  <2>5. c[r] = q.estimate
    BY <1>6, <1>8
  <2> HIDE DEF c
  <2> QED BY <2>2, <2>3, <2>4, <2>5, CostIsSum
<1>11. CostToday \in Nat
  <2> DEFINE c == [s \in today |-> charge[s]]
  <2>1. c \in [today -> Nat] /\ IsFiniteSet(today) /\ \A s \in today : c[s] = charge[s]
    BY DEF DayInv, ChargeInv
  <2> HIDE DEF c
  <2> QED BY <2>1, CostIsSum, SumIsNatural, SumOfSame
<1>12. refunds' \in Nat /\ excess' \in Nat
  BY <1>1 DEF DayInv
<1>13. OnlyStragglersDistort'
  <2>1. Charged' = d.charged + q.estimate
    BY <1>4, <1>7 DEF Charged
  <2>2. CASE NewDay(d)
    <3>1. Charged' = q.estimate /\ CostToday' = q.estimate /\ refunds' = 0 /\ excess' = 0
      BY <1>1, <1>2, <1>10, <2>1, <2>2
    <3> QED BY <1>2, <3>1 DEF OnlyStragglersDistort
  <2>3. CASE ~ NewDay(d)
    <3>1. /\ Charged' = Charged + q.estimate /\ CostToday' = q.estimate + CostToday
          /\ refunds' = refunds /\ excess' = excess /\ Charged \in Nat
      BY <1>1, <1>2, <1>10, <2>1, <2>3 DEF Charged, Totals
    <3>2. /\ refunds \in Nat /\ excess \in Nat
          /\ Charged + refunds >= CostToday /\ Charged <= CostToday + excess
      BY DEF DayInv, OnlyStragglersDistort
    <3> QED BY <1>2, <1>11, <3>1, <3>2 DEF OnlyStragglersDistort
  <2> QED BY <2>2, <2>3
<1> QED BY <1>4, <1>6, <1>8, <1>9, <1>12, <1>13 DEF DayInv

\* Correcting an estimate moves the total and the cost together, but for a
\* request of an older day, whose part the history counts apart.
LEMMA ReconcileKeepsDay ==
  ASSUME Limits, DayInv, NEW r \in Requests, Reconcile(r), OneMoves(r),
         request[r] \in Requested, request'[r].step = "done"
  PROVE  DayInv'
<1> DEFINE q == request[r]
           d == CurrentDay(q.now)
           delta == q.actual - q.estimate
           strays == NewDay(d) \/ r \notin today
           oldRefunds == IF NewDay(d) THEN 0 ELSE refunds
           oldExcess == IF NewDay(d) THEN 0 ELSE excess
<1>1. CASE delta = 0
  <2>1. UNCHANGED <<tokens, histVars>>
    BY <1>1 DEF Reconcile
  <2> QED BY <2>1, DayStays
<1>2. CASE delta # 0
  <2>1. /\ q.step = "reconcile"
        /\ SetDay(Reconciled(d, q), {})
        /\ charge' = [charge EXCEPT ![r] = q.actual]
        /\ refunds' = IF strays /\ delta < 0 THEN oldRefunds - delta ELSE oldRefunds
        /\ excess' = IF strays /\ delta > 0 THEN oldExcess + delta ELSE oldExcess
    BY <1>2 DEF Reconcile
  <2>2. /\ q.now \in Nat /\ q.estimate \in Nat /\ q.actual \in Nat
        /\ d \in Totals
        /\ NewDay(d) => d = [start |-> q.now, charged |-> 0]
        /\ ~ NewDay(d) => tokens # NoEntry /\ d = tokens
    <3>1. q.now \in Nat /\ q.estimate \in Nat /\ q.actual \in Nat
      BY DEF Requested
    <3> QED BY <3>1, DayFound
  <2>3. delta \in Int
    BY <2>2
  <2>4. /\ tokens' \in Totals /\ tokens'.start = d.start
        /\ tokens'.charged = IF d.charged + delta >= 0 THEN d.charged + delta ELSE 0
    <3>1. d.charged \in Nat
      BY <2>2 DEF Totals
    <3>2. tokens' = Reconciled(d, q)
      BY <2>1 DEF SetDay
    <3>3. Reconciled(d, q) =
            [d EXCEPT !.charged = IF d.charged + q.actual >= q.estimate
                                  THEN d.charged + q.actual - q.estimate ELSE 0]
      BY DEF Reconciled
    <3> DEFINE sum == IF d.charged + q.actual >= q.estimate
                      THEN d.charged + q.actual - q.estimate ELSE 0
    <3>4. sum \in Nat /\ sum = IF d.charged + delta >= 0 THEN d.charged + delta ELSE 0
      BY <2>2, <3>1
    <3> HIDE DEF sum, delta, d
    <3>5. tokens' = [d EXCEPT !.charged = sum]
      BY <3>2, <3>3 DEF sum
    <3> QED BY <2>2, <3>4, <3>5 DEF Totals
  <2>5. today' = IF NewDay(d) THEN {} ELSE today
    BY <2>1, <2>2, <2>4 DEF SetDay, NewDay
  <2>6. charge' \in [Requests -> Nat] /\ charge'[r] = q.actual
        /\ \A s \in Requests \ {r} : charge'[s] = charge[s]
    BY <2>1, <2>2 DEF DayInv
  <2>7. NoEntry \notin Totals
    BY DEF Limits, EntryAssumption, Totals
  <2>8. ChargeInv'
    <3>1. IsFiniteSet(today') /\ today' \subseteq today
      BY <2>5, FS_EmptySet DEF DayInv, ChargeInv
    <3>2. \A s \in today' : request'[s].step \notin {"new", "check"}
      BY <3>1 DEF DayInv, ChargeInv, OneMoves
    <3>3. \A s \in Requests : request'[s].step \in {"wait", "call", "reconcile"} =>
            s # r /\ charge'[s] = request'[s].estimate
      BY <2>6 DEF DayInv, ChargeInv, OneMoves
    <3> QED BY <2>4, <2>7, <3>1, <3>2, <3>3 DEF ChargeInv
  <2>9. CostToday \in Nat /\ CostToday' \in Nat
    <3>1. ASSUME NEW t, IsFiniteSet(t), NEW e, \A s \in t : e[s] \in Nat
          PROVE  Sum(e, t) \in Nat
      <4> DEFINE c == [s \in t |-> e[s]]
      <4>1. c \in [t -> Nat] /\ \A s \in t : c[s] = e[s]
        BY <3>1
      <4> HIDE DEF c
      <4> QED BY <3>1, <4>1, SumIsNatural, SumOfSame
    <3>2. IsFiniteSet(today) /\ \A s \in today : charge[s] \in Nat
      BY DEF DayInv, ChargeInv
    <3>3. IsFiniteSet(today') /\ \A s \in today' : charge'[s] \in Nat
      BY <2>5, <2>6, <2>8 DEF ChargeInv, DayInv
    <3> QED BY <3>1, <3>2, <3>3, CostIsSum
  <2>10. NewDay(d) => CostToday' = 0
    BY <2>5, CostIsSum, SumOfNone
  <2>11. ~ strays => CostToday' = CostToday + delta
    <3> SUFFICES ASSUME ~ strays PROVE CostToday' = CostToday + delta
      OBVIOUS
    <3> DEFINE c == [s \in today |-> charge[s]]
               e == [s \in today |-> charge'[s]]
               rest == today \ {r}
    <3>1. /\ r \in today /\ today' = today /\ IsFiniteSet(today) /\ today \subseteq Requests
          /\ charge[r] = q.estimate
      BY <2>1, <2>5 DEF DayInv, ChargeInv
    <3>2. c \in [today -> Nat] /\ e \in [today -> Nat] /\ c[r] = q.estimate /\ e[r] = q.actual
      BY <2>6, <3>1 DEF DayInv
    <3>3. /\ \A s \in today : c[s] = charge[s] /\ e[s] = charge'[s]
          /\ \A s \in rest : c[s] = e[s]
      BY <2>6, <3>1 DEF DayInv
    <3>4. IsFiniteSet(rest) /\ [s \in rest |-> c[s]] \in [rest -> Nat]
      BY <3>1, <3>2, FS_Subset
    <3> HIDE DEF c, e, rest
    <3>5. Sum(c, today) = Sum(charge, today) /\ Sum(e, today) = Sum(charge', today)
          /\ Sum(c, rest) = Sum(e, rest)
      BY <3>3, SumOfSame
    <3>6. Sum(c, today) = q.estimate + Sum(c, rest)
      BY <3>1, <3>2, SumSplits DEF rest
    <3>7. Sum(e, today) = q.actual + Sum(e, rest)
      BY <3>1, <3>2, SumSplits DEF rest
    <3>8. Sum(c, rest) \in Nat
      <4> DEFINE b == [s \in rest |-> c[s]]
      <4>1. \A s \in rest : b[s] = c[s]
        OBVIOUS
      <4> HIDE DEF b
      <4>2. Sum(b, rest) = Sum(c, rest)
        BY <4>1, SumOfSame
      <4>3. Sum(b, rest) \in Nat
        BY <3>4, SumIsNatural DEF b
      <4> QED BY <4>2, <4>3
    <3>9. CostToday = q.estimate + Sum(c, rest) /\ CostToday' = q.actual + Sum(c, rest)
      BY <3>1, <3>5, <3>6, <3>7, CostIsSum
    <3>10. \A i, j, k \in Nat : j + k = (i + k) + (j - i)
      OBVIOUS
    <3>11. q.actual + Sum(c, rest) = (q.estimate + Sum(c, rest)) + (q.actual - q.estimate)
      BY <2>2, <3>8, <3>10
    <3> QED BY <3>9, <3>11
  <2>12. r \notin today /\ ~ NewDay(d) => CostToday' = CostToday
    <3>1. ASSUME r \notin today, ~ NewDay(d) PROVE CostToday' = CostToday
      <4>1. today' = today /\ \A s \in today : charge'[s] = charge[s]
        BY <2>5, <2>6, <3>1 DEF DayInv
      <4>2. Sum(charge', today) = Sum(charge, today)
        BY <4>1, SumOfSame
      <4> QED BY <4>1, <4>2, CostIsSum
    <3> QED BY <3>1
  <2>13. refunds' \in Nat /\ excess' \in Nat
    BY <2>1, <2>3 DEF DayInv
  <2>14. OnlyStragglersDistort'
    <3>1. Charged' = IF d.charged + delta >= 0 THEN d.charged + delta ELSE 0
      BY <2>4, <2>7 DEF Charged
    <3>2. CASE NewDay(d)
      <4>1. d.charged = 0 /\ CostToday' = 0
        BY <2>2, <2>10, <3>2
      <4>2. /\ refunds' = IF delta < 0 THEN 0 - delta ELSE 0
            /\ excess' = IF delta > 0 THEN delta ELSE 0
        BY <2>1, <2>3, <3>2
      <4> QED BY <2>3, <3>1, <4>1, <4>2 DEF OnlyStragglersDistort
    <3>3. CASE ~ NewDay(d)
      <4>1. d.charged = Charged /\ Charged \in Nat
        BY <2>2, <3>3 DEF Charged, Totals
      <4>2. /\ refunds \in Nat /\ excess \in Nat
            /\ Charged + refunds >= CostToday /\ Charged <= CostToday + excess
        BY DEF DayInv, OnlyStragglersDistort
      <4>3. CASE r \in today
        <5>1. refunds' = refunds /\ excess' = excess /\ CostToday' = CostToday + delta
          BY <2>1, <2>11, <3>3, <4>3
        <5> HIDE DEF delta
        <5> QED BY <2>3, <2>9, <3>1, <4>1, <4>2, <5>1 DEF OnlyStragglersDistort
      <4>4. CASE r \notin today
        <5>1. /\ refunds' = IF delta < 0 THEN refunds - delta ELSE refunds
              /\ excess' = IF delta > 0 THEN excess + delta ELSE excess
              /\ CostToday' = CostToday
          BY <2>1, <2>12, <3>3, <4>4
        <5> HIDE DEF delta
        <5> QED BY <2>3, <2>9, <3>1, <4>1, <4>2, <5>1 DEF OnlyStragglersDistort
      <4> QED BY <4>3, <4>4
    <3> QED BY <3>2, <3>3
  <2> QED BY <2>4, <2>5, <2>6, <2>8, <2>13, <2>14 DEF DayInv
<1> QED BY <1>1, <1>2

-----------------------------------------------------------------------------
(* The steps.                                                              *)

\* The time and the window, which nothing else depends on.
Times ==
  /\ time \in Nat
  /\ windows \in [start : Nat, count : 0..RatePerMin] \cup {NoEntry}

\* PaidInv is what the parts say.
LEMMA PaidParts ==
  /\ PaidInv <=> Limits /\ Times /\ Queue /\ DayInv
  /\ PaidInv' <=> Limits /\ Times' /\ Queue' /\ DayInv'
BY DEF PaidInv, PaidTypeOK, Times, Queue, Requested, DayInv, Totals, Limits

\* A step that writes a record in one request's place.
LEMMA OneWritten ==
  ASSUME Queue, NEW r \in Requests, NEW q \in Requested, request' = [request EXCEPT ![r] = q]
  PROVE  OneMoves(r) /\ request'[r] = q
BY DEF Queue, OneMoves

\* Every step keeps PaidInv.
LEMMA StepKeepsPaidInv == PaidInv /\ [PaidNext]_paidVars => PaidInv'
<1> SUFFICES ASSUME PaidInv, [PaidNext]_paidVars PROVE PaidInv'
  OBVIOUS
<1>0. Limits /\ Times /\ Queue /\ DayInv
  BY PaidParts
<1>1. ASSUME NEW r \in Requests, NEW kind \in RequestKinds, NEW e \in Estimates, Arrive(r, kind, e)
      PROVE  PaidInv'
  <2> DEFINE q == [kind |-> kind, estimate |-> e, actual |-> 0, now |-> time, step |-> "check"]
  <2>1. q \in Requested
    BY <1>0 DEF Limits, LimiterAssumption, Times, Requested, Steps
  <2>2. request' = [request EXCEPT ![r] = q]
    BY <1>1 DEF Arrive
  <2>3. OneMoves(r) /\ request'[r] = q
    <3> HIDE DEF q
    <3> QED BY <1>0, <2>1, <2>2, OneWritten
  <2>4. r \notin today /\ request[r].step = "new"
    BY <1>0, <1>1 DEF Arrive, DayInv, ChargeInv
  <2>5. r \notin Running /\ r \notin Running'
    BY <2>3, <2>4 DEF Running
  <2>6. Queue'
    <3>1. permits' = permits + 0 /\ UNCHANGED waiting
      BY <1>0, <1>1 DEF Arrive, semVars, Queue
    <3> QED BY <1>0, <2>3, <2>4, <2>5, <3>1, QueueStays
  <2>7. DayInv'
    <3>1. UNCHANGED <<tokens, histVars>>
      BY <1>1 DEF Arrive, limiterVars
    <3> QED BY <1>0, <2>3, <2>4, <3>1, DayStays
  <2>8. Times'
    BY <1>0, <1>1 DEF Arrive, limiterVars, Times
  <2> QED BY <1>0, <2>6, <2>7, <2>8, PaidParts
<1>2. ASSUME NEW r \in Requests, Admit(r) PROVE PaidInv'
  <2> DEFINE to == IF request[r].kind = "skill" THEN "wait" ELSE "call"
             q == [request[r] EXCEPT !.step = to]
  <2>1. request[r] \in Requested /\ request[r].step = "check"
    BY <1>0, <1>2 DEF Admit, Queue
  <2>2. /\ q \in Requested /\ q.step = to /\ q.kind = request[r].kind
        /\ q.estimate = request[r].estimate /\ q.now = request[r].now
    <3>1. to \in Steps
      BY DEF Steps
    <3> HIDE DEF to
    <3> QED BY <2>1, <3>1 DEF Requested
  <2>3. request' = [request EXCEPT ![r] = q]
    BY <1>2 DEF Admit
  <2>4. OneMoves(r) /\ request'[r] = q
    <3> HIDE DEF q
    <3> QED BY <1>0, <2>2, <2>3, OneWritten
  <2>5. Queue'
    <3>1. CASE request[r].kind = "skill"
      <4>1. UNCHANGED permits /\ waiting' = Append(waiting, r)
        BY <1>2, <3>1 DEF Admit
      <4> QED BY <1>0, <2>1, <2>2, <2>4, <3>1, <4>1, QueueGrows
    <3>2. CASE request[r].kind # "skill"
      <4>1. UNCHANGED <<permits, waiting>> /\ permits' = permits + 0
        BY <1>0, <1>2, <3>2 DEF Admit, Queue
      <4>2. request[r].step = "check" /\ request'[r].step = "call" /\ request'[r].kind # "skill"
        BY <2>1, <2>2, <2>4, <3>2
      <4>3. r \notin Running /\ r \notin Running' /\ request'[r].step # "wait"
        BY <4>2 DEF Running
      <4> QED BY <1>0, <2>1, <2>4, <4>1, <4>3, QueueStays
    <3> QED BY <3>1, <3>2
  <2>6. DayInv'
    BY <1>0, <1>2, <2>1, <2>2, <2>4, AdmitKeepsDay
  <2>7. Times'
    <3> DEFINE w == CurrentWindow(request[r].now)
    <3>1. /\ w \in [start : Nat, count : 0..RatePerMin]
          /\ w.count + 1 <= RatePerMin
      <4>1. w.count + 1 <= RatePerMin
        BY <1>2 DEF Admit, RateAllows
      <4>2. w \in [start : Nat, count : 0..RatePerMin]
        <5>1. request[r].now \in Nat /\ RatePerMin \in Nat
          BY <1>0, <2>1 DEF Requested, Limits, LimiterAssumption
        <5> QED BY <1>0, <5>1 DEF CurrentWindow, Times
      <4> QED BY <4>1, <4>2
    <3>2. windows' = [w EXCEPT !.count = @ + 1] /\ UNCHANGED time
      BY <1>2 DEF Admit
    <3>3. RatePerMin \in Nat
      BY <1>0 DEF Limits, LimiterAssumption
    <3> HIDE DEF w
    <3>4. w.count + 1 \in 0..RatePerMin
      BY <3>1, <3>3
    <3>5. windows' \in [start : Nat, count : 0..RatePerMin]
      BY <3>1, <3>2, <3>4
    <3> QED BY <1>0, <3>2, <3>5 DEF Times
  <2> QED BY <1>0, <2>5, <2>6, <2>7, PaidParts
<1>3. ASSUME NEW r \in Requests, Refuse(r) PROVE PaidInv'
  <2> DEFINE q == [request[r] EXCEPT !.step = "done"]
  <2>1. request[r] \in Requested /\ request[r].step = "check"
    BY <1>0, <1>3 DEF Refuse, Queue
  <2>2. q \in Requested /\ q.step = "done"
    BY <2>1 DEF Requested, Steps
  <2>3. request' = [request EXCEPT ![r] = q]
    BY <1>3 DEF Refuse, Done
  <2>4. OneMoves(r) /\ request'[r] = q
    <3> HIDE DEF q
    <3> QED BY <1>0, <2>2, <2>3, OneWritten
  <2>5. r \notin Running /\ r \notin Running' /\ r \notin today
    BY <1>0, <2>1, <2>2, <2>4 DEF Running, DayInv, ChargeInv
  <2>6. Queue'
    <3>1. UNCHANGED waiting /\ permits' = permits + 0
      BY <1>0, <1>3 DEF Refuse, semVars, Queue
    <3> QED BY <1>0, <2>1, <2>2, <2>4, <2>5, <3>1, QueueStays
  <2>7. DayInv'
    <3>1. UNCHANGED <<tokens, histVars>>
      BY <1>3 DEF Refuse, limiterVars
    <3> QED BY <1>0, <2>2, <2>4, <2>5, <3>1, DayStays
  <2>8. Times'
    BY <1>0, <1>3 DEF Refuse, limiterVars, Times
  <2> QED BY <1>0, <2>6, <2>7, <2>8, PaidParts
<1>4. ASSUME NEW r \in Requests, Reconcile(r) PROVE PaidInv'
  <2> DEFINE q == [request[r] EXCEPT !.step = "done"]
  <2>1. request[r] \in Requested /\ request[r].step = "reconcile"
    BY <1>0, <1>4 DEF Reconcile, Queue
  <2>2. q \in Requested /\ q.step = "done"
    BY <2>1 DEF Requested, Steps
  <2>3. request' = [request EXCEPT ![r] = q]
    BY <1>4 DEF Reconcile, Done
  <2>4. OneMoves(r) /\ request'[r] = q
    <3> HIDE DEF q
    <3> QED BY <1>0, <2>2, <2>3, OneWritten
  <2>5. r \notin Running /\ r \notin Running'
    BY <2>1, <2>2, <2>4 DEF Running
  <2>6. Queue'
    <3>1. UNCHANGED waiting /\ permits' = permits + 0
      BY <1>0, <1>4 DEF Reconcile, semVars, Queue
    <3> QED BY <1>0, <2>1, <2>2, <2>4, <2>5, <3>1, QueueStays
  <2>7. DayInv'
    BY <1>0, <1>4, <2>1, <2>2, <2>4, ReconcileKeepsDay
  <2>8. Times'
    BY <1>0, <1>4 DEF Reconcile, Times
  <2> QED BY <1>0, <2>6, <2>7, <2>8, PaidParts
<1>5. ASSUME NEW r \in Requests, Acquire(r) PROVE PaidInv'
  <2> DEFINE q == [request[r] EXCEPT !.step = "call"]
  <2>1. request[r] \in Requested
    BY <1>0 DEF Queue
  <2>2. q \in Requested /\ q.step = "call" /\ q.kind = request[r].kind
        /\ q.estimate = request[r].estimate
    BY <2>1 DEF Requested, Steps
  <2>3. request' = [request EXCEPT ![r] = q]
    BY <1>5 DEF Acquire
  <2>4. OneMoves(r) /\ request'[r] = q
    <3> HIDE DEF q
    <3> QED BY <1>0, <2>2, <2>3, OneWritten
  <2>5. /\ permits > 0 /\ permits' = permits - 1
        /\ waiting # <<>> /\ Head(waiting) = r /\ waiting' = Tail(waiting)
    BY <1>5 DEF Acquire
  <2>6. Queue'
    BY <1>0, <2>2, <2>4, <2>5, QueueShrinks
  <2>7. request[r].step = "wait"
    <3>1. 1 \in DOMAIN waiting /\ waiting[1] = r
      BY <1>0, <2>5, EmptySeq DEF Queue
    <3> QED BY <1>0, <3>1 DEF Queue
  <2>8. DayInv'
    <3>1. UNCHANGED <<tokens, histVars>>
      BY <1>5 DEF Acquire, limiterVars
    <3>2. charge[r] = q.estimate
      BY <1>0, <2>2, <2>7 DEF DayInv, ChargeInv
    <3> QED BY <1>0, <2>2, <2>4, <3>1, <3>2, DayStays
  <2>9. Times'
    BY <1>0, <1>5 DEF Acquire, limiterVars, Times
  <2> QED BY <1>0, <2>6, <2>8, <2>9, PaidParts
\* A call that ends, with an answer or without one.
<1>6. ASSUME NEW r \in Requests, NEW q \in Requested, request[r].step = "call",
             request' = [request EXCEPT ![r] = q],
             q.step = "done" \/ (q.step = "reconcile" /\ q.estimate = request[r].estimate),
             Release(r), UNCHANGED <<time, limiterVars, waiting, histVars>>
      PROVE  PaidInv'
  <2>1. OneMoves(r) /\ request'[r] = q
    BY <1>0, <1>6, OneWritten
  <2>2. r \in Running <=> request[r].kind = "skill"
    BY <1>6 DEF Running
  <2>3. r \notin Running'
    BY <1>6, <2>1 DEF Running
  <2>4. Queue'
    <3>1. UNCHANGED waiting /\ permits' = permits + (IF r \in Running THEN 1 ELSE 0)
      BY <1>6, <2>2 DEF Release
    <3> QED BY <1>0, <1>6, <2>1, <2>3, <3>1, QueueStays
  <2>5. DayInv'
    <3>1. UNCHANGED <<tokens, histVars>>
      BY <1>6 DEF limiterVars
    <3>2. charge[r] = request[r].estimate
      BY <1>0, <1>6 DEF DayInv, ChargeInv
    <3> QED BY <1>0, <1>6, <2>1, <3>1, <3>2, DayStays
  <2>6. Times'
    BY <1>0, <1>6 DEF limiterVars, Times
  <2> QED BY <1>0, <2>4, <2>5, <2>6, PaidParts
<1>7. ASSUME NEW r \in Requests, NEW used \in 0..MaxUsage, Answer(r, used) PROVE PaidInv'
  <2> DEFINE to == IF request[r].kind = "ask" THEN "reconcile" ELSE "done"
             q == [request[r] EXCEPT !.actual = used, !.now = time, !.step = to]
  <2>1. request[r] \in Requested /\ request[r].step = "call"
    BY <1>0, <1>7 DEF Answer, Queue
  <2>2. q \in Requested /\ q.step = to /\ q.estimate = request[r].estimate
    <3>1. to \in Steps /\ used \in Nat /\ time \in Nat
      BY <1>0 DEF Steps, Times, Limits, LimiterAssumption
    <3> HIDE DEF to
    <3> QED BY <2>1, <3>1 DEF Requested
  <2>3. request' = [request EXCEPT ![r] = q]
    <3>1. request' = [request EXCEPT ![r].actual = used, ![r].now = time, ![r].step = to]
      BY <1>7 DEF Answer
    <3> HIDE DEF to
    <3> QED BY <1>0, <3>1 DEF Queue, Requested
  <2>4. q.step = "done" \/ q.step = "reconcile"
    BY <2>2
  <2>5. Release(r) /\ UNCHANGED <<time, limiterVars, waiting, histVars>>
    BY <1>7 DEF Answer
  <2> HIDE DEF q
  <2> QED BY <1>6, <2>1, <2>2, <2>3, <2>4, <2>5
<1>8. ASSUME NEW r \in Requests, CallRaises(r) PROVE PaidInv'
  <2> DEFINE q == [request[r] EXCEPT !.step = "done"]
  <2>1. request[r] \in Requested /\ request[r].step = "call"
    BY <1>0, <1>8 DEF CallRaises, Queue
  <2>2. q \in Requested /\ q.step = "done"
    BY <2>1 DEF Requested, Steps
  <2>3. request' = [request EXCEPT ![r] = q]
    BY <1>8 DEF CallRaises, Done
  <2>4. Release(r) /\ UNCHANGED <<time, limiterVars, waiting, histVars>>
    BY <1>8 DEF CallRaises
  <2> HIDE DEF q
  <2> QED BY <1>6, <2>1, <2>2, <2>3, <2>4
<1>9. ASSUME TimePasses \/ UNCHANGED paidVars PROVE PaidInv'
  <2>1. UNCHANGED <<windows, tokens, permits, waiting, request, today, charge, refunds, excess>>
    BY <1>9 DEF TimePasses, paidVars, limiterVars, semVars, histVars
  <2>2. time' \in Nat
    BY <1>0, <1>9 DEF TimePasses, paidVars, Times
  <2>3. Times'
    BY <1>0, <2>1, <2>2 DEF Times
  <2>4. Queue'
    <3>1. Running' = Running
      BY <2>1 DEF Running
    <3> QED BY <1>0, <2>1, <3>1 DEF Queue, PermitInv
  <2>5. DayInv'
    <3>1. CostToday' = CostToday
      BY <2>1, CostIsSum
    <3>2. OnlyStragglersDistort'
      BY <1>0, <2>1, <3>1 DEF DayInv, OnlyStragglersDistort, Charged
    <3> QED BY <1>0, <2>1, <3>2 DEF DayInv, ChargeInv
  <2> QED BY <1>0, <2>3, <2>4, <2>5, PaidParts
<1> QED BY <1>1, <1>2, <1>3, <1>4, <1>5, <1>7, <1>8, <1>9 DEF PaidNext

\* PaidInv is an invariant.
LEMMA PaidInvHolds == PaidSpec => []PaidInv
<1>1. PaidInit => PaidInv
  BY LimiterAssumption, EntryAssumption, InitPaidInv DEF Limits
<1> QED BY <1>1, StepKeepsPaidInv, PTL DEF PaidSpec

\* Skill runs hold exactly the permits that are not free, for any number of
\* requests and permits (PermitsAccountForRuns).
THEOREM PermitsAreHeld == PaidSpec => []PermitsAccountForRuns
<1>1. PaidInv => PermitsAccountForRuns
  BY DEF PaidInv, PermitInv, Running, PermitsAccountForRuns
<1> QED BY <1>1, PaidInvHolds, PTL

\* The day's total is the cost of its requests, up to what those of an older
\* day gave back or took (OnlyStragglersDistort).
THEOREM StragglersAloneDistort == PaidSpec => []OnlyStragglersDistort
<1>1. PaidInv => OnlyStragglersDistort
  BY DEF PaidInv
<1> QED BY <1>1, PaidInvHolds, PTL

-----------------------------------------------------------------------------
(* The background agents: their inductive invariant.                       *)

\* The assumptions of Upkeep on its constants, which no step changes.
World == UpkeepAssumption

Status == ActiveStatuses \cup {"resolved"}

\* The rows that organizer and writers work on.
TablesInv ==
  /\ text \in [Entities -> Text] /\ text \in Worlds
  /\ ent \in [Entities -> [version : 0..MaxVersion, cluster : Clusters \cup {None},
                           created : 0..MaxClock, touched : 0..MaxClock]]
  /\ importance \in [Entities -> Nat]
  /\ IsFiniteSet(edges) /\ compiled \subseteq Entities
  /\ clock \in 0..MaxClock
  /\ call.stage \in {"none", "classify", "embed"}

\* The watchdog's alerts: no two of an entity and a rule are active, and a
\* receipt is of one of them.
AlertsInv ==
  /\ alerts \in [Entities -> [Rules -> Seq(Status)]]
  /\ \A e \in Entities, r \in Rules : \A i, j \in DOMAIN alerts[e][r] :
       alerts[e][r][i] \in ActiveStatuses /\ alerts[e][r][j] \in ActiveStatuses => i = j
  /\ receipts \subseteq Entities \X Rules \X Nat
  /\ \A p \in receipts : p[3] \in DOMAIN alerts[p[1]][p[2]]
  /\ pending \subseteq Entities

UpkeepInv == World /\ TablesInv /\ AlertsInv /\ VectorsMatchTheirHash

\* What UpkeepInv is for.
LEMMA UpkeepInvSuffices == UpkeepInv => OneActiveAlert
<1> SUFFICES ASSUME UpkeepInv PROVE OneActiveAlert
  OBVIOUS
<1>1. UpkeepTypeOK
  BY DEF UpkeepInv, World, TablesInv, AlertsInv, Status, UpkeepTypeOK
<1>2. ASSUME NEW e \in Entities, NEW r \in Rules
      PROVE  Cardinality({i \in DOMAIN alerts[e][r] : alerts[e][r][i] \in ActiveStatuses}) <= 1
  <2> DEFINE active == {i \in DOMAIN alerts[e][r] : alerts[e][r][i] \in ActiveStatuses}
  <2>1. \A i, j \in active : i = j
    BY DEF UpkeepInv, AlertsInv
  <2>2. CASE active = {}
    BY <2>2, FS_EmptySet
  <2>3. CASE active # {}
    <3>1. PICK i \in active : TRUE
      BY <2>3
    <3> HIDE DEF active
    <3>2. active = {i}
      BY <2>1, <3>1
    <3>3. Cardinality(active) = 1
      BY <3>2, FS_Singleton
    <3> QED BY <3>3 DEF active
  <2> QED BY <2>2, <2>3
<1> QED BY <1>1, <1>2 DEF UpkeepInv, AlertsInv, OneActiveAlert

\* UpkeepInv holds at the start.
LEMMA InitUpkeepInv == World /\ UpkeepInit => UpkeepInv
<1> SUFFICES ASSUME World, UpkeepInit PROVE UpkeepInv
  OBVIOUS
<1>1. MaxVersion \in Nat \ {0} /\ MaxClock \in Nat /\ Worlds \subseteq [Entities -> Text]
  BY DEF World, UpkeepAssumption
<1>2. TablesInv
  <2>1. \A e \in Entities : ent[e] = [version |-> IF e \in Old THEN 1 ELSE 0, cluster |-> None,
                                       created |-> 0, touched |-> 0]
    BY DEF UpkeepInit, NoRow
  <2>2. ent = [e \in Entities |-> ent[e]]
    BY DEF UpkeepInit
  <2>3. ent \in [Entities -> [version : 0..MaxVersion, cluster : Clusters \cup {None},
                              created : 0..MaxClock, touched : 0..MaxClock]]
    BY <1>1, <2>1, <2>2
  <2> QED BY <1>1, <2>3, FS_EmptySet DEF UpkeepInit, TablesInv, NoCall
<1>3. AlertsInv
  BY DEF UpkeepInit, AlertsInv, Status
<1>4. VectorsMatchTheirHash
  BY DEF UpkeepInit, VectorsMatchTheirHash, NoVector
<1> QED BY <1>2, <1>3, <1>4 DEF UpkeepInv

\* Detection adds one open alert where none is active, and receipts of alerts
\* that it adds.
LEMMA DetectKeeps ==
  ASSUME AlertsInv, NEW es \in SUBSET Entities, Detect(es), pending' \subseteq pending
  PROVE  AlertsInv'
<1>1. PICK outcome \in {"done", "overflow", "unreceipted", "failed"} :
        /\ alerts' = [e \in Entities |-> [r \in Rules |->
             IF <<e, r>> \in Raised(es) /\ outcome # "failed"
             THEN Append(alerts[e][r], "open") ELSE alerts[e][r]]]
        /\ receipts' = receipts \cup
             (IF outcome \in {"done", "overflow"}
              THEN {<<p[1], p[2], Len(alerts[p[1]][p[2]]) + 1>> : p \in Raised(es)} ELSE {})
  BY DEF Detect
<1>2. ASSUME NEW e \in Entities, NEW r \in Rules
      PROVE  /\ alerts'[e][r] \in Seq(Status)
             /\ \A i, j \in DOMAIN alerts'[e][r] :
                  alerts'[e][r][i] \in ActiveStatuses /\ alerts'[e][r][j] \in ActiveStatuses => i = j
             /\ DOMAIN alerts[e][r] \subseteq DOMAIN alerts'[e][r]
             /\ <<e, r>> \in Raised(es) /\ outcome # "failed" =>
                  Len(alerts[e][r]) + 1 \in DOMAIN alerts'[e][r]
  <2> DEFINE q == alerts[e][r]
  <2>1. /\ q \in Seq(Status) /\ Len(q) \in Nat /\ DOMAIN q = 1..Len(q)
        /\ \A i, j \in DOMAIN q : q[i] \in ActiveStatuses /\ q[j] \in ActiveStatuses => i = j
    BY DEF AlertsInv
  <2>2. CASE ~ (<<e, r>> \in Raised(es) /\ outcome # "failed")
    <3>1. alerts'[e][r] = q
      BY <1>1, <2>2
    <3> QED BY <2>1, <2>2, <3>1
  <2>3. CASE <<e, r>> \in Raised(es) /\ outcome # "failed"
    <3>1. alerts'[e][r] = Append(q, "open")
      BY <1>1, <2>3
    <3>2. \A i \in DOMAIN q : q[i] \notin ActiveStatuses
      BY <2>3 DEF Raised, Active
    <3>3. "open" \in Status
      BY DEF Status, ActiveStatuses
    <3> DEFINE a == Append(q, "open")
    <3>4. /\ a \in Seq(Status) /\ DOMAIN a = 1..(Len(q) + 1)
          /\ \A i \in 1..Len(q) : a[i] = q[i]
      <4> HIDE DEF q
      <4> QED BY <2>1, <3>3, AppendProperties
    <3> HIDE DEF a, q
    <3>5. \A i \in DOMAIN a : a[i] \in ActiveStatuses => i = Len(q) + 1
      BY <2>1, <3>2, <3>4
    <3> QED BY <2>1, <3>1, <3>4, <3>5 DEF a, q
  <2> QED BY <2>2, <2>3
<1>3. alerts' \in [Entities -> [Rules -> Seq(Status)]]
  BY <1>1, <1>2
<1>4. ASSUME NEW p \in receipts'
      PROVE  p \in Entities \X Rules \X Nat /\ p[3] \in DOMAIN alerts'[p[1]][p[2]]
  <2>1. CASE p \in receipts
    <3>1. p \in Entities \X Rules \X Nat /\ p[3] \in DOMAIN alerts[p[1]][p[2]]
      BY <2>1 DEF AlertsInv
    <3>2. p[1] \in Entities /\ p[2] \in Rules
      BY <3>1
    <3>3. DOMAIN alerts[p[1]][p[2]] \subseteq DOMAIN alerts'[p[1]][p[2]]
      BY <1>2, <3>2
    <3> QED BY <3>1, <3>3
  <2>2. CASE p \notin receipts
    <3>1. /\ outcome \in {"done", "overflow"}
          /\ \E x \in Raised(es) : p = <<x[1], x[2], Len(alerts[x[1]][x[2]]) + 1>>
      BY <1>1, <2>2
    <3>2. PICK x \in Raised(es) : p = <<x[1], x[2], Len(alerts[x[1]][x[2]]) + 1>>
      BY <3>1
    <3>3. x[1] \in Entities /\ x[2] \in Rules /\ x = <<x[1], x[2]>>
      BY <3>2 DEF Raised
    <3>4. Len(alerts[x[1]][x[2]]) + 1 \in DOMAIN alerts'[x[1]][x[2]]
      BY <1>2, <3>1, <3>3
    <3>5. Len(alerts[x[1]][x[2]]) \in Nat
      BY <3>3 DEF AlertsInv
    <3> QED BY <3>2, <3>3, <3>4, <3>5
  <2> QED BY <2>1, <2>2
<1> QED BY <1>2, <1>3, <1>4 DEF AlertsInv

\* An alert gets the next status, and stays inactive if it was.
LEMMA SetStatusKeeps ==
  ASSUME AlertsInv, NEW e \in Entities, NEW r \in Rules, NEW n \in DOMAIN alerts[e][r],
         NEW status \in Status, SetStatus(e, r, n, status),
         status = "resolved" \/ alerts[e][r][n] \in ActiveStatuses
  PROVE  AlertsInv'
<1> DEFINE q == alerts[e][r]
           a == [q EXCEPT ![n] = status]
<1>1. alerts' = [alerts EXCEPT ![e][r] = a]
  BY DEF SetStatus
<1>2. q \in Seq(Status) /\ n \in DOMAIN q
  BY DEF AlertsInv
<1>3. a \in Seq(Status) /\ DOMAIN a = DOMAIN q /\ \A i \in DOMAIN q : a[i] = IF i = n THEN status ELSE q[i]
  <2> HIDE DEF q
  <2> QED BY <1>2
<1>4. /\ alerts' \in [Entities -> [Rules -> Seq(Status)]]
      /\ \A f \in Entities, s \in Rules :
           alerts'[f][s] = IF f = e /\ s = r THEN a ELSE alerts[f][s]
  <2> HIDE DEF a
  <2> QED BY <1>1, <1>3 DEF AlertsInv
<1>5. "resolved" \notin ActiveStatuses
  BY DEF ActiveStatuses
<1>6. \A i \in DOMAIN q : a[i] \in ActiveStatuses => q[i] \in ActiveStatuses
  BY <1>3, <1>5
<1> HIDE DEF a
<1>7. ASSUME NEW f \in Entities, NEW s \in Rules
      PROVE  /\ DOMAIN alerts'[f][s] = DOMAIN alerts[f][s]
             /\ \A i \in DOMAIN alerts[f][s] :
                  alerts'[f][s][i] \in ActiveStatuses => alerts[f][s][i] \in ActiveStatuses
  BY <1>3, <1>4, <1>6
<1>8. receipts' = receipts /\ pending' = pending
  BY DEF SetStatus
<1>9. \A p \in receipts : p[1] \in Entities /\ p[2] \in Rules
  BY DEF AlertsInv
<1> QED BY <1>4, <1>7, <1>8, <1>9 DEF AlertsInv

\* What the other steps leave alone.
LEMMA AlertsStay ==
  ASSUME AlertsInv, UNCHANGED <<alerts, receipts>>, pending' \subseteq Entities
  PROVE  AlertsInv'
BY DEF AlertsInv

\* Vectors match as long as they stay.
LEMMA VectorsStay ==
  ASSUME VectorsMatchTheirHash, UNCHANGED vector PROVE VectorsMatchTheirHash'
BY DEF VectorsMatchTheirHash

Row == [version : 0..MaxVersion, cluster : Clusters \cup {None},
        created : 0..MaxClock, touched : 0..MaxClock]

\* Writing one row.
LEMMA WriteTyped ==
  ASSUME World, TablesInv, NEW e \in Entities, NEW c \in Clusters \cup {None}, Write(e, c)
  PROVE  ent' \in [Entities -> Row] /\ UNCHANGED <<text, edges, importance, vector, compiled>>
<1>1. /\ ent' = [ent EXCEPT ![e] = Written(e, c)]
      /\ ent[e].version < MaxVersion
      /\ UNCHANGED <<text, edges, importance, vector, compiled>>
  BY DEF Write
<1>2. ent[e] \in Row /\ clock \in 0..MaxClock /\ MaxVersion \in Nat
  BY DEF TablesInv, Row, World, UpkeepAssumption
<1>3. Written(e, c) \in Row
  <2>1. ent[e].version + 1 \in 0..MaxVersion
    BY <1>1, <1>2 DEF Row
  <2> QED BY <1>2, <2>1 DEF Written, Row
<1>4. ent \in [Entities -> Row]
  BY DEF TablesInv, Row
<1> QED BY <1>1, <1>3, <1>4

\* A step that touches rows and no more of the tables.
LEMMA TablesFollow ==
  ASSUME TablesInv, ent' \in [Entities -> Row], UNCHANGED <<text, edges, importance, compiled>>,
         clock' \in 0..MaxClock, call'.stage \in {"none", "classify", "embed"}
  PROVE  TablesInv'
BY DEF TablesInv, Row

\* The entity table holds rows.
LEMMA RowsTyped == TablesInv => ent \in [Entities -> Row]
BY DEF TablesInv, Row

\* A step that leaves the tables as they are.
LEMMA TablesStay ==
  ASSUME TablesInv, UNCHANGED tables, clock' \in 0..MaxClock,
         call'.stage \in {"none", "classify", "embed"}
  PROVE  TablesInv'
<1>1. UNCHANGED <<text, ent, edges, importance, compiled>>
  BY DEF tables
<1> QED BY <1>1, RowsTyped, TablesFollow

\* Writers keep UpkeepInv.
LEMMA WritersKeep ==
  ASSUME UpkeepInv, NEW e \in Entities,
         IngestEntity(e) \/ WriteEntity(e) \/ CompileSkill(e)
  PROVE  UpkeepInv'
<1>0. World /\ TablesInv /\ AlertsInv /\ VectorsMatchTheirHash
  BY DEF UpkeepInv
<1>1. CASE IngestEntity(e)
  <2>1. text[e].given \in Clusters \cup {None}
    <3>1. text[e] \in Text
      BY <1>0 DEF TablesInv
    <3> QED BY <3>1 DEF Text
  <2>2. Write(e, text[e].given) /\ Enqueue(e)
        /\ UNCHANGED <<alerts, receipts, call, clock>>
    BY <1>1 DEF IngestEntity
  <2>3. ent' \in [Entities -> Row] /\ UNCHANGED <<text, edges, importance, vector, compiled>>
    BY <1>0, <2>1, <2>2, WriteTyped
  <2>4. TablesInv'
    <3>1. clock' \in 0..MaxClock /\ call'.stage \in {"none", "classify", "embed"}
      BY <1>0, <2>2 DEF TablesInv
    <3> QED BY <1>0, <2>3, <3>1, TablesFollow
  <2>5. AlertsInv'
    <3>1. pending' \subseteq Entities
      BY <1>0, <2>2 DEF Enqueue, AlertsInv
    <3> QED BY <1>0, <2>2, <3>1, AlertsStay
  <2> QED BY <1>0, <2>3, <2>4, <2>5, VectorsStay DEF UpkeepInv, World
<1>2. CASE WriteEntity(e)
  <2>1. ent[e].cluster \in Clusters \cup {None}
    BY <1>0 DEF TablesInv
  <2>2. Write(e, ent[e].cluster) /\ UNCHANGED <<alerts, receipts, pending, call, clock>>
    BY <1>2 DEF WriteEntity, watch
  <2>3. ent' \in [Entities -> Row] /\ UNCHANGED <<text, edges, importance, vector, compiled>>
    BY <1>0, <2>1, <2>2, WriteTyped
  <2>4. TablesInv'
    <3>1. clock' \in 0..MaxClock /\ call'.stage \in {"none", "classify", "embed"}
      BY <1>0, <2>2 DEF TablesInv
    <3> QED BY <1>0, <2>3, <3>1, TablesFollow
  <2>5. AlertsInv'
    BY <1>0, <2>2, AlertsStay DEF AlertsInv
  <2> QED BY <1>0, <2>3, <2>4, <2>5, VectorsStay DEF UpkeepInv, World
<1>3. CASE CompileSkill(e)
  <2>1. TablesInv'
    BY <1>0, <1>3 DEF TablesInv, CompileSkill
  <2>2. AlertsInv' /\ UNCHANGED vector
    BY <1>0, <1>3, AlertsStay DEF CompileSkill, watch, AlertsInv
  <2> QED BY <1>0, <2>1, <2>2, VectorsStay DEF UpkeepInv, World
<1> QED BY <1>1, <1>2, <1>3

\* New edges, and the day that passes, keep UpkeepInv.
LEMMA EdgesKeep ==
  ASSUME UpkeepInv, Propose \/ \E s, t \in Entities : AddEdge(s, t)
  PROVE  UpkeepInv'
<1>0. World /\ TablesInv /\ AlertsInv /\ VectorsMatchTheirHash
  BY DEF UpkeepInv
<1>1. IsFiniteSet(edges') /\ UNCHANGED <<text, ent, importance, vector, compiled, watch, call, clock>>
  <2>1. CASE Propose
    <3>1. PICK new \in SUBSET Proposals :
            edges' = edges \cup {Edge(p[1], p[2], "related") : p \in new}
      BY <2>1 DEF Propose
    <3>2. IsFiniteSet(Entities \X Entities)
      BY <1>0, FS_Product DEF World, UpkeepAssumption
    <3>3. new \subseteq Entities \X Entities
      BY DEF Proposals, Present
    <3>4. IsFiniteSet(new)
      BY <3>2, <3>3, FS_Subset
    <3> DEFINE drawn == {Edge(p[1], p[2], "related") : p \in new}
    <3>5. IsFiniteSet(drawn)
      <4> DEFINE f == [p \in new |-> Edge(p[1], p[2], "related")]
      <4>1. f \in Surjection(new, drawn)
        BY DEF Surjection
      <4> HIDE DEF f, drawn
      <4> QED BY <3>4, <4>1, FS_Surjection
    <3>6. IsFiniteSet(edges \cup drawn)
      <4> HIDE DEF drawn
      <4> QED BY <1>0, <3>5, FS_Union DEF TablesInv
    <3> QED BY <2>1, <3>1, <3>6 DEF Propose
  <2>2. CASE \E s, t \in Entities : AddEdge(s, t)
    <3>1. PICK s, t \in Entities : AddEdge(s, t)
      BY <2>2
    <3>2. edges' = edges \cup {Edge(s, t, "depends_on")}
      BY <3>1 DEF AddEdge
    <3>3. IsFiniteSet(edges')
      BY <1>0, <3>2, FS_AddElement DEF TablesInv
    <3> QED BY <3>1, <3>3 DEF AddEdge
  <2> QED BY <2>1, <2>2
<1>2. TablesInv'
  BY <1>0, <1>1 DEF TablesInv
<1>3. AlertsInv'
  BY <1>0, <1>1, AlertsStay DEF watch, AlertsInv
<1> QED BY <1>0, <1>1, <1>2, <1>3, VectorsStay DEF UpkeepInv, World

\* Classification keeps UpkeepInv.
LEMMA ClassifyKeeps ==
  ASSUME UpkeepInv, BeginClassify \/ EndClassify
  PROVE  UpkeepInv'
<1>0. World /\ TablesInv /\ AlertsInv /\ VectorsMatchTheirHash
  BY DEF UpkeepInv
<1>1. CASE BeginClassify
  <2>1. call'.stage = "classify" /\ UNCHANGED <<tables, watch, clock>>
    BY <1>1 DEF BeginClassify
  <2>2. TablesInv'
    BY <1>0, <2>1, TablesStay DEF TablesInv
  <2>3. AlertsInv' /\ UNCHANGED vector
    BY <1>0, <2>1, AlertsStay DEF watch, AlertsInv, tables
  <2> QED BY <1>0, <2>2, <2>3, VectorsStay DEF UpkeepInv, World
<1>2. CASE EndClassify
  <2>1. PICK choice \in [DOMAIN call.read -> Clusters] :
          ent' = [e \in Entities |->
            IF e \in DOMAIN choice
            THEN [ent[e] EXCEPT !.cluster = choice[e], !.touched = clock] ELSE ent[e]]
    BY <1>2 DEF EndClassify
  <2>2. ent' \in [Entities -> Row]
    <3>1. \A e \in Entities : ent[e] \in Row /\ clock \in 0..MaxClock
      BY <1>0, RowsTyped DEF TablesInv
    <3>2. \A e \in DOMAIN choice : choice[e] \in Clusters
      OBVIOUS
    <3> QED BY <2>1, <3>1, <3>2 DEF Row
  <2>3. /\ UNCHANGED <<text, edges, importance, vector, compiled, alerts, receipts, pending, clock>>
        /\ call'.stage = "none"
    BY <1>2 DEF EndClassify, NoCall
  <2>4. TablesInv'
    BY <1>0, <2>2, <2>3, TablesFollow DEF TablesInv
  <2>5. AlertsInv'
    BY <1>0, <2>3, AlertsStay DEF AlertsInv
  <2> QED BY <1>0, <2>3, <2>4, <2>5, VectorsStay DEF UpkeepInv, World
<1> QED BY <1>1, <1>2

\* Importance, the vectors and calls that fail keep UpkeepInv.
LEMMA OrganizeKeeps ==
  ASSUME UpkeepInv, Recompute \/ BeginEmbed \/ EndEmbed \/ CallFails \/ Tick
  PROVE  UpkeepInv'
<1>0. World /\ TablesInv /\ AlertsInv /\ VectorsMatchTheirHash
  BY DEF UpkeepInv
<1>1. CASE Recompute
  <2>1. \A e \in Entities : Degree(e) + Inbound(e) \in Nat
    <3> TAKE e \in Entities
    <3>1. IsFiniteSet({d \in edges : e \in {d.src, d.dst}}) /\ IsFiniteSet({d \in edges : e = d.dst})
      BY <1>0, FS_Subset DEF TablesInv
    <3>2. Degree(e) \in Nat /\ Inbound(e) \in Nat
      BY <3>1, FS_CardinalityType DEF Degree, Inbound
    <3> QED BY <3>2
  <2>2. importance' \in [Entities -> Nat]
    BY <1>1, <2>1 DEF Recompute
  <2>3. ent' \in [Entities -> Row]
    <3>1. \A e \in Entities : ent[e] \in Row /\ clock \in 0..MaxClock
      BY <1>0, RowsTyped DEF TablesInv
    <3>2. ent' = [e \in Entities |->
                   IF e \in Present THEN [ent[e] EXCEPT !.touched = clock] ELSE ent[e]]
      BY <1>1 DEF Recompute
    <3> QED BY <3>1, <3>2 DEF Row
  <2>4. UNCHANGED <<text, edges, vector, compiled, alerts, receipts, pending, call, clock>>
    BY <1>1 DEF Recompute
  <2>5. TablesInv'
    BY <1>0, <2>2, <2>3, <2>4 DEF TablesInv, Row
  <2>6. AlertsInv'
    BY <1>0, <2>4, AlertsStay DEF AlertsInv
  <2> QED BY <1>0, <2>4, <2>5, <2>6, VectorsStay DEF UpkeepInv, World
<1>2. CASE BeginEmbed \/ CallFails \/ Tick
  <2>1. UNCHANGED <<tables, watch>>
    BY <1>2 DEF BeginEmbed, CallFails, Tick
  <2>2. call'.stage \in {"none", "classify", "embed"} /\ clock' \in 0..MaxClock
    <3>1. MaxClock \in Nat
      BY <1>0 DEF World, UpkeepAssumption
    <3> QED BY <1>0, <1>2, <3>1 DEF BeginEmbed, CallFails, Tick, NoCall, TablesInv
  <2>3. TablesInv'
    BY <1>0, <2>1, <2>2, TablesStay
  <2>4. AlertsInv' /\ UNCHANGED vector
    BY <1>0, <2>1, AlertsStay DEF watch, AlertsInv, tables
  <2> QED BY <1>0, <2>3, <2>4, VectorsStay DEF UpkeepInv, World
<1>3. CASE EndEmbed
  <2>1. /\ vector' = [e \in Entities |->
             IF e \in DOMAIN call.read
             THEN [of |-> call.read[e], hash |-> call.read[e]] ELSE vector[e]]
        /\ UNCHANGED <<text, ent, edges, importance, compiled, watch, clock>>
        /\ call'.stage = "none"
    BY <1>3 DEF EndEmbed, NoCall
  <2>2. VectorsMatchTheirHash'
    BY <1>0, <2>1 DEF VectorsMatchTheirHash
  <2>3. TablesInv'
    BY <1>0, <2>1 DEF TablesInv
  <2>4. AlertsInv'
    BY <1>0, <2>1, AlertsStay DEF watch, AlertsInv
  <2> QED BY <1>0, <2>2, <2>3, <2>4 DEF UpkeepInv, World
<1> QED BY <1>1, <1>2, <1>3

\* The watchdog, those who handle its alerts, and a restart keep UpkeepInv.
LEMMA WatchKeeps ==
  ASSUME UpkeepInv,
         \/ Watch \/ WatchdogRestarts
         \/ \E e \in Entities, r \in Rules : Acknowledge(e, r) \/ Resolve(e, r)
  PROVE  UpkeepInv'
<1>0. World /\ TablesInv /\ AlertsInv /\ VectorsMatchTheirHash
  BY DEF UpkeepInv
<1>1. UNCHANGED <<tables, clock>> /\ (UNCHANGED call \/ call' = NoCall)
  BY DEF Watch, Debounce, Sweep, WatchdogRestarts, Acknowledge, Resolve, SetStatus
<1>2. TablesInv' /\ UNCHANGED vector
  <2>1. clock' \in 0..MaxClock /\ call'.stage \in {"none", "classify", "embed"}
    BY <1>0, <1>1 DEF TablesInv, NoCall
  <2> QED BY <1>0, <1>1, <2>1, TablesStay DEF tables
<1>3. CASE Debounce
  <2>1. Detect(pending \cap Present) /\ pending' \subseteq pending
        /\ pending \cap Present \in SUBSET Entities
    BY <1>0, <1>3 DEF Debounce, Present
  <2>2. AlertsInv'
    BY <1>0, <2>1, DetectKeeps
  <2> QED BY <1>0, <1>2, <2>2, VectorsStay DEF UpkeepInv, World
<1>4. CASE Sweep
  <2>1. Detect(Present) /\ pending' \subseteq pending /\ Present \in SUBSET Entities
    BY <1>4 DEF Sweep, Present
  <2>2. AlertsInv'
    BY <1>0, <2>1, DetectKeeps
  <2> QED BY <1>0, <1>2, <2>2, VectorsStay DEF UpkeepInv, World
<1>5. CASE WatchdogRestarts
  <2>1. UNCHANGED <<alerts, receipts>> /\ pending' \subseteq Entities
    BY <1>5 DEF WatchdogRestarts
  <2>2. AlertsInv'
    BY <1>0, <2>1, AlertsStay
  <2> QED BY <1>0, <1>2, <2>2, VectorsStay DEF UpkeepInv, World
<1>6. CASE \E e \in Entities, r \in Rules : Acknowledge(e, r) \/ Resolve(e, r)
  <2>1. PICK e \in Entities, r \in Rules : Acknowledge(e, r) \/ Resolve(e, r)
    BY <1>6
  <2>2. CASE Acknowledge(e, r)
    <3>1. PICK i \in DOMAIN alerts[e][r] :
            alerts[e][r][i] = "open" /\ SetStatus(e, r, i, "acknowledged")
      BY <2>2 DEF Acknowledge
    <3>2. "acknowledged" \in Status /\ alerts[e][r][i] \in ActiveStatuses
      BY <3>1 DEF Status, ActiveStatuses
    <3>3. AlertsInv'
      BY <1>0, <3>1, <3>2, SetStatusKeeps
    <3> QED BY <1>0, <1>2, <3>3, VectorsStay DEF UpkeepInv, World
  <2>3. CASE Resolve(e, r)
    <3>1. PICK i \in DOMAIN alerts[e][r] : SetStatus(e, r, i, "resolved")
      BY <2>3 DEF Resolve
    <3>2. "resolved" \in Status
      BY DEF Status
    <3>3. AlertsInv'
      BY <1>0, <3>1, <3>2, SetStatusKeeps
    <3> QED BY <1>0, <1>2, <3>3, VectorsStay DEF UpkeepInv, World
  <2> QED BY <2>1, <2>2, <2>3
<1> QED BY <1>3, <1>4, <1>5, <1>6 DEF Watch

\* UpkeepInv is an invariant.
LEMMA UpkeepInvHolds == UpkeepSpec => []UpkeepInv
<1>0. UpkeepInit => UpkeepInv
  BY UpkeepAssumption, InitUpkeepInv DEF World
<1>1. UpkeepInv /\ [UpkeepNext]_upkeepVars => UpkeepInv'
  <2>1. ASSUME UpkeepInv, UNCHANGED upkeepVars PROVE UpkeepInv'
    <3>1. UNCHANGED <<tables, alerts, receipts, pending, call, clock>>
      BY <2>1 DEF upkeepVars, watch
    <3>2. TablesInv' /\ UNCHANGED vector
      BY <2>1, <3>1, TablesStay DEF UpkeepInv, tables, TablesInv
    <3>3. AlertsInv'
      BY <2>1, <3>1, AlertsStay DEF UpkeepInv, AlertsInv
    <3> QED BY <2>1, <3>2, <3>3, VectorsStay DEF UpkeepInv, World
  <2> QED BY <2>1, WritersKeep, EdgesKeep, ClassifyKeeps, OrganizeKeeps, WatchKeeps
          DEF UpkeepNext, Organize
<1> QED BY <1>0, <1>1, PTL DEF UpkeepSpec

\* An entity has at most one active alert of a rule, for any number of
\* entities and whatever meets (OneActiveAlert, _existing_active_alert).
THEOREM OneAlertOfARule == UpkeepSpec => []OneActiveAlert
BY UpkeepInvHolds, UpkeepInvSuffices, PTL

\* A stored hash is that of the text its vector was made of, whatever is
\* written during the provider's call (VectorsMatchTheirHash).
THEOREM VectorsAreOfTheirText == UpkeepSpec => []VectorsMatchTheirHash
<1>1. UpkeepInv => VectorsMatchTheirHash
  BY DEF UpkeepInv
<1> QED BY <1>1, UpkeepInvHolds, PTL

=============================================================================
