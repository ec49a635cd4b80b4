------------------------ MODULE ReceiptChain_proofs ------------------------
(***************************************************************************)
(* Proofs about the receipt chain, for any number of writers, actions and  *)
(* receipts and any behaviour of the clock.                                *)
(***************************************************************************)
EXTENDS ReceiptChain, FiniteSetTheorems, TLAPS

USE ConstantsAssumption

-----------------------------------------------------------------------------
(* The inductive invariant.                                                *)

\* Only the holder of the write lock is between BEGIN IMMEDIATE and the end
\* of its transaction.
Mutex ==
  \A w \in Writers : pc[w] \in {"select", "insert"} <=> lock = w

\* A row is signed and hashed over its own columns.
Sealed(r) == SignatureVerifies(r) /\ r.thisHash = HashOf(r)

\* Each row carries the hash of the row committed just before it.
Linked ==
  \A i \in 1..Len(receipts) :
    /\ receipts[i].prevHash = IF i = 1 THEN NoHash ELSE receipts[i - 1].thisHash
    /\ Sealed(receipts[i])

\* r can be appended to the table as it stands.
Follows(r) ==
  /\ r.prevHash = IF Len(receipts) = 0 THEN NoHash
                  ELSE receipts[Len(receipts)].thisHash
  /\ \A i \in 1..Len(receipts) : receipts[i].createdAt < r.createdAt
  /\ Sealed(r)

\* What a writer has prepared still follows the newest row when it commits.
DraftFollows == \A w \in Writers : pc[w] = "insert" => Follows(draft[w])

ChainInv ==
  /\ TypeOK
  /\ Mutex
  /\ Linked
  /\ CommitOrderIsReadOrder
  /\ OneReceiptPerAction
  /\ DraftFollows

-----------------------------------------------------------------------------
(* Facts about the operators.                                              *)

\* A new receipt carries its payload, points at the newest row, is stamped
\* by StampAfter, and is sealed.
LEMMA NewReceiptFields ==
  ASSUME NEW p \in Payload, NEW rows
  PROVE  LET r == NewReceipt(p, rows) IN
         /\ r.id = p.id /\ r.action = p.action
         /\ r.agent = p.agent /\ r.decision = p.decision
         /\ r.createdAt = StampAfter(rows)
         /\ r.prevHash = HashBefore(rows)
         /\ Sealed(r)
BY DEF NewReceipt, Hashed, Signed, Unsigned, Sealed, SignatureVerifies,
       SigningPayload, HashOf, Payload

\* When commit order is read order, ORDER BY created_at DESC, id DESC LIMIT 1
\* reads the row committed last.
LEMMA NewestRow ==
  ASSUME TypeOK, CommitOrderIsReadOrder, Len(receipts) # 0
  PROVE  LastOf(Rows) = receipts[Len(receipts)]
<1> DEFINE n == Len(receipts)
           last == receipts[n]
<1>1. n \in Nat /\ n # 0 /\ DOMAIN receipts = 1..n
  BY DEF TypeOK
<1>2. last \in Rows
  BY <1>1 DEF Rows
<1>3. \A i \in 1..n : receipts[i].createdAt \in Nat /\ receipts[i].id \in Nat
  BY <1>1 DEF TypeOK, WellFormed, Rows
<1>4. \A s \in Rows : s = last \/ Before(s, last)
  BY <1>1, <1>3 DEF Rows, Before, CommitOrderIsReadOrder
<1>5. ASSUME NEW r \in Rows, \A s \in Rows : s = r \/ Before(s, r)
      PROVE  r = last
  <2>1. last = r \/ Before(last, r)
    BY <1>2, <1>5
  <2>2. r = last \/ Before(r, last)
    BY <1>4
  <2>3. r.createdAt \in Nat /\ last.createdAt \in Nat /\ r.id \in Nat /\ last.id \in Nat
    BY <1>1, <1>3 DEF Rows
  <2>4. ~(Before(last, r) /\ Before(r, last))
    BY <2>3 DEF Before
  <2> QED BY <2>1, <2>2, <2>4
<1> QED BY <1>2, <1>4, <1>5 DEF LastOf

\* The table has no rows exactly when its length is 0.
LEMMA RowsEmpty ==
  ASSUME TypeOK
  PROVE  Rows = {} <=> Len(receipts) = 0
<1>1. Len(receipts) \in Nat /\ DOMAIN receipts = 1..Len(receipts)
  BY DEF TypeOK
<1>2. ASSUME Len(receipts) # 0 PROVE receipts[1] \in Rows
  BY <1>1, <1>2 DEF Rows
<1>3. ASSUME Len(receipts) = 0, NEW r \in Rows PROVE FALSE
  BY <1>1, <1>3 DEF Rows
<1> QED BY <1>2, <1>3

\* A freshly prepared receipt follows the table.
LEMMA NewReceiptFollows ==
  ASSUME TypeOK, CommitOrderIsReadOrder, NEW p \in Payload
  PROVE  /\ WellFormed(NewReceipt(p, Rows))
         /\ Follows(NewReceipt(p, Rows))
<1> DEFINE r == NewReceipt(p, Rows)
           n == Len(receipts)
<1>1. n \in Nat /\ DOMAIN receipts = 1..n /\ clock \in Nat
  BY DEF TypeOK
<1>2. \A i \in 1..n : receipts[i].createdAt \in Nat
  BY <1>1 DEF TypeOK, WellFormed, Rows
<1>3. /\ r.id = p.id /\ r.action = p.action /\ r.agent = p.agent
      /\ r.decision = p.decision /\ r.createdAt = StampAfter(Rows)
      /\ r.prevHash = HashBefore(Rows) /\ Sealed(r)
  BY NewReceiptFields
<1>4. CASE n = 0
  <2>1. Rows = {}
    BY <1>4, RowsEmpty
  <2>2. r.createdAt = clock /\ r.prevHash = NoHash
    BY <1>3, <2>1 DEF StampAfter, HashBefore
  <2> QED BY <1>1, <1>3, <1>4, <2>2 DEF WellFormed, Follows, Payload
<1>5. CASE n # 0
  <2>1. Rows # {} /\ LastOf(Rows) = receipts[n]
    BY <1>5, RowsEmpty, NewestRow
  <2>2. receipts[n].createdAt \in Nat
    BY <1>1, <1>2, <1>5
  <2>3. r.createdAt \in Nat /\ receipts[n].createdAt < r.createdAt
    BY <1>1, <1>3, <2>1, <2>2 DEF StampAfter
  <2>4. r.prevHash = receipts[n].thisHash
    BY <1>3, <2>1 DEF HashBefore
  <2>5. \A i \in 1..n : receipts[i].createdAt < r.createdAt
    BY <1>1, <1>2, <1>5, <2>2, <2>3 DEF CommitOrderIsReadOrder
  <2> QED BY <1>3, <1>5, <2>3, <2>4, <2>5 DEF WellFormed, Follows, Payload
<1> QED BY <1>4, <1>5

-----------------------------------------------------------------------------
(* The steps.                                                              *)

\* What a step that commits nothing and moves no draft leaves in place.
Frame ==
  /\ UNCHANGED receipts
  /\ \A w \in Writers : pc'[w] = "insert" => pc[w] = "insert" /\ draft'[w] = draft[w]

\* A step that leaves the table and every prepared draft alone keeps the parts
\* of the invariant that speak of them.
LEMMA FrameKeepsChain ==
  ASSUME TypeOK, Linked, CommitOrderIsReadOrder, OneReceiptPerAction,
         DraftFollows, Frame
  PROVE  /\ Linked' /\ CommitOrderIsReadOrder' /\ OneReceiptPerAction'
         /\ DraftFollows'
<1>1. Linked' /\ CommitOrderIsReadOrder' /\ OneReceiptPerAction'
  BY DEF Frame, Linked, CommitOrderIsReadOrder, OneReceiptPerAction, Sealed,
         SignatureVerifies, SigningPayload, HashOf
<1>2. ASSUME NEW w \in Writers, pc'[w] = "insert"
      PROVE  Follows(draft[w])' /\ draft'[w] = draft[w]
  BY <1>2 DEF Frame, DraftFollows, Follows, Sealed, SignatureVerifies,
              SigningPayload, HashOf
<1> QED BY <1>1, <1>2 DEF DraftFollows

\* The newly committed row keeps every part of the chain in order.
LEMMA InsertKeepsChain ==
  ASSUME ChainInv, NEW w \in Writers, Insert(w)
  PROVE  /\ Linked' /\ CommitOrderIsReadOrder' /\ OneReceiptPerAction'
         /\ DraftFollows'
<1> DEFINE n == Len(receipts)
           r == draft[w]
<1>1. /\ receipts \in Seq(Rows) /\ n \in Nat /\ DOMAIN receipts = 1..n
      /\ receipts' = Append(receipts, r)
      /\ pc[w] = "insert" /\ Follows(r) /\ KeysFree(r) /\ draft' = draft
  BY DEF ChainInv, TypeOK, Insert, DraftFollows
<1>2. /\ Len(receipts') = n + 1 /\ DOMAIN receipts' = 1..(n + 1)
      /\ receipts'[n + 1] = r
      /\ \A i \in 1..n : receipts'[i] = receipts[i]
  BY <1>1
<1>3. Linked'
  <2>1. \A i \in 1..n :
          /\ receipts[i].prevHash = IF i = 1 THEN NoHash ELSE receipts[i - 1].thisHash
          /\ Sealed(receipts[i])
    BY DEF ChainInv, Linked
  <2>2. r.prevHash = (IF n = 0 THEN NoHash ELSE receipts[n].thisHash) /\ Sealed(r)
    BY <1>1 DEF Follows
  <2>3. ASSUME NEW i \in 1..(n + 1)
        PROVE  /\ receipts'[i].prevHash = IF i = 1 THEN NoHash ELSE receipts'[i - 1].thisHash
               /\ Sealed(receipts'[i])
    <3>1. CASE i = n + 1
      <4>1. receipts'[i] = r
        BY <1>2, <3>1
      <4>2. n = 0 \/ receipts'[i - 1] = receipts[n]
        <5>1. i - 1 = n /\ (n # 0 => n \in 1..n)
          BY <1>1, <3>1
        <5> QED BY <1>2, <5>1
      <4>3. i = 1 <=> n = 0
        BY <1>1, <3>1
      <4> QED BY <2>2, <4>1, <4>2, <4>3
    <3>2. CASE i # n + 1
      <4>1. i \in 1..n /\ (i # 1 => i - 1 \in 1..n)
        BY <1>1, <3>2
      <4> QED BY <1>2, <2>1, <4>1
    <3> QED BY <3>1, <3>2
  <2>4. \A i \in 1..(n + 1) : Sealed(receipts'[i]) => Sealed(receipts[i])'
    BY DEF Sealed, SignatureVerifies, SigningPayload, HashOf
  <2> QED BY <1>2, <2>3, <2>4 DEF Linked
<1>4. CommitOrderIsReadOrder'
  <2>1. \A i \in 1..n : receipts[i].createdAt < r.createdAt
    BY <1>1 DEF Follows
  <2>2. \A i, j \in 1..n : i < j => receipts[i].createdAt < receipts[j].createdAt
    BY <1>1 DEF ChainInv, CommitOrderIsReadOrder
  <2>3. ASSUME NEW i \in 1..(n + 1), NEW j \in 1..(n + 1), i < j
        PROVE  receipts'[i].createdAt < receipts'[j].createdAt
    <3>1. i \in 1..n
      BY <1>1, <2>3
    <3>2. CASE j = n + 1
      BY <1>2, <2>1, <3>1, <3>2
    <3>3. CASE j \in 1..n
      BY <1>2, <2>2, <2>3, <3>1, <3>3
    <3> QED BY <1>1, <3>2, <3>3
  <2> QED BY <1>2, <2>3 DEF CommitOrderIsReadOrder
<1>5. OneReceiptPerAction'
  <2>1. \A i \in 1..n : receipts[i].action # r.action
    BY <1>1 DEF KeysFree, SameAction, Rows
  <2>2. \A i, j \in 1..n : receipts[i].action = receipts[j].action => i = j
    BY <1>1 DEF ChainInv, OneReceiptPerAction
  <2>3. ASSUME NEW i \in 1..(n + 1), NEW j \in 1..(n + 1),
               receipts'[i].action = receipts'[j].action
        PROVE  i = j
    <3>1. CASE i \in 1..n /\ j \in 1..n
      BY <1>2, <2>2, <2>3, <3>1
    <3>2. CASE i \in 1..n /\ j = n + 1
      BY <1>2, <2>1, <2>3, <3>2
    <3>3. CASE i = n + 1 /\ j \in 1..n
      BY <1>2, <2>1, <2>3, <3>3
    <3> QED BY <1>1, <3>1, <3>2, <3>3
  <2> QED BY <1>2, <2>3 DEF OneReceiptPerAction
<1>6. DraftFollows'
  <2>1. \A v \in Writers : pc'[v] # "insert"
    BY <1>1 DEF ChainInv, Mutex, Insert, TypeOK
  <2> QED BY <2>1 DEF DraftFollows
<1> QED BY <1>3, <1>4, <1>5, <1>6

-----------------------------------------------------------------------------
(* Type correctness.                                                       *)

\* The initial state is well typed.
LEMMA InitTypeOK == Init => TypeOK
<1> SUFFICES ASSUME Init PROVE TypeOK
  OBVIOUS
<1>1. Rows = {} /\ receipts \in Seq(Rows)
  BY DEF Init, Rows
<1>2. registry \in [AgentNames -> RegistryRow]
  BY DEF Init, RegistryRow, Counted
<1> QED BY <1>1, <1>2 DEF Init, TypeOK

\* Counting a receipt keeps the registry well typed.
LEMMA ObserveType ==
  ASSUME registry \in [AgentNames -> RegistryRow], NEW r, WellFormed(r)
  PROVE  Observe(registry, r) \in [AgentNames -> RegistryRow]
<1> DEFINE a == Normalize[r.agent]
           old == registry[a]
<1>1. a \in AgentNames
  BY DEF WellFormed
<1>2. /\ old.total \in Nat /\ old.count \in [Counted -> Nat]
      /\ old.firstSeen \in Nat /\ old.lastSeen \in Nat
  BY <1>1 DEF RegistryRow
<1>3. [d \in Counted |-> IF d = r.decision THEN old.count[d] + 1
                         ELSE old.count[d]] \in [Counted -> Nat]
  BY <1>2
<1>4. r.createdAt \in Nat /\ r.action \in Actions
  BY DEF WellFormed
<1> QED BY <1>1, <1>2, <1>3, <1>4 DEF Observe, RegistryRow

\* Every step keeps the types.
LEMMA NextTypeOK == ChainInv /\ [Next]_vars => TypeOK'
<1> SUFFICES ASSUME ChainInv, [Next]_vars PROVE TypeOK'
  OBVIOUS
<1> USE DEF dbVars, callVars
<1>0. TypeOK /\ CommitOrderIsReadOrder
  BY DEF ChainInv
<1>1. ASSUME NEW w \in Writers, NEW p \in Payload, Call(w, p)
      PROVE  TypeOK'
  BY <1>0, <1>1 DEF TypeOK, Call, Rows, WellFormed
<1>2. ASSUME NEW w \in Writers, BeginImmediate(w) PROVE TypeOK'
  BY <1>0, <1>2 DEF TypeOK, BeginImmediate, Rows, WellFormed
<1>3. ASSUME NEW w \in Writers, Busy(w) PROVE TypeOK'
  BY <1>0, <1>3 DEF TypeOK, Busy, Leave, Rows, WellFormed
<1>4. ASSUME NEW w \in Writers, FindExisting(w) PROVE TypeOK'
  BY <1>0, <1>4 DEF TypeOK, FindExisting, Rows, WellFormed
<1>5. ASSUME NEW w \in Writers, Prepare(w) PROVE TypeOK'
  <2>1. req[w] \in Payload
    BY <1>0, <1>5 DEF TypeOK, Prepare
  <2>2. WellFormed(NewReceipt(req[w], Rows))
    BY <1>0, <2>1, NewReceiptFollows
  <2> DEFINE r == NewReceipt(req[w], Rows)
  <2>3. draft' = [draft EXCEPT ![w] = r] /\ UNCHANGED <<receipts, req>>
        /\ pc' = [pc EXCEPT ![w] = "insert"] /\ pc[w] = "select"
    BY <1>5 DEF Prepare
  <2> HIDE DEF r
  <2>4. \A v \in Writers : pc'[v] \in {"insert", "return"} => WellFormed(draft'[v])
    BY <1>0, <2>2, <2>3 DEF TypeOK, r
  <2>5. \A v \in Writers :
          pc'[v] \in {"begin", "select", "insert"} => req'[v] \in Payload
    BY <1>0, <2>1, <2>3 DEF TypeOK
  <2>6. Rows' = Rows
    BY <2>3 DEF Rows
  <2>7. DOMAIN req' = Writers /\ DOMAIN draft' = Writers
        /\ pc' \in [Writers -> {"idle", "begin", "select", "insert", "return"}]
    BY <1>0, <2>3 DEF TypeOK
  <2>8. UNCHANGED <<receipts, registry, lock, clock, answers>>
    BY <1>5 DEF Prepare
  <2> QED BY <1>0, <2>4, <2>5, <2>6, <2>7, <2>8 DEF TypeOK, WellFormed
<1>6. ASSUME NEW w \in Writers, Insert(w) PROVE TypeOK'
  <2>1. WellFormed(draft[w]) /\ receipts' = Append(receipts, draft[w])
    BY <1>0, <1>6 DEF TypeOK, Insert
  <2>2. Rows' = Rows \cup {draft[w]} /\ receipts' \in Seq(Rows')
    <3>1. receipts \in Seq(Rows)
      BY <1>0 DEF TypeOK
    <3>2. /\ DOMAIN receipts = 1..Len(receipts) /\ Len(receipts) \in Nat
          /\ DOMAIN receipts' = 1..(Len(receipts) + 1)
          /\ receipts'[Len(receipts) + 1] = draft[w]
          /\ \A i \in 1..Len(receipts) : receipts'[i] = receipts[i]
      BY <2>1, <3>1
    <3>3. \A i \in 1..(Len(receipts) + 1) :
            i \in 1..Len(receipts) \/ i = Len(receipts) + 1
      BY <3>2
    <3>4. Rows' \subseteq Rows \cup {draft[w]}
      BY <3>2, <3>3 DEF Rows
    <3>5. Rows \subseteq Rows'
      BY <3>2 DEF Rows
    <3>6. draft[w] \in Rows'
      BY <3>2 DEF Rows
    <3>7. Rows' = Rows \cup {draft[w]}
      BY <3>4, <3>5, <3>6
    <3> QED BY <2>1, <3>1, <3>7
  <2>3. registry' \in [AgentNames -> RegistryRow]
    BY <1>0, <1>6, <2>1, ObserveType DEF TypeOK, Insert
  <2>4. \A r \in Rows' : WellFormed(r)
    BY <1>0, <2>1, <2>2 DEF TypeOK
  <2> QED BY <1>0, <1>6, <2>2, <2>3, <2>4 DEF TypeOK, Insert, WellFormed
<1>7. ASSUME NEW w \in Writers, Rollback(w) PROVE TypeOK'
  BY <1>0, <1>7 DEF TypeOK, Rollback, Leave, Rows, WellFormed
<1>8. ASSUME NEW w \in Writers, Return(w) PROVE TypeOK'
  BY <1>0, <1>8 DEF TypeOK, Return, Leave, Rows, WellFormed, EntryOf
<1>9. ASSUME NEW w \in Writers, Crash(w) PROVE TypeOK'
  BY <1>0, <1>9 DEF TypeOK, Crash, Leave, Rows, WellFormed
<1>10. CASE ClockMoves
  BY <1>0, <1>10 DEF TypeOK, ClockMoves, Rows, WellFormed
<1>11. CASE UNCHANGED vars
  BY <1>0, <1>11 DEF TypeOK, vars, Rows, WellFormed
<1> QED
  BY <1>1, <1>2, <1>3, <1>4, <1>5, <1>6, <1>7, <1>8, <1>9, <1>10, <1>11
  DEF Next

-----------------------------------------------------------------------------
(* Invariance.                                                             *)

\* The inductive invariant holds of the empty table.
LEMMA InitChainInv == Init => ChainInv
<1> SUFFICES ASSUME Init PROVE ChainInv
  OBVIOUS
<1>1. TypeOK
  BY InitTypeOK
<1>2. Mutex /\ DraftFollows
  BY DEF Init, Mutex, DraftFollows
<1>3. Linked /\ CommitOrderIsReadOrder /\ OneReceiptPerAction
  BY DEF Init, Linked, CommitOrderIsReadOrder, OneReceiptPerAction
<1> QED BY <1>1, <1>2, <1>3 DEF ChainInv

\* Every step keeps the write lock with at most one writer, the one that is
\* between BEGIN IMMEDIATE and its commit.
LEMMA NextMutex == ChainInv /\ [Next]_vars => Mutex'
<1> SUFFICES ASSUME ChainInv, [Next]_vars PROVE Mutex'
  OBVIOUS
<1> USE DEF dbVars, callVars, Leave
<1>0. TypeOK /\ Mutex
  BY DEF ChainInv
<1>1. ASSUME NEW w \in Writers, NEW p \in Payload, Call(w, p) PROVE Mutex'
  BY <1>0, <1>1 DEF TypeOK, Mutex, Call
<1>2. ASSUME NEW w \in Writers, BeginImmediate(w) \/ Busy(w) PROVE Mutex'
  BY <1>0, <1>2 DEF TypeOK, Mutex, BeginImmediate, Busy
<1>3. ASSUME NEW w \in Writers, FindExisting(w) \/ Prepare(w) PROVE Mutex'
  BY <1>0, <1>3 DEF TypeOK, Mutex, FindExisting, Prepare
<1>4. ASSUME NEW w \in Writers, Insert(w) \/ Rollback(w) PROVE Mutex'
  BY <1>0, <1>4 DEF TypeOK, Mutex, Insert, Rollback
<1>5. ASSUME NEW w \in Writers, Return(w) \/ Crash(w) PROVE Mutex'
  BY <1>0, <1>5 DEF TypeOK, Mutex, Return, Crash
<1>6. CASE ClockMoves \/ UNCHANGED vars
  BY <1>0, <1>6 DEF TypeOK, Mutex, ClockMoves, vars
<1> QED BY <1>1, <1>2, <1>3, <1>4, <1>5, <1>6 DEF Next

\* A writer whose receipt has just been prepared holds the lock alone, so
\* its draft is the only one, and it follows the table.
LEMMA PrepareKeepsChain ==
  ASSUME ChainInv, NEW w \in Writers, Prepare(w)
  PROVE  /\ Linked' /\ CommitOrderIsReadOrder' /\ OneReceiptPerAction'
         /\ DraftFollows'
<1> DEFINE r == NewReceipt(req[w], Rows)
<1>1. UNCHANGED receipts /\ draft' = [draft EXCEPT ![w] = r]
      /\ pc' = [pc EXCEPT ![w] = "insert"] /\ pc[w] = "select"
  BY DEF Prepare, dbVars
<1>2. Follows(r)
  BY <1>1, NewReceiptFollows DEF ChainInv, TypeOK
<1> HIDE DEF r
<1>3. Linked' /\ CommitOrderIsReadOrder' /\ OneReceiptPerAction'
  BY <1>1 DEF ChainInv, Linked, CommitOrderIsReadOrder, OneReceiptPerAction,
              Sealed, SignatureVerifies, SigningPayload, HashOf
<1>4. \A v \in Writers : pc'[v] = "insert" => v = w
  BY <1>1 DEF ChainInv, Mutex, TypeOK
<1>5. draft'[w] = r
  BY <1>1 DEF ChainInv, TypeOK
<1>6. Follows(draft[w])'
  BY <1>1, <1>2, <1>5 DEF Follows, Sealed, SignatureVerifies, SigningPayload, HashOf
<1> QED BY <1>3, <1>4, <1>6 DEF DraftFollows

\* The invariant is inductive.
LEMMA NextChainInv == ChainInv /\ [Next]_vars => ChainInv'
<1> SUFFICES ASSUME ChainInv, [Next]_vars PROVE ChainInv'
  OBVIOUS
<1> USE DEF dbVars, callVars, Leave
<1>1. TypeOK' /\ Mutex'
  BY NextTypeOK, NextMutex
<1>2. ASSUME NEW w \in Writers, Insert(w) \/ Prepare(w) PROVE ChainInv'
  BY <1>1, <1>2, InsertKeepsChain, PrepareKeepsChain DEF ChainInv
<1>3. ASSUME Frame PROVE ChainInv'
  BY <1>1, <1>3, FrameKeepsChain DEF ChainInv
<1>4. ASSUME NEW w \in Writers, NEW p \in Payload, Call(w, p) PROVE Frame
  BY <1>4 DEF ChainInv, TypeOK, Call, Frame
<1>5. ASSUME NEW w \in Writers,
             BeginImmediate(w) \/ Busy(w) \/ FindExisting(w)
      PROVE  Frame
  BY <1>5 DEF ChainInv, TypeOK, BeginImmediate, Busy, FindExisting, Frame
<1>6. ASSUME NEW w \in Writers, Rollback(w) \/ Return(w) \/ Crash(w)
      PROVE  Frame
  BY <1>6 DEF ChainInv, TypeOK, Rollback, Return, Crash, Frame
<1>7. CASE ClockMoves \/ UNCHANGED vars
  <2>1. Frame
    BY <1>7 DEF ClockMoves, vars, Frame
  <2> QED BY <1>3, <2>1
<1> QED BY <1>2, <1>3, <1>4, <1>5, <1>6, <1>7 DEF Next

\* The inductive invariant holds in every reachable state.
LEMMA ChainInvariance == Spec => []ChainInv
BY InitChainInv, NextChainInv, PTL DEF Spec

\* Type correctness of every reachable state.
THEOREM TypeCorrect == Spec => []TypeOK
<1>1. ChainInv => TypeOK
  BY DEF ChainInv
<1> QED BY <1>1, ChainInvariance, PTL

\* Receipts are read back in the order they were committed, whatever the
\* clock does.
THEOREM ReadOrder == Spec => []CommitOrderIsReadOrder
<1>1. ChainInv => CommitOrderIsReadOrder
  BY DEF ChainInv
<1> QED BY <1>1, ChainInvariance, PTL

\* However many callers and retries record an action, it has one receipt.
THEOREM ActionsAreRecordedOnce == Spec => []OneReceiptPerAction
<1>1. ChainInv => OneReceiptPerAction
  BY DEF ChainInv
<1> QED BY <1>1, ChainInvariance, PTL

-----------------------------------------------------------------------------
(* Consequences for the verifier.                                          *)

\* The rows the verifier reads before row i are those committed before it.
LEMMA RowsBefore ==
  ASSUME ChainInv, NEW i \in 1..Len(receipts)
  PROVE  {t \in Rows : Before(t, receipts[i])} = {receipts[j] : j \in 1..(i - 1)}
<1> DEFINE n == Len(receipts)
<1>1. n \in Nat /\ DOMAIN receipts = 1..n
  BY DEF ChainInv, TypeOK
<1>2. \A j \in 1..n : receipts[j].createdAt \in Nat
  BY <1>1 DEF ChainInv, TypeOK, WellFormed, Rows
<1>3. \A j, k \in 1..n : j < k => receipts[j].createdAt < receipts[k].createdAt
  BY <1>1 DEF ChainInv, CommitOrderIsReadOrder
<1>4. ASSUME NEW j \in 1..n
      PROVE  Before(receipts[j], receipts[i]) <=> j \in 1..(i - 1)
  <2>1. CASE j < i
    BY <1>1, <1>3, <2>1 DEF Before
  <2>2. CASE i < j
    BY <1>1, <1>2, <1>3, <2>2 DEF Before
  <2>3. CASE i = j
    <3>1. receipts[i].id \in Nat
      BY <1>1 DEF ChainInv, TypeOK, WellFormed, Rows
    <3> QED BY <1>1, <1>2, <2>3, <3>1 DEF Before
  <2> QED BY <1>1, <2>1, <2>2, <2>3
<1>5. 1..(i - 1) \subseteq 1..n
  BY <1>1
<1> QED BY <1>1, <1>4, <1>5 DEF Rows

\* The hash the verifier expects of row i is the one the row carries.
LEMMA ExpectedHash ==
  ASSUME ChainInv, NEW i \in 1..Len(receipts)
  PROVE  receipts[i].prevHash = HashBefore({t \in Rows : Before(t, receipts[i])})
<1> DEFINE n == Len(receipts)
           B == {receipts[j] : j \in 1..(i - 1)}
<1>1. n \in Nat /\ DOMAIN receipts = 1..n
  BY DEF ChainInv, TypeOK
<1>2. receipts[i].prevHash = HashBefore(B)
  <2>1. CASE i = 1
    <3>1. B = {}
      BY <2>1
    <3> QED BY <2>1, <3>1 DEF HashBefore, ChainInv, Linked
  <2>2. CASE i # 1
    <3> DEFINE last == receipts[i - 1]
    <3>1. i - 1 \in 1..(i - 1) /\ i - 1 \in 1..n
      BY <1>1, <2>2
    <3>2. last \in B
      BY <3>1
    <3>3. \A j \in 1..(i - 1) : j = i - 1 \/ Before(receipts[j], last)
      BY <1>1, <3>1 DEF ChainInv, CommitOrderIsReadOrder, Before
    <3>4. \A s \in B : s = last \/ Before(s, last)
      BY <3>3
    <3>5. ASSUME NEW r \in B, \A s \in B : s = r \/ Before(s, r)
          PROVE  r = last
      <4>1. last = r \/ Before(last, r)
        BY <3>2, <3>5
      <4>2. r = last \/ Before(r, last)
        BY <3>4
      <4>3. PICK j \in 1..(i - 1) : r = receipts[j]
        OBVIOUS
      <4>4. r \in Rows /\ last \in Rows
        BY <1>1, <3>1, <4>3 DEF Rows
      <4>5. /\ r.createdAt \in Nat /\ last.createdAt \in Nat
            /\ r.id \in Nat /\ last.id \in Nat
        BY <4>4 DEF ChainInv, TypeOK, WellFormed
      <4>6. ~(Before(last, r) /\ Before(r, last))
        BY <4>5 DEF Before
      <4> QED BY <4>1, <4>2, <4>6
    <3>6. LastOf(B) = last
      BY <3>2, <3>4, <3>5 DEF LastOf
    <3>7. HashBefore(B) = last.thisHash
      BY <3>2, <3>6 DEF HashBefore
    <3> QED BY <2>2, <3>7 DEF ChainInv, Linked
  <2> QED BY <2>1, <2>2
<1> QED BY <1>2, RowsBefore

\* Every committed receipt verifies, in every reachable state.
THEOREM ReceiptsVerify == Spec => []ChainVerifies
<1>1. ASSUME ChainInv PROVE ChainVerifies
  <2>1. ASSUME NEW s \in Rows
        PROVE  /\ s.prevHash = HashBefore({t \in Rows : Before(t, s)})
               /\ SignatureVerifies(s) /\ s.thisHash = HashOf(s)
    <3>1. PICK i \in 1..Len(receipts) : s = receipts[i]
      BY <1>1 DEF Rows, ChainInv, TypeOK
    <3>2. Sealed(s)
      BY <1>1, <3>1 DEF ChainInv, Linked
    <3> QED BY <1>1, <3>1, <3>2, ExpectedHash DEF Sealed
  <2> QED BY <2>1 DEF ChainVerifies, Verifies
<1> QED BY <1>1, ChainInvariance, PTL

-----------------------------------------------------------------------------
(* The chain is evidence.                                                  *)

Columns == {"id", "action", "agent", "decision", "createdAt", "prevHash", "sig", "thisHash"}

\* Committed rows, and those about to be, have every column.
RowsAreWhole ==
  /\ \A i \in DOMAIN receipts : DOMAIN receipts[i] = Columns
  /\ \A w \in Writers : pc[w] = "insert" => DOMAIN draft[w] = Columns

\* A new receipt has every column.
LEMMA NewReceiptColumns ==
  ASSUME NEW p, NEW rows
  PROVE  DOMAIN NewReceipt(p, rows) = Columns
<1>1. DOMAIN Unsigned(p, rows) = Columns
  BY DEF Unsigned, Columns
<1>2. \A u : DOMAIN Signed(u) = DOMAIN u /\ DOMAIN Hashed(u) = DOMAIN u
  BY DEF Signed, Hashed
<1> QED BY <1>1, <1>2 DEF NewReceipt

\* No step commits, or prepares, less than a whole row.
LEMMA NextRowsAreWhole == ChainInv /\ RowsAreWhole /\ [Next]_vars => RowsAreWhole'
<1> SUFFICES ASSUME ChainInv, RowsAreWhole, [Next]_vars PROVE RowsAreWhole'
  OBVIOUS
<1> USE DEF dbVars, callVars, Leave
<1>0. TypeOK
  BY DEF ChainInv
<1>1. ASSUME NEW w \in Writers, Insert(w) PROVE RowsAreWhole'
  <2>1. /\ receipts \in Seq(Rows) /\ receipts' = Append(receipts, draft[w])
        /\ draft' = draft /\ pc' = [pc EXCEPT ![w] = "return"]
        /\ DOMAIN draft[w] = Columns
    BY <1>0, <1>1 DEF TypeOK, Insert, RowsAreWhole
  <2>2. \A i \in DOMAIN receipts' :
          receipts'[i] = draft[w] \/ (i \in DOMAIN receipts /\ receipts'[i] = receipts[i])
    BY <2>1
  <2>3. \A v \in Writers : pc'[v] = "insert" => pc[v] = "insert"
    BY <1>0, <2>1 DEF TypeOK
  <2> QED BY <2>1, <2>2, <2>3 DEF RowsAreWhole
<1>2. ASSUME NEW w \in Writers, Prepare(w) PROVE RowsAreWhole'
  <2>1. /\ draft' = [draft EXCEPT ![w] = NewReceipt(req[w], Rows)]
        /\ pc' = [pc EXCEPT ![w] = "insert"] /\ receipts' = receipts
    BY <1>2 DEF Prepare
  <2>2. DOMAIN NewReceipt(req[w], Rows) = Columns
    BY NewReceiptColumns
  <2>3. ASSUME NEW v \in Writers, pc'[v] = "insert" PROVE DOMAIN draft'[v] = Columns
    <3>1. CASE v = w
      BY <1>0, <2>1, <2>2, <3>1 DEF TypeOK
    <3>2. CASE v # w
      BY <1>0, <2>1, <2>3, <3>2 DEF TypeOK, RowsAreWhole
    <3> QED BY <3>1, <3>2
  <2> QED BY <2>1, <2>3 DEF RowsAreWhole
<1>3. ASSUME UNCHANGED receipts, \A w \in Writers : pc'[w] = "insert" =>
                                   pc[w] = "insert" /\ draft'[w] = draft[w]
      PROVE  RowsAreWhole'
  BY <1>3 DEF RowsAreWhole
<1>4. ASSUME NEW w \in Writers, NEW p \in Payload, Call(w, p) PROVE RowsAreWhole'
  <2>1. \A v \in Writers : pc'[v] = "insert" => pc[v] = "insert" /\ draft'[v] = draft[v]
    BY <1>0, <1>4 DEF TypeOK, Call
  <2> QED BY <1>3, <1>4, <2>1 DEF Call
<1>5. ASSUME NEW w \in Writers, BeginImmediate(w) \/ Busy(w) \/ FindExisting(w)
      PROVE  RowsAreWhole'
  <2>1. UNCHANGED receipts
    BY <1>5 DEF BeginImmediate, Busy, FindExisting
  <2>2. \A v \in Writers : pc'[v] = "insert" => pc[v] = "insert" /\ draft'[v] = draft[v]
    BY <1>0, <1>5 DEF TypeOK, BeginImmediate, Busy, FindExisting
  <2> QED BY <1>3, <2>1, <2>2
<1>6. ASSUME NEW w \in Writers, Rollback(w) \/ Return(w) \/ Crash(w) PROVE RowsAreWhole'
  <2>1. UNCHANGED receipts
    BY <1>6 DEF Rollback, Return, Crash
  <2>2. \A v \in Writers : pc'[v] = "insert" => pc[v] = "insert" /\ draft'[v] = draft[v]
    BY <1>0, <1>6 DEF TypeOK, Rollback, Return, Crash
  <2> QED BY <1>3, <2>1, <2>2
<1>7. CASE ClockMoves \/ UNCHANGED vars
  BY <1>3, <1>7 DEF ClockMoves, vars
<1> QED BY <1>1, <1>2, <1>4, <1>5, <1>6, <1>7 DEF Next

\* Every row of every reachable state is whole.
LEMMA RowsStayWhole == Spec => []RowsAreWhole
<1>1. Init => RowsAreWhole
  BY DEF Init, RowsAreWhole
<1> QED BY <1>1, NextRowsAreWhole, ChainInvariance, PTL DEF Spec

\* A row that is rewritten no longer verifies under its signature.
LEMMA RewrittenFails ==
  ASSUME ChainInv, RowsAreWhole, NEW i \in 1..Len(receipts), NEW d \in Decisions,
         d # receipts[i].decision
  PROVE  \E r \in Rewritten(i, d) :
           r.id = receipts[Len(receipts)].id /\ ~ Verifies(Rewritten(i, d), r)
<1> DEFINE n == Len(receipts)
           s == [receipts[i] EXCEPT !.decision = d]
<1>1. n \in Nat /\ DOMAIN receipts = 1..n /\ n \in 1..n /\ i \in 1..n
  BY DEF ChainInv, TypeOK
<1>2. /\ s.decision = d /\ s.sig = receipts[i].sig /\ s.id = receipts[i].id
      /\ s.createdAt = receipts[i].createdAt
  BY <1>1 DEF RowsAreWhole, Columns
<1> HIDE DEF s
<1>3. s \in Rewritten(i, d)
  BY DEF Rewritten, s
<1>4. receipts[i].sig # SigningPayload(s)
  <2>1. receipts[i].sig = SigningPayload(receipts[i])
    BY DEF ChainInv, Linked, Sealed, SignatureVerifies
  <2> QED BY <1>2, <2>1 DEF SigningPayload
<1>5. ~ SignatureVerifies(s)
  BY <1>2, <1>4 DEF SignatureVerifies
<1>6. CASE i = n
  <2>1. ~ Verifies(Rewritten(i, d), s)
    BY <1>3, <1>5 DEF Verifies
  <2> QED BY <1>2, <1>3, <1>6, <2>1
<1>7. CASE i # n
  <2>1. receipts[n] \in Rewritten(i, d)
    BY <1>1, <1>7 DEF Rewritten
  <2>2. Before(s, receipts[n])
    <3>1. i < n
      <4>1. ASSUME NEW m \in Nat, NEW k \in 1..m, k # m PROVE k < m
        BY <4>1
      <4> QED BY <1>1, <1>7, <4>1
    <3>2. receipts[i].createdAt < receipts[n].createdAt
      BY <1>1, <3>1 DEF ChainInv, CommitOrderIsReadOrder
    <3> QED BY <1>2, <3>2 DEF Before
  <2>3. ~ Verifies(Rewritten(i, d), receipts[n])
    BY <1>3, <1>5, <2>2 DEF Verifies
  <2> QED BY <2>1, <2>3
<1> QED BY <1>6, <1>7

\* A row's hash is no other's, nor is it that of nothing: the row after one
\* that is removed no longer finds the hash it carries.
LEMMA RemovedFails ==
  ASSUME ChainInv, NEW i \in 1..(Len(receipts) - 1)
  PROVE  ~ Verifies(Removed(i), receipts[Len(receipts)])
<1> DEFINE n == Len(receipts)
           s == receipts[i + 1]
<1>1. n \in Nat /\ DOMAIN receipts = 1..n /\ i \in 1..n /\ i + 1 \in 1..n /\ n \in 1..n
  BY DEF ChainInv, TypeOK
<1>2. s \in Removed(i) /\ (s = receipts[n] \/ Before(s, receipts[n]))
  BY <1>1 DEF Removed, ChainInv, CommitOrderIsReadOrder, Before
<1>3. s.prevHash = receipts[i].thisHash
  BY <1>1 DEF ChainInv, Linked
<1>4. {t \in Rows : Before(t, s)} = {receipts[j] : j \in 1..i}
  BY <1>1, RowsBefore
<1>5. \A j, k \in 1..n : receipts[j] = receipts[k] => j = k
  BY <1>1 DEF ChainInv, OneReceiptPerAction
<1>6. {t \in Removed(i) : Before(t, s)} = {receipts[j] : j \in 1..(i - 1)}
  <2>1. \A t \in Removed(i) : t \in Rows /\ t # receipts[i]
    BY <1>1, <1>5 DEF Removed, Rows
  <2>2. ASSUME NEW t, t \in Removed(i), Before(t, s) PROVE \E j \in 1..(i - 1) : t = receipts[j]
    <3>1. PICK j \in 1..i : t = receipts[j]
      BY <1>4, <2>1, <2>2
    <3>2. j # i
      BY <2>1, <2>2, <3>1
    <3> QED BY <3>1, <3>2
  <2>3. ASSUME NEW j \in 1..(i - 1) PROVE receipts[j] \in Removed(i) /\ Before(receipts[j], s)
    <3>1. j \in 1..n /\ j # i /\ j \in 1..i
      BY <1>1
    <3> QED BY <1>1, <1>4, <3>1 DEF Removed
  <2> QED BY <2>2, <2>3
<1>7. receipts[i].prevHash = HashBefore({receipts[j] : j \in 1..(i - 1)})
  BY <1>1, ExpectedHash, RowsBefore
<1>8. receipts[i].prevHash # receipts[i].thisHash
  <2>1. receipts[i].thisHash = HashOf(receipts[i])
    BY <1>1 DEF ChainInv, Linked, Sealed
  <2>2. CASE i = 1
    <3>1. receipts[i].prevHash = <<>>
      BY <1>1, <2>2 DEF ChainInv, Linked, NoHash
    <3> QED BY <2>1, <3>1 DEF HashOf
  <2>3. CASE i # 1
    <3>1. i - 1 \in 1..n /\ i - 1 # i
      BY <1>1, <2>3
    <3>2. receipts[i].prevHash = HashOf(receipts[i - 1])
      BY <1>1, <2>3, <3>1 DEF ChainInv, Linked, Sealed
    <3>3. receipts[i - 1].action # receipts[i].action
      BY <1>1, <3>1 DEF ChainInv, OneReceiptPerAction
    <3> QED BY <2>1, <3>2, <3>3 DEF HashOf, SigningPayload
  <2> QED BY <2>2, <2>3
<1> QED BY <1>2, <1>3, <1>6, <1>7, <1>8 DEF Verifies

\* Were the decision of a committed receipt rewritten, or a receipt other than
\* the newest removed, the walk of verify_receipt_chain to the newest receipt
\* would fail.
THEOREM TamperingShows == Spec => []TamperEvident
<1>1. ASSUME ChainInv, RowsAreWhole PROVE TamperEvident
  BY <1>1, RewrittenFails, RemovedFails DEF TamperEvident
<1> QED BY <1>1, ChainInvariance, RowsStayWhole, PTL

-----------------------------------------------------------------------------
(* Consequences for the callers.                                           *)

\* What is about to be, or has been, handed to a caller is on the chain.
AnswersInv ==
  /\ \A w \in Writers : pc[w] = "return" => draft[w] \in Rows
  /\ \A e \in answers : e \in {EntryOf(r) : r \in Rows}

\* Committing a receipt removes no row.
LEMMA RowsGrow ==
  ASSUME TypeOK, NEW r, receipts' = Append(receipts, r)
  PROVE  Rows \subseteq Rows' /\ r \in Rows'
<1>1. /\ receipts \in Seq(Rows) /\ Len(receipts) \in Nat
      /\ DOMAIN receipts = 1..Len(receipts)
      /\ DOMAIN receipts' = 1..(Len(receipts) + 1)
      /\ \A i \in 1..Len(receipts) : receipts'[i] = receipts[i]
      /\ receipts'[Len(receipts) + 1] = r
  BY DEF TypeOK
<1> QED BY <1>1 DEF Rows

\* Every step keeps returned and pending answers among the rows.
LEMMA NextAnswersInv == ChainInv /\ AnswersInv /\ [Next]_vars => AnswersInv'
<1> SUFFICES ASSUME ChainInv, AnswersInv, [Next]_vars PROVE AnswersInv'
  OBVIOUS
<1> USE DEF dbVars, callVars, Leave
<1>0. TypeOK /\ pc \in [Writers -> {"idle", "begin", "select", "insert", "return"}]
      /\ DOMAIN draft = Writers
  BY DEF ChainInv, TypeOK
<1>1. ASSUME Rows \subseteq Rows', UNCHANGED answers,
             \A w \in Writers : pc'[w] = "return" => draft'[w] \in Rows'
      PROVE  AnswersInv'
  BY <1>1 DEF AnswersInv
<1>2. ASSUME NEW w \in Writers, NEW p \in Payload, Call(w, p)
      PROVE  AnswersInv'
  BY <1>0, <1>1, <1>2 DEF AnswersInv, Call, Rows
<1>3. ASSUME NEW w \in Writers, BeginImmediate(w) \/ Busy(w) \/ Prepare(w)
      PROVE  AnswersInv'
  BY <1>0, <1>1, <1>3 DEF AnswersInv, BeginImmediate, Busy, Prepare, Rows
<1>4. ASSUME NEW w \in Writers, FindExisting(w) PROVE AnswersInv'
  BY <1>0, <1>1, <1>4 DEF AnswersInv, FindExisting, Rows
<1>5. ASSUME NEW w \in Writers, Insert(w) PROVE AnswersInv'
  <2>1. Rows \subseteq Rows' /\ draft[w] \in Rows'
    BY <1>0, <1>5, RowsGrow DEF Insert
  <2> QED BY <1>0, <1>1, <1>5, <2>1 DEF AnswersInv, Insert
<1>6. ASSUME NEW w \in Writers, Return(w) PROVE AnswersInv'
  <2>1. Rows' = Rows /\ draft[w] \in Rows /\ answers' = answers \cup {EntryOf(draft[w])}
    BY <1>6 DEF AnswersInv, Return, Rows
  <2>2. \A v \in Writers : pc'[v] = "return" => draft'[v] \in Rows'
    BY <1>0, <1>6, <2>1 DEF AnswersInv, Return
  <2> QED BY <2>1, <2>2 DEF AnswersInv, EntryOf
<1>7. ASSUME NEW w \in Writers, Rollback(w) \/ Crash(w) PROVE AnswersInv'
  BY <1>0, <1>1, <1>7 DEF AnswersInv, Rollback, Crash, Rows
<1>8. CASE ClockMoves \/ UNCHANGED vars
  BY <1>0, <1>1, <1>8 DEF AnswersInv, ClockMoves, vars, Rows
<1> QED BY <1>2, <1>3, <1>4, <1>5, <1>6, <1>7, <1>8 DEF Next

\* Every answer, returned or about to be, is a committed row.
LEMMA AnswersInvariance == Spec => []AnswersInv
<1>1. Init => AnswersInv
  BY DEF Init, AnswersInv
<1> QED BY <1>1, NextAnswersInv, ChainInvariance, PTL DEF Spec

\* All callers that record one action are told the same decision, and it is
\* the one on the chain.
THEOREM CallersAgree == Spec => []AnswersAgree
<1>1. ASSUME ChainInv, AnswersInv PROVE AnswersAgree
  <2>1. ASSUME NEW e \in answers, NEW f \in answers, e.action = f.action
        PROVE  e = f
    <3>1. PICK i \in DOMAIN receipts : e = EntryOf(receipts[i])
      BY <1>1 DEF AnswersInv, Rows
    <3>2. PICK j \in DOMAIN receipts : f = EntryOf(receipts[j])
      BY <1>1 DEF AnswersInv, Rows
    <3>3. i = j
      BY <1>1, <2>1, <3>1, <3>2 DEF ChainInv, OneReceiptPerAction, EntryOf
    <3> QED BY <3>1, <3>2, <3>3
  <2> QED BY <1>1, <2>1 DEF AnswersAgree, AnswersInv
<1> QED BY <1>1, ChainInvariance, AnswersInvariance, PTL

-----------------------------------------------------------------------------
(* Refinement.                                                             *)

\* The empty table is the empty log.
LEMMA LedgerInit == Init => LedgerOf!Init
<1> SUFFICES ASSUME Init PROVE LedgerOf!Init
  OBVIOUS
<1>1. receipts = <<>> /\ answers = {}
  BY DEF Init
<1>2. DOMAIN receipts = {}
  BY <1>1
<1>3. Entries = <<>>
  BY <1>2 DEF Entries
<1> QED BY <1>1, <1>3 DEF LedgerOf!Init

\* Every step is a step of the log or leaves it unchanged.
LEMMA LedgerStep ==
  ChainInv /\ AnswersInv /\ [Next]_vars => [LedgerOf!Next]_(LedgerOf!vars)
<1> SUFFICES ASSUME ChainInv, AnswersInv, [Next]_vars
             PROVE  [LedgerOf!Next]_(LedgerOf!vars)
  OBVIOUS
<1> USE DEF dbVars, callVars, Leave
<1>0. TypeOK
  BY DEF ChainInv
<1>1. ASSUME UNCHANGED <<receipts, answers>>
      PROVE  UNCHANGED LedgerOf!vars
  BY <1>1 DEF LedgerOf!vars, Entries, EntryOf
<1>2. ASSUME NEW w \in Writers, Insert(w) PROVE LedgerOf!Next
  <2> DEFINE e == EntryOf(draft[w])
             n == Len(receipts)
  <2>1. /\ receipts' = Append(receipts, draft[w]) /\ KeysFree(draft[w])
        /\ WellFormed(draft[w]) /\ UNCHANGED answers
    BY <1>0, <1>2 DEF Insert, TypeOK
  <2>2. /\ n \in Nat /\ DOMAIN receipts = 1..n /\ DOMAIN receipts' = 1..(n + 1)
        /\ receipts'[n + 1] = draft[w]
        /\ \A i \in 1..n : receipts'[i] = receipts[i]
    BY <1>0, <2>1 DEF TypeOK
  <2>3. e \in LedgerOf!Entry
    BY <2>1 DEF LedgerOf!Entry, EntryOf, WellFormed
  <2>4. ~LedgerOf!Logged(e.action)
    BY <2>1, <2>2 DEF LedgerOf!Logged, Entries, EntryOf, KeysFree, SameAction, Rows
  <2>5. Entries \in Seq(LedgerOf!Entry) /\ Len(Entries) = n
    <3>1. \A i \in 1..n : Entries[i] \in LedgerOf!Entry
      BY <1>0, <2>2 DEF TypeOK, Entries, EntryOf, LedgerOf!Entry, WellFormed, Rows
    <3> QED BY <2>2, <3>1 DEF Entries
  <2>6. Entries' = Append(Entries, e)
    <3>1. Entries' = [i \in 1..(n + 1) |-> EntryOf(receipts'[i])]
      BY <2>2 DEF Entries, EntryOf
    <3>2. \A i \in 1..(n + 1) : Append(Entries, e)[i] = EntryOf(receipts'[i])
      <4>1. ASSUME NEW i \in 1..n
            PROVE  Append(Entries, e)[i] = EntryOf(receipts'[i])
        BY <2>2, <2>5 DEF Entries
      <4>2. Append(Entries, e)[n + 1] = EntryOf(receipts'[n + 1])
        BY <2>2, <2>3, <2>5
      <4>3. \A i \in 1..(n + 1) : i \in 1..n \/ i = n + 1
        BY <2>2
      <4> HIDE DEF e, n
      <4> QED BY <4>1, <4>2, <4>3
    <3>3. DOMAIN Append(Entries, e) = 1..(n + 1)
      BY <2>2, <2>3, <2>5
    <3>4. Append(Entries, e) \in Seq(LedgerOf!Entry)
      BY <2>3, <2>5
    <3> QED BY <3>1, <3>2, <3>3, <3>4
  <2>7. LedgerOf!Record(e)
    BY <2>1, <2>4, <2>6 DEF LedgerOf!Record
  <2> QED BY <2>3, <2>7 DEF LedgerOf!Next
<1>3. ASSUME NEW w \in Writers, Return(w) PROVE LedgerOf!Next
  <2>1. draft[w] \in Rows /\ answers' = answers \cup {EntryOf(draft[w])}
        /\ UNCHANGED receipts
    BY <1>3 DEF Return, AnswersInv
  <2>2. PICK i \in DOMAIN receipts : draft[w] = receipts[i]
    BY <2>1 DEF Rows
  <2>3. i \in DOMAIN Entries /\ Entries[i] = EntryOf(draft[w])
    BY <2>2 DEF Entries
  <2>4. UNCHANGED Entries
    BY <2>1 DEF Entries, EntryOf
  <2>5. LedgerOf!Answer(i)
    BY <2>1, <2>3, <2>4 DEF LedgerOf!Answer
  <2> QED BY <2>3, <2>5 DEF LedgerOf!Next
<1>4. ASSUME NEW w \in Writers, NEW p \in Payload, Call(w, p)
      PROVE  UNCHANGED <<receipts, answers>>
  BY <1>4 DEF Call
<1>5. ASSUME NEW w \in Writers,
             \/ BeginImmediate(w) \/ Busy(w) \/ FindExisting(w)
             \/ Prepare(w) \/ Rollback(w) \/ Crash(w)
      PROVE  UNCHANGED <<receipts, answers>>
  BY <1>5 DEF BeginImmediate, Busy, FindExisting, Prepare, Rollback, Crash
<1>6. CASE ClockMoves \/ UNCHANGED vars
  BY <1>1, <1>6 DEF ClockMoves, vars
<1> QED BY <1>1, <1>2, <1>3, <1>4, <1>5, <1>6 DEF Next

\* The receipt table implements the append-only log of module Ledger.
THEOREM ReceiptTableIsALedger == Spec => ImplementsLedger
BY LedgerInit, LedgerStep, ChainInvariance, AnswersInvariance, PTL
   DEF Spec, ImplementsLedger, LedgerOf!Spec

-----------------------------------------------------------------------------
(* The registry.                                                           *)

\* One more receipt, r, credits its agent and nobody else.
LEMMA InsertCredits ==
  ASSUME TypeOK, NEW r, WellFormed(r), receipts' = Append(receipts, r),
         NEW a \in AgentNames, NEW d \in Counted
  PROVE  /\ Cardinality(ReceiptsOf(a)') = Cardinality(ReceiptsOf(a)) +
                 (IF Normalize[r.agent] = a THEN 1 ELSE 0)
         /\ Cardinality(Decided(a, d)') = Cardinality(Decided(a, d)) +
                 (IF Normalize[r.agent] = a /\ r.decision = d THEN 1 ELSE 0)
         /\ Cardinality(ReceiptsOf(a)) \in Nat
         /\ Cardinality(Decided(a, d)) \in Nat
<1> DEFINE n == Len(receipts)
           R == ReceiptsOf(a)
           D == Decided(a, d)
<1>1. /\ n \in Nat /\ DOMAIN receipts = 1..n /\ DOMAIN receipts' = 1..(n + 1)
      /\ receipts'[n + 1] = r
      /\ \A i \in 1..n : receipts'[i] = receipts[i]
  BY DEF TypeOK
<1>2. /\ IsFiniteSet(R) /\ IsFiniteSet(D) /\ n + 1 \notin R /\ n + 1 \notin D
  <2>1. R \subseteq 1..n /\ D \subseteq 1..n
    BY <1>1 DEF ReceiptsOf, Decided
  <2>2. IsFiniteSet(1..n)
    BY <1>1, FS_Interval
  <2>3. IsFiniteSet(R) /\ IsFiniteSet(D)
    BY <2>1, <2>2, FS_Subset
  <2> QED BY <1>1, <2>1, <2>3
<1>3. \A i \in 1..(n + 1) : i \in 1..n \/ i = n + 1
  BY <1>1
<1>4. R' = IF Normalize[r.agent] = a THEN R \cup {n + 1} ELSE R
  BY <1>1, <1>3 DEF ReceiptsOf
<1>5. D' = IF Normalize[r.agent] = a /\ r.decision = d THEN D \cup {n + 1} ELSE D
  BY <1>1, <1>3 DEF ReceiptsOf, Decided
<1>6. /\ Cardinality(R \cup {n + 1}) = Cardinality(R) + 1
      /\ Cardinality(D \cup {n + 1}) = Cardinality(D) + 1
  BY <1>2, FS_AddElement
<1>7. Cardinality(R) \in Nat /\ Cardinality(D) \in Nat
  BY <1>2, FS_CardinalityType
<1> HIDE DEF R, D
<1>8. Cardinality(R') = Cardinality(R) + (IF Normalize[r.agent] = a THEN 1 ELSE 0)
  BY <1>4, <1>6, <1>7
<1>9. Cardinality(D') = Cardinality(D) +
        (IF Normalize[r.agent] = a /\ r.decision = d THEN 1 ELSE 0)
  BY <1>5, <1>6, <1>7
<1> QED BY <1>7, <1>8, <1>9 DEF R, D

\* Every step keeps the counters equal to the receipts they count.
LEMMA NextRegistry ==
  ChainInv /\ RegistryMatchesChain /\ [Next]_vars => RegistryMatchesChain'
<1> SUFFICES ASSUME ChainInv, RegistryMatchesChain, [Next]_vars
             PROVE  RegistryMatchesChain'
  OBVIOUS
<1> USE DEF dbVars, callVars, Leave
<1>0. TypeOK
  BY DEF ChainInv
<1>1. ASSUME UNCHANGED <<receipts, registry>> PROVE RegistryMatchesChain'
  BY <1>1 DEF RegistryMatchesChain, ReceiptsOf, Decided
<1>2. ASSUME NEW w \in Writers, Insert(w) PROVE RegistryMatchesChain'
  <2> DEFINE r == draft[w]
             b == Normalize[r.agent]
  <2>1. WellFormed(r) /\ receipts' = Append(receipts, r)
        /\ registry' = Observe(registry, r)
    BY <1>0, <1>2 DEF Insert, TypeOK
  <2>2. b \in AgentNames /\ registry \in [AgentNames -> RegistryRow]
    BY <1>0, <2>1 DEF WellFormed, TypeOK
  <2> HIDE DEF r
  <2>3. ASSUME NEW a \in AgentNames
        PROVE  /\ registry'[a].total =
                    registry[a].total + (IF b = a THEN 1 ELSE 0)
               /\ \A d \in Counted : registry'[a].count[d] =
                    registry[a].count[d] + (IF b = a /\ r.decision = d THEN 1 ELSE 0)
    <3>1. registry[a].total \in Nat /\ registry[a].count \in [Counted -> Nat]
      BY <2>2 DEF RegistryRow
    <3>2. CASE b = a
      BY <2>1, <2>2, <3>1, <3>2 DEF Observe
    <3>3. CASE b # a
      BY <2>1, <2>2, <3>1, <3>3 DEF Observe
    <3> QED BY <3>2, <3>3
  <2>4. ASSUME NEW a \in AgentNames, NEW d \in Counted
        PROVE  /\ registry'[a].total = Cardinality(ReceiptsOf(a)')
               /\ registry'[a].count[d] = Cardinality(Decided(a, d)')
    BY <1>0, <2>1, <2>3, InsertCredits DEF RegistryMatchesChain
  <2> QED BY <2>4 DEF RegistryMatchesChain, Counted
<1>3. ASSUME NEW w \in Writers, NEW p \in Payload, Call(w, p)
      PROVE  UNCHANGED <<receipts, registry>>
  BY <1>3 DEF Call
<1>4. ASSUME NEW w \in Writers,
             \/ BeginImmediate(w) \/ Busy(w) \/ FindExisting(w) \/ Prepare(w)
             \/ Rollback(w) \/ Return(w) \/ Crash(w)
      PROVE  UNCHANGED <<receipts, registry>>
  BY <1>4 DEF BeginImmediate, Busy, FindExisting, Prepare, Rollback, Return, Crash
<1>5. CASE ClockMoves \/ UNCHANGED vars
  BY <1>1, <1>5 DEF ClockMoves, vars
<1> QED BY <1>1, <1>2, <1>3, <1>4, <1>5 DEF Next

\* An agent's counters always equal the number of its receipts.
THEOREM RegistryCountsReceipts == Spec => []RegistryMatchesChain
<1>1. Init => RegistryMatchesChain
  <2> SUFFICES ASSUME Init PROVE RegistryMatchesChain
    OBVIOUS
  <2>1. DOMAIN receipts = {}
    BY DEF Init
  <2>2. \A a \in AgentNames : ReceiptsOf(a) = {} /\ \A d \in Counted : Decided(a, d) = {}
    BY <2>1 DEF ReceiptsOf, Decided
  <2> QED BY <2>2, FS_EmptySet DEF Init, RegistryMatchesChain
<1> QED BY <1>1, NextRegistry, ChainInvariance, PTL DEF Spec

=============================================================================
