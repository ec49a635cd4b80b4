---------------------------- MODULE ReceiptChain ----------------------------
(***************************************************************************)
(* The hash-chained, signed receipt table of src/axiom/govern/receipts.py, *)
(* written by several threads and processes (studio, MCP server, command   *)
(* line) that share one SQLite file, together with the agent registry that *)
(* is updated in the same transaction (agent_registry.py) and the          *)
(* verifier that walks the chain (verify.py).                              *)
(*                                                                         *)
(* Abstractions.  A receipt's descriptive columns (intent, reason,         *)
(* guidance, ...) travel with its decision and are left out.  SHA-256 and  *)
(* Ed25519 are modelled by what they commit to: a hash, or a signature, is *)
(* the content it covers, so that two of them are equal exactly when the   *)
(* covered contents are.  All processes sign with the same key.            *)
(*                                                                         *)
(* The definitions marked "Fault" are not part of the specification: each  *)
(* is a way its code could go wrong that a property must notice.           *)
(***************************************************************************)
EXTENDS Naturals, Sequences, FiniteSets

CONSTANTS
  Writers,     \* threads that call chain_insert_receipt
  Actions,     \* action_id values
  Ids,         \* receipt primary keys, ordered as SQLite orders them
  AgentNames,  \* agent names as callers spell them
  Normalize,   \* agent name -> name after strip() and the default
  Decisions,   \* decision strings
  MaxClock,    \* bound on the wall clock (microseconds)
  NoWriter,    \* nobody holds the write lock
  None         \* no value (NULL)

ASSUME ConstantsAssumption ==
  /\ Ids \subseteq Nat
  /\ Normalize \in [AgentNames -> AgentNames]
  /\ MaxClock \in Nat
  /\ NoWriter \notin Writers

\* The decisions the registry counts in a column of their own.
Counted == {"allow", "correct", "deny"}

VARIABLES
  receipts,  \* committed rows of the receipts table, in commit order
  registry,  \* agent_registry: normalized name -> counters
  lock,      \* which writer's BEGIN IMMEDIATE holds SQLite's write lock
  clock,     \* datetime.utcnow(), which may be stepped back
  pc,        \* where each writer is inside chain_insert_receipt
  req,       \* the ReceiptInsert payload of each writer's call
  draft,     \* the Receipt object each writer has built or found
  answers    \* history: entries returned to callers so far

dbVars == <<receipts, registry>>
callVars == <<pc, req, draft>>
vars == <<receipts, registry, lock, clock, pc, req, draft, answers>>

Payload == [id: Ids, action: Actions, agent: AgentNames, decision: Decisions]

Rows == {receipts[i] : i \in DOMAIN receipts}

-----------------------------------------------------------------------------
(* What signatures and hashes cover.                                       *)

\* Fault: the canonical form leaves the decision out.
SigningPayloadUndecided(r) == <<r.id, r.action, r.agent, r.createdAt, r.prevHash>>

\* signing_payload: every column but the signature and this_hash.
SigningPayload(r) ==
  <<r.id, r.action, r.agent, r.decision, r.createdAt, r.prevHash>>

\* compute_receipt_hash: every column but this_hash, the signature included.
HashOf(r) == <<SigningPayload(r), r.sig>>

\* verify_receipt_signature, with the key all processes share.
SignatureVerifies(r) == r.sig = SigningPayload(r)

\* ORDER BY created_at, id.
Before(r, s) ==
  \/ r.createdAt < s.createdAt
  \/ r.createdAt = s.createdAt /\ r.id < s.id

\* The last row of a non-empty set of rows in that order.
LastOf(rows) == CHOOSE r \in rows : \A s \in rows : s = r \/ Before(s, r)

\* prev_hash of the first receipt: NULL, which is the hash of nothing.
NoHash == <<>>

\* previous.this_hash, or none when there is no previous row.
HashBefore(rows) == IF rows = {} THEN NoHash ELSE LastOf(rows).thisHash

\* verify_receipt_chain: the walk from the oldest row to row r finds every
\* link, signature and hash in order.
Verifies(rows, r) ==
  \A s \in rows :
    s = r \/ Before(s, r) =>
      /\ s.prevHash = HashBefore({t \in rows : Before(t, s)})
      /\ SignatureVerifies(s)
      /\ s.thisHash = HashOf(s)

\* Fault: the unique column is declared together with the primary key.
SameActionAndId(r, p) == r.action = p.action /\ r.id = p.id

\* action_id is unique: row r is the receipt of payload (or row) p.
SameAction(r, p) == r.action = p.action

-----------------------------------------------------------------------------
(* Building a receipt.                                                     *)

\* created_at: now, or one microsecond after the previous row when the
\* clock has not moved past it.
StampAfter(rows) ==
  IF rows # {} /\ clock <= LastOf(rows).createdAt
  THEN LastOf(rows).createdAt + 1
  ELSE clock

\* A Receipt for payload p to follow the rows: prev_hash is set before the
\* signature, the signature before this_hash.
Unsigned(p, rows) ==
  [id |-> p.id, action |-> p.action, agent |-> p.agent,
   decision |-> p.decision, createdAt |-> StampAfter(rows),
   prevHash |-> HashBefore(rows), sig |-> None, thisHash |-> None]

Signed(u) == [u EXCEPT !.sig = SigningPayload(u)]

Hashed(s) == [s EXCEPT !.thisHash = HashOf(s)]

NewReceipt(p, rows) == Hashed(Signed(Unsigned(p, rows)))

\* Fault: the registry keys agents by the name as it is spelled.
ObserveUnnormalized(reg, r) ==
  [reg EXCEPT ![r.agent] =
     [total      |-> @.total + 1,
      count      |-> [d \in Counted |->
                        IF d = r.decision THEN @.count[d] + 1 ELSE @.count[d]],
      firstSeen  |-> IF @.total = 0 THEN r.createdAt ELSE @.firstSeen,
      lastSeen   |-> r.createdAt,
      lastAction |-> r.action]]

\* upsert_agent_observation: an agent without a row has total 0.
Observe(reg, r) ==
  [reg EXCEPT ![Normalize[r.agent]] =
     [total      |-> @.total + 1,
      count      |-> [d \in Counted |->
                        IF d = r.decision THEN @.count[d] + 1 ELSE @.count[d]],
      firstSeen  |-> IF @.total = 0 \/ r.createdAt < @.firstSeen
                     THEN r.createdAt ELSE @.firstSeen,
      lastSeen   |-> IF @.total = 0 \/ r.createdAt > @.lastSeen
                     THEN r.createdAt ELSE @.lastSeen,
      lastAction |-> r.action]]

-----------------------------------------------------------------------------
(* chain_insert_receipt, step by step.                                     *)

\* A caller enters with a payload.
Call(w, p) ==
  /\ pc[w] = "idle"
  /\ pc' = [pc EXCEPT ![w] = "begin"]
  /\ req' = [req EXCEPT ![w] = p]
  /\ UNCHANGED <<dbVars, lock, clock, draft, answers>>

\* The call is over, one way or another.
Leave(w) ==
  /\ pc' = [pc EXCEPT ![w] = "idle"]
  /\ req' = [req EXCEPT ![w] = None]
  /\ draft' = [draft EXCEPT ![w] = None]

\* Fault: a deferred BEGIN lets every writer read before it writes.
BeginDeferred(w) ==
  /\ pc[w] = "begin"
  /\ lock' = w
  /\ pc' = [pc EXCEPT ![w] = "select"]
  /\ UNCHANGED <<dbVars, clock, req, draft, answers>>

\* BEGIN IMMEDIATE takes the write lock before anything is read.
BeginImmediate(w) ==
  /\ pc[w] = "begin"
  /\ lock = NoWriter
  /\ lock' = w
  /\ pc' = [pc EXCEPT ![w] = "select"]
  /\ UNCHANGED <<dbVars, clock, req, draft, answers>>

\* busy_timeout expires while another writer holds the lock: the call raises.
Busy(w) ==
  /\ pc[w] = "begin"
  /\ lock # NoWriter
  /\ Leave(w)
  /\ UNCHANGED <<dbVars, lock, clock, answers>>

\* The action already has a receipt: commit and return that row.
FindExisting(w) ==
  /\ pc[w] = "select"
  /\ \E r \in Rows :
       /\ SameAction(r, req[w])
       /\ draft' = [draft EXCEPT ![w] = r]
  /\ lock' = NoWriter
  /\ pc' = [pc EXCEPT ![w] = "return"]
  /\ UNCHANGED <<dbVars, clock, req, answers>>

\* No receipt yet: read the newest row, read the clock, sign and hash.
Prepare(w) ==
  /\ pc[w] = "select"
  /\ \A r \in Rows : ~SameAction(r, req[w])
  /\ draft' = [draft EXCEPT ![w] = NewReceipt(req[w], Rows)]
  /\ pc' = [pc EXCEPT ![w] = "insert"]
  /\ UNCHANGED <<dbVars, lock, clock, req, answers>>

\* The two unique keys of the table accept the row.
KeysFree(r) == \A s \in Rows : s.id # r.id /\ ~SameAction(s, r)

\* Fault: INSERT OR REPLACE: a row with the same id makes way for the draft.
InsertReplacing(w) ==
  /\ pc[w] = "insert"
  /\ receipts' = Append(SelectSeq(receipts, LAMBDA r : r.id # draft[w].id),
                        draft[w])
  /\ registry' = Observe(registry, draft[w])
  /\ lock' = NoWriter
  /\ pc' = [pc EXCEPT ![w] = "return"]
  /\ UNCHANGED <<clock, req, draft, answers>>

\* Flush and commit: the receipt and the registry row become visible
\* together and the lock is released.
Insert(w) ==
  /\ pc[w] = "insert"
  /\ KeysFree(draft[w])
  /\ receipts' = Append(receipts, draft[w])
  /\ registry' = Observe(registry, draft[w])
  /\ lock' = NoWriter
  /\ pc' = [pc EXCEPT ![w] = "return"]
  /\ UNCHANGED <<clock, req, draft, answers>>

\* Any exception inside the transaction (a duplicate id, an unknown
\* passport, no signing key, a full disk): roll back and raise.
Rollback(w) ==
  /\ pc[w] \in {"select", "insert"}
  /\ lock' = NoWriter
  /\ Leave(w)
  /\ UNCHANGED <<dbVars, clock, answers>>

EntryOf(r) == [action |-> r.action, agent |-> r.agent, decision |-> r.decision]

\* The receipt reaches the caller.
Return(w) ==
  /\ pc[w] = "return"
  /\ answers' = answers \cup {EntryOf(draft[w])}
  /\ Leave(w)
  /\ UNCHANGED <<dbVars, lock, clock>>

\* The process dies: SQLite rolls back what was not committed and the
\* caller, who may come back with the same action, never saw an answer.
Crash(w) ==
  /\ pc[w] # "idle"
  /\ lock' = IF lock = w THEN NoWriter ELSE lock
  /\ Leave(w)
  /\ UNCHANGED <<dbVars, clock, answers>>

\* The wall clock moves, forwards or (an NTP correction) backwards.
ClockMoves ==
  /\ \/ clock < MaxClock /\ clock' = clock + 1
     \/ clock > 0 /\ clock' = clock - 1
  /\ UNCHANGED <<dbVars, lock, callVars, answers>>

Init ==
  /\ receipts = <<>>
  /\ registry = [a \in AgentNames |->
       [total |-> 0, count |-> [d \in Counted |-> 0],
        firstSeen |-> 0, lastSeen |-> 0, lastAction |-> None]]
  /\ lock = NoWriter
  /\ clock = 0
  /\ pc = [w \in Writers |-> "idle"]
  /\ req = [w \in Writers |-> None]
  /\ draft = [w \in Writers |-> None]
  /\ answers = {}

Next ==
  \/ \E w \in Writers :
       \/ \E p \in Payload : Call(w, p)
       \/ BeginImmediate(w) \/ Busy(w)
       \/ FindExisting(w) \/ Prepare(w)
       \/ Insert(w) \/ Rollback(w)
       \/ Return(w) \/ Crash(w)
  \/ ClockMoves

Spec == Init /\ [][Next]_vars

-----------------------------------------------------------------------------
(* Correctness.                                                            *)

WellFormed(r) ==
  /\ r.id \in Ids
  /\ r.action \in Actions
  /\ r.agent \in AgentNames
  /\ r.decision \in Decisions
  /\ r.createdAt \in Nat

RegistryRow ==
  [total: Nat, count: [Counted -> Nat], firstSeen: Nat, lastSeen: Nat,
   lastAction: Actions \cup {None}]

\* Every variable has the shape the code gives it, and a writer has a
\* payload, and a draft, exactly where chain_insert_receipt has them.
TypeOK ==
  /\ receipts \in Seq(Rows)
  /\ \A r \in Rows : WellFormed(r)
  /\ registry \in [AgentNames -> RegistryRow]
  /\ lock \in Writers \cup {NoWriter}
  /\ clock \in Nat
  /\ pc \in [Writers -> {"idle", "begin", "select", "insert", "return"}]
  /\ DOMAIN req = Writers
  /\ DOMAIN draft = Writers
  /\ \A w \in Writers :
       /\ pc[w] \in {"begin", "select", "insert"} => req[w] \in Payload
       /\ pc[w] \in {"insert", "return"} => WellFormed(draft[w])
  /\ answers \subseteq
       [action: Actions, agent: AgentNames, decision: Decisions]

\* Whatever the writers, their crashes and the clock did, every committed
\* receipt passes the walk of verify_receipt_chain: concurrent writers never
\* fork the chain and a clock that is stepped back never reorders it.
ChainVerifies == \A r \in Rows : Verifies(Rows, r)

\* The order the verifier and the Studio's paging read (created_at, id) is
\* the order in which the receipts were committed, with no ties to break.
CommitOrderIsReadOrder ==
  \A i, j \in DOMAIN receipts :
    i < j => receipts[i].createdAt < receipts[j].createdAt

\* One receipt per action, however many writers or retries recorded it.
OneReceiptPerAction ==
  \A i, j \in DOMAIN receipts :
    receipts[i].action = receipts[j].action => i = j

\* Callers that recorded the same action, at any time and from any process,
\* were all handed the same decision, and it is the one on the chain.
AnswersAgree ==
  \A e \in answers :
    /\ e \in {EntryOf(r) : r \in Rows}
    /\ \A f \in answers : e.action = f.action => e = f

\* Positions of the receipts a normalized agent name is credited with.
ReceiptsOf(a) == {i \in DOMAIN receipts : Normalize[receipts[i].agent] = a}

Decided(a, d) == {i \in ReceiptsOf(a) : receipts[i].decision = d}

\* The registry is never ahead of or behind the chain: an agent's counters
\* are the number of its receipts, in total and by decision.
RegistryMatchesChain ==
  \A a \in AgentNames :
    /\ registry[a].total = Cardinality(ReceiptsOf(a))
    /\ \A d \in Counted : registry[a].count[d] = Cardinality(Decided(a, d))

\* The chain is evidence: were a committed row's decision rewritten, or a
\* row other than the newest removed, the newest receipt would no longer
\* verify.
Rewritten(i, d) ==
  {receipts[j] : j \in DOMAIN receipts \ {i}} \cup
    {[receipts[i] EXCEPT !.decision = d]}

Removed(i) == {receipts[j] : j \in DOMAIN receipts \ {i}}

TamperEvident ==
  LET n == Len(receipts) IN
  /\ \A i \in 1..n, d \in Decisions :
       d # receipts[i].decision =>
         \E r \in Rewritten(i, d) :
           /\ r.id = receipts[n].id
           /\ ~Verifies(Rewritten(i, d), r)
  /\ \A i \in 1..(n - 1) : ~Verifies(Removed(i), receipts[n])

\* The entries of the table, oldest first.
Entries == [i \in DOMAIN receipts |-> EntryOf(receipts[i])]

LedgerOf == INSTANCE Ledger WITH log <- Entries

\* The table implements the abstract log: committed receipts are never
\* changed or removed, one is added at a time, and nobody is told of a
\* receipt the table does not hold.
ImplementsLedger == LedgerOf!Spec

=============================================================================
