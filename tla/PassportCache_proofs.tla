------------------------ MODULE PassportCache_proofs ------------------------
(***************************************************************************)
(* Proofs about PassportCache: every answer a verifier gives is justified  *)
(* by a state of the passport less than TTL old.  The argument: the two    *)
(* history variables bound the age of every row a verifier holds, in its   *)
(* session or in its cache, from the moment it is read.                    *)
(***************************************************************************)
EXTENDS PassportCache, TLAPS

\* The history variables are up to date with the row and never ahead of it.
HistoryIsCurrent ==
  /\ lastUsable <= clock /\ lastUnusable <= clock
  /\ Usable(row) => lastUsable = clock
  /\ ~Usable(row) => lastUnusable = clock

\* Row r was read at or after instant t - TTL, and is the row of today up to
\* its flags.
WasRead(r, t) ==
  /\ row # None /\ r.expiresAt = row.expiresAt
  /\ Usable(r) => lastUsable + TTL >= t
  /\ ~Usable(r) => lastUnusable + TTL >= t

\* What a verifier in the middle of a call knows.
CallIsFresh ==
  \A p \in Verifiers :
    /\ start[p] <= clock
    /\ pc[p] \in {"commit", "store"} =>
         /\ lastUsable >= start[p]
         /\ start[p] < row.expiresAt
         /\ WasRead(seen[p], start[p] + TTL)

\* What a cache entry is worth.
CacheIsFresh ==
  \A p \in Procs : cache[p] # None => WasRead(cache[p].row, cache[p].until)

CacheInv ==
  /\ TypeOK
  /\ HistoryIsCurrent
  /\ CallIsFresh
  /\ CacheIsFresh
  /\ AcceptanceIsFresh
  /\ RefusalIsFresh

\* The invariant holds before a passport is issued.
LEMMA InitCacheInv == Init => CacheInv
<1> SUFFICES ASSUME Init PROVE CacheInv
  OBVIOUS
<1>1. TypeOK
  BY CacheAssumption DEF Init, TypeOK
<1>2. HistoryIsCurrent /\ CallIsFresh /\ CacheIsFresh
  BY DEF Init, HistoryIsCurrent, CallIsFresh, CacheIsFresh, Usable, Procs
<1>3. AcceptanceIsFresh /\ RefusalIsFresh
  BY DEF Init, AcceptanceIsFresh, RefusalIsFresh
<1> QED BY <1>1, <1>2, <1>3 DEF CacheInv

\* A call that ends leaves nothing behind but its verdict, and a verdict
\* that is fresh keeps the invariant.
LEMMA AnswerKeepsInv ==
  ASSUME CacheInv, NEW p \in Verifiers, NEW a \in Answers, NEW since \in Nat,
         Answer(p, a, since),
         UNCHANGED <<dbVars, clock>>,
         cache' \in [Procs -> Entries \cup {None}],
         CacheIsFresh',
         a = "accepted" => /\ lastUsable + TTL > since
                           /\ row # None /\ since < row.expiresAt,
         a = "refused" => lastUnusable + TTL > since
  PROVE  CacheInv'
<1> USE DEF Answer, Leave, dbVars
<1>1. TypeOK'
  BY DEF CacheInv, TypeOK
<1>2. HistoryIsCurrent'
  BY DEF CacheInv, HistoryIsCurrent
<1>3. CallIsFresh'
  BY DEF CacheInv, TypeOK, CallIsFresh, WasRead
<1>4. AcceptanceIsFresh'
  BY DEF CacheInv, TypeOK, AcceptanceIsFresh
<1>5. RefusalIsFresh'
  BY DEF CacheInv, TypeOK, RefusalIsFresh
<1> QED BY <1>1, <1>2, <1>3, <1>4, <1>5 DEF CacheInv

\* An instant that is late enough stays so when it is replaced by a later one.
LEMMA LaterIsLater ==
  ASSUME NEW a \in Nat, NEW b \in Nat, NEW c \in Nat, NEW t \in Nat,
         b >= a, a + c >= t
  PROVE  b + c >= t
OBVIOUS

\* A row that was read stays as fresh as it was while the history grows and
\* the expiry in the table stands.
LEMMA RowsAge ==
  ASSUME TypeOK, NEW s, NEW t \in Nat, WasRead(s, t),
         row' # None, row # None => row'.expiresAt = row.expiresAt,
         lastUsable' \in Nat, lastUnusable' \in Nat,
         lastUsable' >= lastUsable, lastUnusable' >= lastUnusable
  PROVE  WasRead(s, t)'
<1>1. lastUsable \in Nat /\ lastUnusable \in Nat /\ TTL \in Nat
  BY CacheAssumption DEF TypeOK
<1>2. row' # None /\ s.expiresAt = row'.expiresAt
  BY DEF WasRead
<1>3. lastUsable + TTL >= t => lastUsable' + TTL >= t
  BY <1>1, LaterIsLater
<1>4. lastUnusable + TTL >= t => lastUnusable' + TTL >= t
  BY <1>1, LaterIsLater
<1> QED BY <1>2, <1>3, <1>4 DEF WasRead, Usable

\* An administrator's commit keeps the expiry and refreshes the history, so
\* every row held elsewhere stays as old as it was.
LEMMA CommitKeepsInv ==
  ASSUME CacheInv, NEW a \in Admins, NEW r \in Rows, Commit(a, r),
         row # None => r.expiresAt = row.expiresAt
  PROVE  CacheInv'
<1>0. /\ r # None /\ row' = r /\ a \in Procs
      /\ lastUsable' \in Nat /\ lastUnusable' \in Nat
      /\ lastUsable' >= lastUsable /\ lastUnusable' >= lastUnusable
      /\ cache' = [cache EXCEPT ![a] = None]
      /\ UNCHANGED <<clock, pc, start, seen, verdict>>
  BY CacheAssumption DEF Commit, Witness, CacheInv, TypeOK, HistoryIsCurrent, Procs
<1>1. TypeOK'
  BY <1>0 DEF CacheInv, TypeOK
<1>2. HistoryIsCurrent'
  BY <1>0 DEF Commit, Witness, CacheInv, TypeOK, HistoryIsCurrent
<1>3. ASSUME NEW s, NEW t \in Nat, WasRead(s, t) PROVE WasRead(s, t)'
  BY <1>0, <1>3, RowsAge DEF CacheInv
<1>4. CallIsFresh'
  BY <1>0, <1>3, CacheAssumption DEF CacheInv, TypeOK, CallIsFresh
<1>5. CacheIsFresh'
  BY <1>0, <1>3 DEF CacheInv, TypeOK, CacheIsFresh, Entries
<1>6. AcceptanceIsFresh' /\ RefusalIsFresh'
  BY <1>0, CacheAssumption DEF CacheInv, TypeOK, AcceptanceIsFresh, RefusalIsFresh
<1> QED BY <1>1, <1>2, <1>4, <1>5, <1>6 DEF CacheInv

\* Every step keeps the invariant.
LEMMA NextCacheInv == CacheInv /\ [Next]_vars => CacheInv'
<1> SUFFICES ASSUME CacheInv, [Next]_vars PROVE CacheInv'
  OBVIOUS
<1>0. TypeOK
  BY DEF CacheInv
<1>1. ASSUME NEW p \in Verifiers, Hit(p) PROVE CacheInv'
  <2> DEFINE r == cache[p].row
  <2>1. cache[p] # None /\ cache[p] \in Entries /\ cache[p].until > clock
    BY <1>0, <1>1 DEF Hit, Fresh, TypeOK, Procs
  <2>2. WasRead(r, cache[p].until) /\ r \in Rows /\ clock \in Nat
    BY <1>0, <2>1 DEF CacheInv, CacheIsFresh, Procs, Entries, TypeOK
  <2>3. Validates(r) \in Answers
    BY DEF Validates, Answers
  <2>4. Validates(r) = "accepted" => /\ lastUsable + TTL > clock
                                     /\ row # None /\ clock < row.expiresAt
    BY <1>0, <2>1, <2>2, CacheAssumption
    DEF Validates, WasRead, TypeOK, Rows, Entries
  <2>5. Validates(r) = "refused" => lastUnusable + TTL > clock
    BY <1>0, <2>1, <2>2, CacheAssumption
    DEF Validates, WasRead, TypeOK, Rows, Entries
  <2>6. CacheIsFresh' /\ cache' \in [Procs -> Entries \cup {None}]
    BY <1>0, <1>1 DEF Hit, CacheInv, CacheIsFresh, WasRead, dbVars, TypeOK
  <2> QED BY <1>1, <2>2, <2>3, <2>4, <2>5, <2>6, AnswerKeepsInv DEF Hit
<1>2. ASSUME NEW p \in Verifiers, Miss(p) PROVE CacheInv'
  <2>1. TypeOK' /\ HistoryIsCurrent'
    BY <1>0, <1>2 DEF Miss, CacheInv, TypeOK, HistoryIsCurrent, dbVars
  <2>2. CallIsFresh' /\ CacheIsFresh'
    BY <1>0, <1>2 DEF Miss, CacheInv, TypeOK, CallIsFresh, CacheIsFresh, WasRead, dbVars
  <2>3. AcceptanceIsFresh' /\ RefusalIsFresh'
    BY <1>2 DEF Miss, CacheInv, AcceptanceIsFresh, RefusalIsFresh, dbVars
  <2> QED BY <2>1, <2>2, <2>3 DEF CacheInv
<1>3. ASSUME NEW p \in Verifiers, Select(p) PROVE CacheInv'
  <2>1. start[p] \in Nat /\ start[p] <= clock /\ clock \in Nat
    BY <1>0 DEF CacheInv, TypeOK, CallIsFresh
  <2>2. UNCHANGED <<dbVars, clock, cache>>
    BY <1>3 DEF Select
  <2>3. CacheIsFresh' /\ cache' \in [Procs -> Entries \cup {None}]
    BY <1>0, <2>2 DEF CacheInv, CacheIsFresh, WasRead, dbVars, TypeOK
  <2>4. CASE row = None /\ Answer(p, "unknown", start[p])
    BY <2>1, <2>2, <2>3, <2>4, AnswerKeepsInv DEF Answers
  <2>5. CASE row # None /\ Validates(row) # "accepted" /\ Answer(p, Validates(row), start[p])
    <3>1. Validates(row) \in Answers
      BY DEF Validates, Answers
    <3>2. Validates(row) = "refused" => lastUnusable + TTL > start[p]
      BY <1>0, <2>1, CacheAssumption
      DEF CacheInv, TypeOK, HistoryIsCurrent, Validates
    <3> QED BY <2>1, <2>2, <2>3, <2>5, <3>1, <3>2, AnswerKeepsInv
  <2>6. CASE /\ pc[p] = "select" /\ row # None /\ Validates(row) = "accepted"
             /\ seen' = [seen EXCEPT ![p] = row]
             /\ pc' = [pc EXCEPT ![p] = "commit"]
             /\ UNCHANGED <<start, verdict>>
    <3>1. /\ Usable(row) /\ row \in Rows /\ lastUsable = clock
          /\ start[p] < row.expiresAt
      BY <1>0, <2>1, <2>6 DEF CacheInv, TypeOK, HistoryIsCurrent, Validates, Rows
    <3>2. TypeOK' /\ HistoryIsCurrent'
      BY <1>0, <2>2, <2>6, <3>1 DEF CacheInv, TypeOK, HistoryIsCurrent, dbVars
    <3>3. CallIsFresh'
      BY <1>0, <2>1, <2>2, <2>6, <3>1, CacheAssumption
      DEF CacheInv, TypeOK, CallIsFresh, WasRead, dbVars
    <3>4. AcceptanceIsFresh' /\ RefusalIsFresh'
      BY <2>2, <2>6 DEF CacheInv, AcceptanceIsFresh, RefusalIsFresh, dbVars
    <3> QED BY <2>3, <3>2, <3>3, <3>4 DEF CacheInv
  <2> QED BY <1>3, <2>4, <2>5, <2>6 DEF Select
<1>4. ASSUME NEW p \in Verifiers, Refresh(p) PROVE CacheInv'
  <2>1. row # None /\ row \in Rows /\ start[p] <= clock
    BY <1>0, <1>4 DEF Refresh, CacheInv, CallIsFresh, TypeOK
  <2>2. TypeOK' /\ HistoryIsCurrent'
    BY <1>0, <1>4, <2>1 DEF Refresh, CacheInv, TypeOK, HistoryIsCurrent, dbVars
  <2>3. CallIsFresh'
    BY <1>0, <1>4, <2>1, CacheAssumption
    DEF Refresh, CacheInv, TypeOK, CallIsFresh, HistoryIsCurrent, WasRead, dbVars
  <2>4. CacheIsFresh' /\ AcceptanceIsFresh' /\ RefusalIsFresh'
    BY <1>4 DEF Refresh, CacheInv, CacheIsFresh, WasRead, AcceptanceIsFresh,
                RefusalIsFresh, dbVars
  <2> QED BY <2>2, <2>3, <2>4 DEF CacheInv
<1>5. ASSUME NEW p \in Verifiers, Store(p) PROVE CacheInv'
  <2>1. /\ start[p] \in Nat /\ lastUsable >= start[p] /\ start[p] < row.expiresAt
        /\ WasRead(seen[p], start[p] + TTL)
        /\ seen[p] \in Rows /\ row # None /\ p \in Procs
    BY <1>0, <1>5 DEF Store, CacheInv, TypeOK, CallIsFresh, Procs
  <2>2. cache' \in [Procs -> Entries \cup {None}]
    BY <1>0, <1>5, <2>1, CacheAssumption DEF Store, TypeOK, Entries
  <2>3. CacheIsFresh'
    BY <1>0, <1>5, <2>1 DEF Store, CacheInv, CacheIsFresh, WasRead, TypeOK, dbVars
  <2>4. lastUsable + TTL > start[p]
    BY <1>0, <2>1, CacheAssumption DEF TypeOK
  <2> QED BY <1>5, <2>1, <2>2, <2>3, <2>4, AnswerKeepsInv DEF Store, Answers
<1>6. ASSUME NEW p \in Verifiers, Fail(p) \/ Restart(p) PROVE CacheInv'
  <2>1. TypeOK' /\ HistoryIsCurrent'
    BY <1>0, <1>6 DEF Fail, Restart, Leave, CacheInv, TypeOK, HistoryIsCurrent, dbVars
  <2>2. CallIsFresh'
    BY <1>0, <1>6 DEF Fail, Restart, Leave, CacheInv, TypeOK, CallIsFresh, WasRead, dbVars
  <2>3. CacheIsFresh'
    BY <1>0, <1>6 DEF Fail, Restart, Leave, CacheInv, TypeOK, CacheIsFresh, WasRead, dbVars
  <2>4. AcceptanceIsFresh' /\ RefusalIsFresh'
    BY <1>6 DEF Fail, Restart, CacheInv, AcceptanceIsFresh, RefusalIsFresh, dbVars
  <2> QED BY <2>1, <2>2, <2>3, <2>4 DEF CacheInv
<1>7. ASSUME NEW a \in Admins, Issue(a) PROVE CacheInv'
  <2>1. [killed |-> FALSE, revokedAt |-> 0, expiresAt |-> clock + Lifetime] \in Rows
    BY <1>0, CacheAssumption DEF TypeOK, Rows
  <2> QED BY <1>7, <2>1, CommitKeepsInv DEF Issue
<1>8. ASSUME NEW a \in Admins, Revoke(a) PROVE CacheInv'
  <2>1. /\ [row EXCEPT !.revokedAt = clock] \in Rows
        /\ [row EXCEPT !.revokedAt = clock].expiresAt = row.expiresAt
    BY <1>0, <1>8 DEF Revoke, TypeOK, Rows
  <2> QED BY <1>8, <2>1, CommitKeepsInv DEF Revoke
<1>9. ASSUME NEW a \in Admins, NEW e \in BOOLEAN, ToggleKillSwitch(a, e) PROVE CacheInv'
  <2>1. /\ [row EXCEPT !.killed = e] \in Rows
        /\ [row EXCEPT !.killed = e].expiresAt = row.expiresAt
    BY <1>0, <1>9 DEF ToggleKillSwitch, TypeOK, Rows
  <2> QED BY <1>9, <2>1, CommitKeepsInv DEF ToggleKillSwitch
<1>10. CASE Tick
  <2>0. /\ clock \in Nat /\ clock' = clock + 1
        /\ lastUsable' \in Nat /\ lastUnusable' \in Nat
        /\ lastUsable' >= lastUsable /\ lastUnusable' >= lastUnusable
        /\ UNCHANGED <<row, cache, pc, start, seen, verdict>>
    BY <1>0, <1>10 DEF Tick, CacheInv, TypeOK, HistoryIsCurrent, callVars
  <2>1. TypeOK'
    BY <1>0, <2>0 DEF TypeOK
  <2>2. HistoryIsCurrent'
    BY <1>0, <1>10 DEF Tick, CacheInv, TypeOK, HistoryIsCurrent
  <2>3. ASSUME NEW s, NEW t \in Nat, WasRead(s, t) PROVE WasRead(s, t)'
    BY <1>0, <2>0, <2>3, CacheAssumption DEF TypeOK, WasRead
  <2>4. CallIsFresh'
    BY <1>0, <2>0, <2>3, CacheAssumption DEF CacheInv, TypeOK, CallIsFresh
  <2>5. CacheIsFresh'
    BY <1>0, <2>0, <2>3 DEF CacheInv, TypeOK, CacheIsFresh, Entries
  <2>6. AcceptanceIsFresh' /\ RefusalIsFresh'
    BY <1>0, <2>0, CacheAssumption DEF CacheInv, TypeOK, AcceptanceIsFresh, RefusalIsFresh
  <2> QED BY <2>1, <2>2, <2>4, <2>5, <2>6 DEF CacheInv
<1>11. CASE UNCHANGED vars
  BY <1>11 DEF vars, CacheInv, TypeOK, HistoryIsCurrent, CallIsFresh,
     CacheIsFresh, WasRead, AcceptanceIsFresh, RefusalIsFresh
<1> QED BY <1>1, <1>2, <1>3, <1>4, <1>5, <1>6, <1>7, <1>8, <1>9, <1>10, <1>11 DEF Next

\* The invariant holds in every reachable state.
LEMMA CacheInvariance == Spec => []CacheInv
  BY InitCacheInv, NextCacheInv, PTL DEF Spec

\* Type correctness of every reachable state.
THEOREM TypeCorrect == Spec => []TypeOK
<1>1. CacheInv => TypeOK
  BY DEF CacheInv
<1> QED BY <1>1, CacheInvariance, PTL

\* However the verifiers, the administrators and the clock interleave, no
\* token is accepted on the strength of a passport revoked or killed for TTL
\* or longer.
THEOREM AcceptancesAreFresh == Spec => []AcceptanceIsFresh
<1>1. CacheInv => AcceptanceIsFresh
  BY DEF CacheInv
<1> QED BY <1>1, CacheInvariance, PTL

\* And none is refused for a kill switch turned off for TTL or longer.
THEOREM RefusalsAreFresh == Spec => []RefusalIsFresh
<1>1. CacheInv => RefusalIsFresh
  BY DEF CacheInv
<1> QED BY <1>1, CacheInvariance, PTL

\* Every verdict, then, is at most TTL old.
THEOREM VerdictsStayFresh == Spec => []VerdictsAreFresh
<1>1. CacheInv => VerdictsAreFresh
  BY DEF CacheInv, VerdictsAreFresh
<1> QED BY <1>1, CacheInvariance, PTL

\* A revoked passport stays unusable: no handler clears revoked_at.
THEOREM RevokedForEver == Spec => RevocationIsFinal
<1>1. ASSUME CacheInv, [Next]_vars, row # None /\ row.revokedAt # 0
      PROVE  ~Usable(row')
  <2>0. row \in Rows /\ clock \in Nat \ {0} /\ None \notin Rows
    BY <1>1, CacheAssumption DEF CacheInv, TypeOK
  <2>1. ASSUME UNCHANGED row PROVE ~Usable(row')
    BY <1>1, <2>1 DEF Usable
  <2>2. ASSUME NEW a \in Admins, Revoke(a) PROVE ~Usable(row')
    BY <2>0, <2>2 DEF Revoke, Commit, Usable, Rows
  <2>3. ASSUME NEW a \in Admins, NEW e \in BOOLEAN, ToggleKillSwitch(a, e)
        PROVE  ~Usable(row')
    BY <1>1, <2>0, <2>3 DEF ToggleKillSwitch, Commit, Usable, Rows
  <2>4. ASSUME NEW a \in Admins PROVE ~Issue(a)
    BY <1>1 DEF Issue
  <2>5. ASSUME NEW p \in Verifiers,
               \/ Hit(p) \/ Miss(p) \/ Select(p) \/ Refresh(p) \/ Fail(p)
               \/ Store(p) \/ Restart(p)
        PROVE  UNCHANGED row
    BY <2>5 DEF Hit, Miss, Select, Refresh, Fail, Store, Restart, dbVars
  <2>6. CASE Tick \/ UNCHANGED vars
    BY <2>1, <2>6 DEF Tick, vars
  <2> QED BY <1>1, <2>1, <2>2, <2>3, <2>4, <2>5, <2>6 DEF Next
<1> QED BY <1>1, CacheInvariance, PTL DEF Spec, RevocationIsFinal

=============================================================================
