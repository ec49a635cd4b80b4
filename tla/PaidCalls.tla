------------------------------ MODULE PaidCalls ------------------------------
(***************************************************************************)
(* Rate limit, daily token budget and concurrency cap of the Studio's paid *)
(* language-model endpoints (src/axiom/studio/rate_limit.py and the routes *)
(* that use it), for one limiter key.                                      *)
(*                                                                         *)
(* Requests run on threads of one process.  Each reads the clock before it *)
(* takes the limiter's lock, so the time it brings may be old.  "ask"      *)
(* replaces its estimate by the real usage when the provider has answered; *)
(* "skill" holds a permit of the semaphore while it runs; "search" does    *)
(* neither.  Retry-After and the metrics are left out.  The definitions    *)
(* marked "Fault" are not part of the specification: each is a way its     *)
(* code could go wrong that a property must notice.                        *)
(***************************************************************************)
EXTENDS Integers, Sequences, FiniteSets, FiniteSetsExt

CONSTANTS
  Requests,     \* the requests of one key
  Estimates,    \* requested token counts
  MaxUsage,     \* bound on the tokens a call really uses
  RatePerMin,   \* requests admitted per window
  DailyCap,     \* tokens per day
  Permits,      \* AXIOM_LLM_MAX_CONCURRENCY
  Window,       \* _RATE_WINDOW_SECONDS
  Day,          \* _DAY_SECONDS
  MaxTime,      \* bound on the clock
  NoEntry       \* the key has no entry yet

RequestKinds == {"ask", "skill", "search"}

ASSUME LimiterAssumption ==
  /\ Estimates \subseteq Nat
  /\ {MaxUsage, RatePerMin, DailyCap, Permits, Window, Day, MaxTime} \subseteq Nat
  /\ 0 < Day /\ Window <= Day

\* A key without an entry is not one with zeros.
ASSUME EntryAssumption ==
  NoEntry \notin [start : Nat, count : Nat] \cup [start : Nat, charged : Nat]

VARIABLES
  time,      \* time.time()
  windows,   \* AskRateLimiter._windows[key]
  tokens,    \* AskRateLimiter._tokens[key]
  permits,   \* free permits of the key's semaphore
  waiting,   \* requests waiting for a permit, in order
  request,   \* each request: its kind, estimate, clock reading and step
  today,     \* history: requests admitted since the day's total was reset
  charge,    \* history: what each request is known to cost
  refunds,   \* history: tokens handed back since then by older requests
  excess     \* history: tokens added since then by older requests

limiterVars == <<windows, tokens>>
semVars == <<permits, waiting>>
histVars == <<today, charge, refunds, excess>>
paidVars == <<time, limiterVars, semVars, request, histVars>>

Done(r) == request' = [request EXCEPT ![r].step = "done"]

-----------------------------------------------------------------------------
(* AskRateLimiter.                                                         *)

\* A request reaches its route and reads the clock.
Arrive(r, kind, estimate) ==
  /\ request[r].step = "new"
  /\ request' = [request EXCEPT ![r] =
       [kind |-> kind, estimate |-> estimate, actual |-> 0, now |-> time,
        step |-> "check"]]
  /\ UNCHANGED <<time, limiterVars, semVars, histVars>>

\* The current window, or the current day, as a request at time now finds it.
CurrentWindow(now) ==
  IF windows = NoEntry \/ now - windows.start >= Window
  THEN [start |-> now, count |-> 0] ELSE windows

CurrentDay(now) ==
  IF tokens = NoEntry \/ now - tokens.start >= Day
  THEN [start |-> now, charged |-> 0] ELSE tokens

RateAllows(r) == CurrentWindow(request[r].now).count + 1 <= RatePerMin

BudgetAllows(r) ==
  CurrentDay(request[r].now).charged + request[r].estimate <= DailyCap

\* The day's total is set to d; the history starts again with a new day.
SetDay(d, admitted) ==
  /\ tokens' = d
  /\ today' = admitted \cup (IF tokens = NoEntry \/ d.start # tokens.start
                             THEN {} ELSE today)

NewDay(d) == tokens = NoEntry \/ d.start # tokens.start

\* check: under the lock, admit and charge the estimate in both totals ...
Admit(r) ==
  LET q == request[r]
      w == CurrentWindow(q.now)
      d == CurrentDay(q.now)
  IN
  /\ q.step = "check"
  /\ RateAllows(r) /\ BudgetAllows(r)
  /\ windows' = [w EXCEPT !.count = @ + 1]
  /\ SetDay([d EXCEPT !.charged = @ + q.estimate], {r})
  /\ charge' = [charge EXCEPT ![r] = q.estimate]
  /\ refunds' = IF NewDay(d) THEN 0 ELSE refunds
  /\ excess' = IF NewDay(d) THEN 0 ELSE excess
  /\ request' = [request EXCEPT ![r].step = IF q.kind = "skill" THEN "wait" ELSE "call"]
  /\ waiting' = IF q.kind = "skill" THEN Append(waiting, r) ELSE waiting
  /\ UNCHANGED <<time, permits>>

\* ... or answer 429 and charge nothing.
Refuse(r) ==
  /\ request[r].step = "check"
  /\ ~(RateAllows(r) /\ BudgetAllows(r))
  /\ Done(r)
  /\ UNCHANGED <<time, limiterVars, semVars, histVars>>

\* Fault: the estimate stays charged beside the real usage.
ReconciledTwice(d, q) == [d EXCEPT !.charged = @ + q.actual]

\* reconcile: the estimate is swapped for the real usage, never below zero.
Reconciled(d, q) ==
  [d EXCEPT !.charged = IF @ + q.actual >= q.estimate
                        THEN @ + q.actual - q.estimate ELSE 0]

Reconcile(r) ==
  LET q == request[r]
      d == CurrentDay(q.now)
      delta == q.actual - q.estimate
      straggler == NewDay(d) \/ r \notin today
      oldRefunds == IF NewDay(d) THEN 0 ELSE refunds
      oldExcess == IF NewDay(d) THEN 0 ELSE excess
  IN
  /\ q.step = "reconcile"
  /\ \/ /\ delta = 0
        /\ UNCHANGED <<tokens, histVars>>
     \/ /\ delta # 0
        /\ SetDay(Reconciled(d, q), {})
        /\ charge' = [charge EXCEPT ![r] = q.actual]
        /\ refunds' = IF straggler /\ delta < 0 THEN oldRefunds - delta ELSE oldRefunds
        /\ excess' = IF straggler /\ delta > 0 THEN oldExcess + delta ELSE oldExcess
  /\ Done(r)
  /\ UNCHANGED <<time, windows, semVars>>

-----------------------------------------------------------------------------
(* The call itself.                                                        *)

\* asyncio.Semaphore: the first waiter takes a free permit.
Acquire(r) ==
  /\ permits > 0
  /\ waiting # <<>> /\ Head(waiting) = r
  /\ waiting' = Tail(waiting)
  /\ permits' = permits - 1
  /\ request' = [request EXCEPT ![r].step = "call"]
  /\ UNCHANGED <<time, limiterVars, histVars>>

Release(r) == permits' = permits + (IF request[r].kind = "skill" THEN 1 ELSE 0)

\* The provider answers and reports what the call used; an ask goes on to
\* reconcile, reading the clock again.
Answer(r, used) ==
  /\ request[r].step = "call"
  /\ request' = [request EXCEPT
       ![r].actual = used, ![r].now = time,
       ![r].step = IF request[r].kind = "ask" THEN "reconcile" ELSE "done"]
  /\ Release(r)
  /\ UNCHANGED <<time, limiterVars, waiting, histVars>>

\* Fault: a failing skill run keeps its permit.
CallRaisesHolding(r) ==
  /\ request[r].step = "call"
  /\ Done(r)
  /\ UNCHANGED <<time, limiterVars, semVars, histVars>>

\* The call raises: its estimate stays charged.
CallRaises(r) ==
  /\ request[r].step = "call"
  /\ Done(r)
  /\ Release(r)
  /\ UNCHANGED <<time, limiterVars, waiting, histVars>>

TimePasses ==
  /\ time < MaxTime
  /\ time' = time + 1
  /\ UNCHANGED <<limiterVars, semVars, request, histVars>>

PaidInit ==
  /\ time = 0
  /\ windows = NoEntry /\ tokens = NoEntry
  /\ permits = Permits /\ waiting = <<>>
  /\ request = [r \in Requests |->
       [kind |-> "ask", estimate |-> 0, actual |-> 0, now |-> 0, step |-> "new"]]
  /\ today = {} /\ refunds = 0 /\ excess = 0
  /\ charge = [r \in Requests |-> 0]

PaidNext ==
  \/ \E r \in Requests :
       \/ \E kind \in RequestKinds, e \in Estimates : Arrive(r, kind, e)
       \/ Admit(r) \/ Refuse(r) \/ Reconcile(r) \/ Acquire(r) \/ CallRaises(r)
       \/ \E used \in 0..MaxUsage : Answer(r, used)
  \/ TimePasses

PaidSpec == PaidInit /\ [][PaidNext]_paidVars

\* A request that has arrived keeps running: locks are held for a few
\* statements, permits are handed out in order, and every provider call has
\* a timeout.
PaidFairness ==
  \A r \in Requests :
    /\ WF_paidVars(Admit(r) \/ Refuse(r))
    /\ WF_paidVars(Acquire(r))
    /\ WF_paidVars(CallRaises(r) \/ \E used \in 0..MaxUsage : Answer(r, used))
    /\ WF_paidVars(Reconcile(r))

PaidFairSpec == PaidSpec /\ PaidFairness

-----------------------------------------------------------------------------
(* Correctness.                                                            *)

Steps == {"new", "check", "wait", "call", "reconcile", "done"}

\* Shapes; a window never counts more than the limit, and a request waits for
\* a permit exactly when it is queued.
PaidTypeOK ==
  /\ time \in Nat
  /\ windows \in [start: Nat, count: 0..RatePerMin] \cup {NoEntry}
  /\ tokens \in [start: Nat, charged: Nat] \cup {NoEntry}
  /\ permits \in 0..Permits
  /\ waiting \in Seq(Requests)
  /\ request \in [Requests -> [kind: RequestKinds, estimate: Nat, actual: Nat, now: Nat,
                               step: Steps]]
  /\ \A r \in Requests :
       request[r].step = "wait" <=> \E i \in DOMAIN waiting : waiting[i] = r
  /\ today \subseteq Requests
  /\ charge \in [Requests -> Nat]
  /\ refunds \in Nat /\ excess \in Nat

Charged == IF tokens = NoEntry THEN 0 ELSE tokens.charged

\* What the requests admitted today are known to cost.
CostToday == MapThenSumSet(LAMBDA r : charge[r], today)

\* The day's total is the cost of the day's requests, estimated or real, up
\* to what requests admitted before the day began gave back or took when
\* they were reconciled: concurrent admissions and reconciliations, in any
\* order and with old clock readings, lose and double nothing else.
OnlyStragglersDistort ==
  /\ Charged + refunds >= CostToday
  /\ Charged <= CostToday + excess

\* Skill runs in flight hold exactly the permits that are not free: never
\* more than Permits run at once, and no failure loses a permit.
PermitsAccountForRuns ==
  /\ PaidTypeOK
  /\ permits + Cardinality({r \in Requests :
              request[r].kind = "skill" /\ request[r].step = "call"}) = Permits

\* Every request that arrives is answered.
EveryRequestEnds ==
  \A r \in Requests : request[r].step = "check" ~> request[r].step = "done"

=============================================================================
