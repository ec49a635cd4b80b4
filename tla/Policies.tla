------------------------------ MODULE Policies ------------------------------
(* The policies an action must pass (src/axiom/policy/): loading and reloading  *)
(* them, and evaluating them rule by rule, in a process whose requests run in   *)
(* threads.  An evaluator that starts clears the history of actions which the   *)
(* whole process shares.  PolicyGrammar says how a condition is read.           *)
(*                                                                            *)
(* This is the Studio, whose threads run skills and reload policies; the MCP     *)
(* server is such a process with one thread, which starts and never reloads.    *)
(*                                                                            *)
(* Definitions that nothing uses, each before the one it could stand in for,    *)
(* are ways the code could go wrong.                                           *)
EXTENDS Naturals, Sequences

CONSTANTS
  Threads,      \* requests handled at once
  Versions,     \* contents the policy directory may have
  Readable,     \* those of them whose rules can all be read
  Rules,        \* of each version: its rules, the watchdog's first
  Asks(_, _),   \* whether a condition comes as far as rate.same_action_within
                \* on the facts of a request
  Holds(_, _, _),  \* whether it holds on them, if the action is a repeat or not
  Facts,        \* what a request may find: the value of each name
  Subjects,     \* agent, intent and target of an action, together
  Window,       \* seconds of rate.same_action_within
  MaxTime       \* bound: the clock

ASSUME BoundsAssumption == Window \in Nat /\ MaxTime \in Nat
ASSUME RulesAssumption ==
  /\ Readable \subseteq Versions /\ {"none", "demo", "off"} \cap Versions = {}
  /\ \A v \in Versions :
       Rules[v] # <<>> /\ Rules[v] \in Seq({Rules[v][i] : i \in DOMAIN Rules[v]})

VARIABLES
  env,         \* AXIOM_ENV
  disk,        \* the version in the policy directory
  cache,       \* what the lru_cache of load_policies holds
  engine,      \* app.state.policy_evaluator: a version, "demo", or "off"
  rate,        \* _RATE_HISTORY
  now, th,
  counted      \* seen: the actions counted since the history was last cleared,
               \* but for those that a thread's stale copy of it overwrote

policyVars == <<env, disk, cache, engine, rate, now, th, counted>>

NoJob == [kind |-> "none"]
At(t, kind, step) == th[t].kind = kind /\ th[t].step = step
Reloads == {t \in Threads : th[t].kind = "reload"}
Cleared == [k \in Subjects |-> {}]

PolicyInit ==
  /\ env \in {"production", "development"}
  /\ disk \in Versions
  /\ cache = "none" /\ engine = "off"
  /\ rate = Cleared /\ counted = Cleared /\ now = 0
  /\ th = [t \in Threads |-> NoJob]

PolicyTypeOK ==
  /\ disk \in Versions /\ cache \in Versions \cup {"none"}
  /\ engine \in Versions \cup {"demo", "off"}
  /\ {rate, counted} \subseteq [Subjects -> SUBSET (0..MaxTime)]
  /\ \A t \in Threads : th[t] # NoJob => engine # "off"

\* Somebody writes to the policy directory.
Edit(v) ==
  /\ disk' = v
  /\ th' = [t \in Threads |->
              IF th[t].kind = "reload" THEN [th[t] EXCEPT !.seen = @ \cup {v}] ELSE th[t]]
  /\ UNCHANGED <<env, cache, engine, rate, now, counted>>

TimePasses ==
  /\ now < MaxTime /\ now' = now + 1
  /\ UNCHANGED <<env, disk, cache, engine, rate, th, counted>>

\* The evaluator made from what was read: without rules there is none in
\* production, and elsewhere one that makes decisions up.
FallbackAnywhere(v) == IF v \in Readable THEN v ELSE "demo"
Fallback(v) ==
  CASE v \in Readable -> v
    [] v \notin Readable /\ env = "production" -> "off"
    [] v \notin Readable /\ env # "production" -> "demo"

Start ==
  /\ engine = "off" /\ Fallback(disk) # "off"
  /\ engine' = Fallback(disk)
  /\ cache' = IF disk \in Readable THEN disk ELSE "none"
  /\ UNCHANGED <<env, disk, rate, now, th, counted>>

Stop ==
  /\ engine # "off" /\ engine' = "off"
  /\ cache' = "none" /\ rate' = Cleared /\ counted' = Cleared
  /\ th' = [t \in Threads |-> NoJob]
  /\ UNCHANGED <<env, disk, now>>

-----------------------------------------------------------------------------
(* POST /policies/reload: the cache is cleared and filled, and then read for    *)
(* the new evaluator (n = 2).  A load that another one overtook keeps what it    *)
(* has read and leaves the cache as it is.                                   *)

NewReload ==
  [kind |-> "reload", step |-> "load", n |-> 1, held |-> "none", seen |-> {disk},
   alone |-> Reloads = {}]

\* The reloads that run are no longer alone.
Overlapped ==
  [u \in Threads |-> IF u \in Reloads THEN [th[u] EXCEPT !.alone = FALSE] ELSE th[u]]

BeginReloadUncleared(t) ==
  /\ engine # "off" /\ th[t] = NoJob
  /\ th' = [Overlapped EXCEPT ![t] = NewReload]
  /\ UNCHANGED <<env, disk, cache, engine, rate, now, counted>>

BeginReload(t) ==
  /\ engine # "off" /\ th[t] = NoJob
  /\ cache' = "none"
  /\ th' = [Overlapped EXCEPT ![t] = NewReload]
  /\ UNCHANGED <<env, disk, engine, rate, now, counted>>

\* What follows a load.
Loaded(n) == IF n = 1 THEN "load" ELSE "build"

LoadCached(t) ==
  /\ At(t, "reload", "load") /\ cache # "none"
  /\ th' = [th EXCEPT ![t].held = cache, ![t].step = Loaded(th[t].n), ![t].n = 2]
  /\ UNCHANGED <<env, disk, cache, engine, rate, now, counted>>

LoadFiles(t) ==
  /\ At(t, "reload", "load") /\ cache = "none" /\ disk \in Readable
  /\ th' = [th EXCEPT ![t].held = disk, ![t].step = "keep"]
  /\ UNCHANGED <<env, disk, cache, engine, rate, now, counted>>

Keep(t) ==
  /\ At(t, "reload", "keep")
  /\ cache' = IF cache = "none" THEN th[t].held ELSE cache
  /\ th' = [th EXCEPT ![t].step = Loaded(th[t].n), ![t].n = 2]
  /\ UNCHANGED <<env, disk, engine, rate, now, counted>>

\* The first load's failure is the request's; the second one's is that of
\* get_policy_evaluator, which ends a production process.
LoadFails(t) ==
  /\ At(t, "reload", "load") /\ cache = "none" /\ disk \notin Readable
  /\ engine' = IF th[t].n = 2 THEN Fallback(disk) ELSE engine
  /\ th' = IF engine' = "off" THEN [u \in Threads |-> NoJob] ELSE [th EXCEPT ![t] = NoJob]
  /\ rate' = IF engine' = "off" THEN Cleared ELSE rate
  /\ counted' = IF engine' = "off" THEN Cleared ELSE counted
  /\ UNCHANGED <<env, disk, cache, now>>

\* RealPolicyEvaluator.__init__ clears the history, then the evaluator is put
\* in place.
Build(t) ==
  /\ At(t, "reload", "build")
  /\ rate' = Cleared /\ counted' = Cleared
  /\ th' = [th EXCEPT ![t].step = "install"]
  /\ UNCHANGED <<env, disk, cache, engine, now>>

Install(t) ==
  /\ At(t, "reload", "install")
  /\ engine' = th[t].held
  /\ th' = [th EXCEPT ![t] = NoJob]
  /\ UNCHANGED <<env, disk, cache, rate, now, counted>>

\* GET /policies/active builds an evaluator for each rule in force.
Probe ==
  /\ engine \in Versions
  /\ rate' = Cleared /\ counted' = Cleared
  /\ UNCHANGED <<env, disk, cache, engine, now, th>>

-----------------------------------------------------------------------------
(* A request evaluated against the rules that were in force when it began, and *)
(* at the time it began, one rule after the other.                            *)

Begin(t, k, f) ==
  /\ engine \in Versions /\ th[t] = NoJob
  /\ th' = [th EXCEPT ![t] =
       [kind |-> "evaluate", step |-> "rule", n |-> 1, rules |-> engine, k |-> k,
        f |-> f, ts |-> now, before |-> {}, due |-> FALSE, mode |-> "none"]]
  /\ UNCHANGED <<env, disk, cache, engine, rate, now, counted>>

Rule(t) == Rules[th[t].rules][th[t].n]
RecentShort(h, ts) == {s \in h : s + Window > ts}
Recent(h, ts) == {s \in h : s + Window >= ts}

\* After a rule: its decision, or that of the next one.
Passed(t, matched, job) ==
  CASE matched -> [job EXCEPT !.step = "decided", !.mode = Rule(t).then]
    [] ~matched /\ th[t].n < Len(Rules[th[t].rules]) ->
         [job EXCEPT !.step = "rule", !.n = @ + 1]
    [] OTHER -> [job EXCEPT !.step = "decided", !.mode = "allow"]

Says(t, repeated) == Holds(Rule(t).when, th[t].f, repeated)

PassRule(t) ==
  /\ At(t, "evaluate", "rule") /\ ~ Asks(Rule(t).when, th[t].f)
  /\ th' = [th EXCEPT ![t] = Passed(t, Says(t, FALSE), @)]
  /\ UNCHANGED <<env, disk, cache, engine, rate, now, counted>>

\* rate.same_action_within reads the history of the action, and then puts back
\* what is recent of it together with this request.
ReadRate(t) ==
  /\ At(t, "evaluate", "rule") /\ Asks(Rule(t).when, th[t].f)
  /\ th' = [th EXCEPT ![t].step = "count", ![t].before = rate[th[t].k],
                      ![t].due = \E s \in counted[th[t].k] : s + Window >= th[t].ts]
  /\ UNCHANGED <<env, disk, cache, engine, rate, now, counted>>

Count(t) ==
  LET k == th[t].k
      recent == Recent(th[t].before, th[t].ts)
  IN  /\ At(t, "evaluate", "count")
      /\ rate' = [rate EXCEPT ![k] = recent \cup {th[t].ts}]
      /\ counted' = [counted EXCEPT ![k] =
            (IF rate[k] = th[t].before THEN @ ELSE {}) \cup {th[t].ts}]
      /\ th' = [th EXCEPT ![t] = Passed(t, Says(t, recent # {}), @)]
      /\ UNCHANGED <<env, disk, cache, engine, now>>

Decide(t) ==
  /\ At(t, "evaluate", "decided")
  /\ th' = [th EXCEPT ![t] = NoJob]
  /\ UNCHANGED <<env, disk, cache, engine, rate, now, counted>>

PolicyNext ==
  \/ \E v \in Versions : Edit(v)
  \/ TimePasses \/ Start \/ Stop \/ Probe
  \/ \E t \in Threads :
       \/ BeginReload(t) \/ LoadCached(t) \/ LoadFiles(t) \/ Keep(t) \/ LoadFails(t)
       \/ Build(t) \/ Install(t)
       \/ \E k \in Subjects, f \in Facts : Begin(t, k, f)
       \/ PassRule(t) \/ ReadRate(t) \/ Count(t) \/ Decide(t)

PolicySpec == PolicyInit /\ [][PolicyNext]_policyVars

-----------------------------------------------------------------------------
\* Whatever rule of version v asks for repeats does not let one pass.
DeniesRepeats(v) ==
  \A i \in DOMAIN Rules[v], f \in Facts :
    Asks(Rules[v][i].when, f) =>
      Holds(Rules[v][i].when, f, TRUE) /\ Rules[v][i].then # "allow"

(* Rules that deny repeats let none pass: a request that came within the window *)
(* of a counted one of the same agent, intent and target is not allowed, unless *)
(* the history was cleared between them or a thread put back a stale copy of it. *)
RepeatsAreCaught ==
  \A t \in Threads :
    At(t, "evaluate", "decided") /\ th[t].due /\ DeniesRepeats(th[t].rules)
      => th[t].mode # "allow"

(* A reload that no other one overlaps puts rules in force which were in the    *)
(* directory while it ran, and which could all be read.                       *)
ReloadTakesEffect ==
  \A t \in Reloads :
    th[t].step = "install" /\ th[t].alone
      => th[t].held \in th[t].seen /\ th[t].held \in Readable

(* A production process is never governed by the demonstration's evaluator,     *)
(* whatever its directory held when it started or at any reload.              *)
ProductionIsGoverned ==
  /\ PolicyTypeOK
  /\ env = "production" => engine # "demo"
=============================================================================
