---------------------------- MODULE PassportCache ----------------------------
(***************************************************************************)
(* Agent passports and their verification cache                            *)
(* (src/axiom/govern/passports.py).  MCP server processes verify the       *)
(* bearer token of every governed tool call against a cache of their own,  *)
(* filled from the database and trusted for TTL; the Studio issues,        *)
(* revokes and kills passports in the database and clears the cache of its *)
(* own process, which no MCP process can see.                              *)
(*                                                                         *)
(* One passport and its one credential stand for all: neither the cache    *)
(* nor the table relates two passports.  The scopes and the owner are left *)
(* out, and so are the signature checks, which never fail here: every      *)
(* change re-signs the row it commits.  time.monotonic and utcnow are one  *)
(* clock.  The definitions marked "Fault" are not part of the              *)
(* specification: each is a way its code could go wrong that a property    *)
(* must notice.                                                            *)
(***************************************************************************)
EXTENDS Naturals

CONSTANTS
  Verifiers,  \* processes that verify tokens (MCP servers)
  Admins,     \* processes that issue, revoke and kill (the Studio)
  TTL,        \* VERIFY_CACHE_TTL_SECONDS
  Lifetime,   \* ttl_hours of the passport, in clock units
  MaxClock,   \* bound on the clock
  None        \* no row, no cache entry, no verdict

Procs == Verifiers \cup Admins

Rows == [killed: BOOLEAN, revokedAt: Nat, expiresAt: Nat]

Entries == [until: Nat, row: Rows]

ASSUME CacheAssumption ==
  /\ TTL \in Nat \ {0}
  /\ Lifetime \in Nat \ {0}
  /\ MaxClock \in Nat
  /\ None \notin Rows
  /\ None \notin Entries

VARIABLES
  row,          \* the agent_passports row, None before it is issued
  clock,        \* now; 0 in revokedAt stands for NULL
  cache,        \* each process's _VERIFY_CACHE entry for the token
  pc,           \* where each verifier is inside verify_passport
  start,        \* now_monotonic of the call a verifier is in
  seen,         \* the row a verifier's session holds
  verdict,      \* history: the answer of each verifier's last call
  lastUsable,   \* history: the last instant the row was usable
  lastUnusable  \* history: the last instant it was missing or unusable

dbVars == <<row, lastUsable, lastUnusable>>
callVars == <<cache, pc, start, seen, verdict>>
vars == <<row, clock, cache, pc, start, seen, verdict, lastUsable, lastUnusable>>

\* Neither revoked nor killed.
Usable(r) == r # None /\ r.revokedAt = 0 /\ ~r.killed

\* _validate_passport: expiry is checked before revocation and kill switch.
Validates(r) ==
  IF clock >= r.expiresAt THEN "expired"
  ELSE IF Usable(r) THEN "accepted"
  ELSE "refused"

\* The history of the row's state: r is the row from now on.
Witness(r) ==
  IF Usable(r)
  THEN lastUsable' = clock /\ UNCHANGED lastUnusable
  ELSE lastUnusable' = clock /\ UNCHANGED lastUsable

-----------------------------------------------------------------------------
(* verify_passport.                                                        *)

\* The call is over: its locals are gone.
Leave(p) ==
  /\ pc' = [pc EXCEPT ![p] = "idle"]
  /\ start' = [start EXCEPT ![p] = 0]
  /\ seen' = [seen EXCEPT ![p] = None]

\* The call ends with this answer.
Answer(p, a, since) ==
  /\ verdict' = [verdict EXCEPT ![p] = [answer |-> a, since |-> since]]
  /\ Leave(p)

Fresh(p) == cache[p] # None /\ cache[p].until > clock

\* The cache answers: the cached row is validated again.
Hit(p) ==
  /\ pc[p] = "idle"
  /\ Fresh(p)
  /\ Answer(p, Validates(cache[p].row), clock)
  /\ UNCHANGED <<dbVars, clock, cache>>

\* It does not: note the time and open a session.
Miss(p) ==
  /\ pc[p] = "idle"
  /\ ~Fresh(p)
  /\ start' = [start EXCEPT ![p] = clock]
  /\ pc' = [pc EXCEPT ![p] = "select"]
  /\ UNCHANGED <<dbVars, clock, cache, seen, verdict>>

\* Read the credential and its passport, and validate.
Select(p) ==
  /\ pc[p] = "select"
  /\ \/ /\ row = None
        /\ Answer(p, "unknown", start[p])
     \/ /\ row # None
        /\ Validates(row) # "accepted"
        /\ Answer(p, Validates(row), start[p])
     \/ /\ row # None
        /\ Validates(row) = "accepted"
        /\ seen' = [seen EXCEPT ![p] = row]
        /\ pc' = [pc EXCEPT ![p] = "commit"]
        /\ UNCHANGED <<start, verdict>>
  /\ UNCHANGED <<dbVars, clock, cache>>

\* Count the presentation, commit, and read the row again.
Refresh(p) ==
  /\ pc[p] = "commit"
  /\ seen' = [seen EXCEPT ![p] = row]
  /\ pc' = [pc EXCEPT ![p] = "store"]
  /\ UNCHANGED <<dbVars, clock, cache, start, verdict>>

\* The commit finds the database locked: the call raises.
Fail(p) ==
  /\ pc[p] = "commit"
  /\ Leave(p)
  /\ UNCHANGED <<dbVars, clock, cache, verdict>>

\* Fault: the entry's lifetime runs from the moment it is stored.
StoreFromNow(p) ==
  /\ pc[p] = "store"
  /\ cache' = [cache EXCEPT ![p] = [until |-> clock + TTL, row |-> seen[p]]]
  /\ Answer(p, "accepted", start[p])
  /\ UNCHANGED <<dbVars, clock>>

\* Cache the row for TTL from the start of the call, and accept.
Store(p) ==
  /\ pc[p] = "store"
  /\ cache' = [cache EXCEPT ![p] = [until |-> start[p] + TTL, row |-> seen[p]]]
  /\ Answer(p, "accepted", start[p])
  /\ UNCHANGED <<dbVars, clock>>

\* A verifier is restarted, with an empty cache.
Restart(p) ==
  /\ pc[p] # "idle" \/ cache[p] # None
  /\ Leave(p)
  /\ cache' = [cache EXCEPT ![p] = None]
  /\ UNCHANGED <<dbVars, clock, verdict>>

-----------------------------------------------------------------------------
(* Administration: each handler commits, then clears its process's cache.  *)

Commit(a, r) ==
  /\ row' = r
  /\ Witness(r)
  /\ cache' = [cache EXCEPT ![a] = None]
  /\ UNCHANGED <<clock, pc, start, seen, verdict>>

\* _issue_passport_with_session.
Issue(a) ==
  /\ row = None
  /\ Commit(a, [killed |-> FALSE, revokedAt |-> 0, expiresAt |-> clock + Lifetime])

\* revoke_passport.
Revoke(a) ==
  /\ row # None
  /\ Commit(a, [row EXCEPT !.revokedAt = clock])

\* Fault: switching the kill switch off also lifts a revocation.
ToggleReinstating(a, enabled) ==
  /\ row # None
  /\ Commit(a, [row EXCEPT !.killed = enabled,
                           !.revokedAt = IF enabled THEN @ ELSE 0])

\* toggle_kill_switch.
ToggleKillSwitch(a, enabled) ==
  /\ row # None
  /\ Commit(a, [row EXCEPT !.killed = enabled])

\* Time passes.
Tick ==
  /\ clock < MaxClock
  /\ clock' = clock + 1
  /\ IF Usable(row)
     THEN lastUsable' = clock + 1 /\ UNCHANGED lastUnusable
     ELSE lastUnusable' = clock + 1 /\ UNCHANGED lastUsable
  /\ UNCHANGED <<row, callVars>>

Init ==
  /\ row = None
  /\ clock = 1
  /\ cache = [p \in Procs |-> None]
  /\ pc = [p \in Verifiers |-> "idle"]
  /\ start = [p \in Verifiers |-> 0]
  /\ seen = [p \in Verifiers |-> None]
  /\ verdict = [p \in Verifiers |-> None]
  /\ lastUsable = 0
  /\ lastUnusable = 1

Next ==
  \/ \E p \in Verifiers :
       \/ Hit(p) \/ Miss(p) \/ Select(p) \/ Refresh(p) \/ Fail(p) \/ Store(p)
       \/ Restart(p)
  \/ \E a \in Admins :
       \/ Issue(a) \/ Revoke(a)
       \/ \E enabled \in BOOLEAN : ToggleKillSwitch(a, enabled)
  \/ Tick

Spec == Init /\ [][Next]_vars

-----------------------------------------------------------------------------
(* Correctness.                                                            *)

Answers == {"accepted", "refused", "expired", "unknown"}

\* Shapes, and that a verifier holds a row exactly where it uses one.
TypeOK ==
  /\ row \in Rows \cup {None}
  /\ clock \in Nat \ {0}
  /\ cache \in [Procs -> Entries \cup {None}]
  /\ pc \in [Verifiers -> {"idle", "select", "commit", "store"}]
  /\ start \in [Verifiers -> Nat]
  /\ seen \in [Verifiers -> Rows \cup {None}]
  /\ \A p \in Verifiers : pc[p] \in {"commit", "store"} => seen[p] # None /\ row # None
  /\ verdict \in [Verifiers -> [answer: Answers, since: Nat] \cup {None}]
  /\ lastUsable \in Nat
  /\ lastUnusable \in Nat

\* A verifier that accepts a token does so on the strength of a passport that
\* was neither revoked nor killed less than TTL before the call began, and
\* that had not expired: revocation reaches every process within TTL.
AcceptanceIsFresh ==
  \A p \in Verifiers :
    verdict[p] # None /\ verdict[p].answer = "accepted" =>
      /\ lastUsable + TTL > verdict[p].since
      /\ row # None /\ verdict[p].since < row.expiresAt

\* A verifier that refuses a token as revoked or killed does so on the
\* strength of a row that was less than TTL before: a passport whose kill
\* switch is turned off again works everywhere within TTL.
RefusalIsFresh ==
  \A p \in Verifiers :
    verdict[p] # None /\ verdict[p].answer = "refused" =>
      lastUnusable + TTL > verdict[p].since

\* No verdict is older than TTL, accepting or refusing.
VerdictsAreFresh == AcceptanceIsFresh /\ RefusalIsFresh

\* Revocation is final: a revoked row is never usable again, whatever the
\* kill switch does.
RevocationIsFinal ==
  [][row # None /\ row.revokedAt # 0 => ~Usable(row')]_vars

=============================================================================
