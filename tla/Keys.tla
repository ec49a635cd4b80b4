-------------------------------- MODULE Keys --------------------------------
(* The vault of encrypted secrets and those who keep theirs in it: provider   *)
(* keys and their verification (vault/store.py, studio/vault_api.py,           *)
(* govern/llm_keys.py), a connector's client secret and the installation that  *)
(* needs it, and its tokens, which a sync refreshes (studio/server.py,         *)
(* connectors/sync_runner.py, connectors/*/oauth.py).                          *)
(*                                                                            *)
(* A secret is replaced by deleting its row and storing another, two commits   *)
(* apart.  Requests run in threads, a sync in the event loop.  One vendor; a    *)
(* secret is a number, its generation, and 0 is no secret.                     *)
EXTENDS Integers, Sequences, FiniteSets

CONSTANTS
  Threads,    \* requests handled at once
  Loop,       \* the event loop
  Conns,      \* connections a vendor may grant, the first granted first: 1..n
  States,     \* OAuth states drawn: 1..n
  Codes,      \* how often a person may authorize one state
  Good,       \* provider keys that the provider accepts
  MaxKey,     \* bound: generations of a secret
  MaxJobs     \* bound: requests

ASSUME NumbersAssumption ==
  /\ Conns = 1..Cardinality(Conns) /\ States = 1..Cardinality(States)
  /\ Codes \in Nat /\ MaxKey \in Nat \ {0} /\ MaxJobs \in Nat
ASSUME LoopAssumption == Loop \notin Threads

VARIABLES
  vault,    \* the generation of each secret in the vault
  verdict,  \* of a provider's keys: what the last test said of it
  llm,      \* the provider's key in the table of LLM keys
  locked,   \* the master key is missing
  install,  \* the vendor's install_state: the state it awaits; 0: it awaits none
            \* (configured, callback_pending or connected)
  rows,     \* connector_states: the status of each connection
  due,      \* connections whose access token is about to expire
  grants,   \* at the vendor: the tokens it honours for each connection
  used,     \* at the vendor: codes exchanged, and for which connection
  drawn,    \* OAuth states drawn so far
  expired,  \* OAuth states past their time
  th,       \* the request each thread handles, and how far it is
  jobs,     \* requests so far
  cut,      \* history: secrets that a crash or an error left deleted or stale
  raced,    \* history: states consumed after the row had changed
  swapped   \* history: verdicts on a key that was replaced during its test

vars == <<vault, verdict, llm, locked, install, rows, due, grants, used, drawn,
          expired, th, jobs, cut, raced, swapped>>

Processes == Threads \cup {Loop}
Access(c) == <<c, "access">>
Renewal(c) == <<c, "refresh">>
Slots == {<<0, "client">>, <<0, "provider">>}
           \cup {Access(c) : c \in Conns} \cup {Renewal(c) : c \in Conns}
Client == <<0, "client">>
Provider == <<0, "provider">>

NoJob == [job |-> "none", at |-> "none", puts |-> <<>>, mid |-> FALSE, n |-> 0, held |-> 0]
At(t, job, step) == th[t].job = job /\ th[t].at = step

TypeOK ==
  /\ vault \in [Slots -> 0..MaxKey] /\ llm \in 0..MaxKey
  /\ verdict \in [{"vault", "llm"} -> {"untested", "valid", "invalid"}]
  /\ locked \in BOOLEAN
  /\ install \in {0} \cup States
  /\ rows \in [Conns -> {"none", "connected", "reauth_required"}]
  /\ due \subseteq Conns /\ used \subseteq (States \X (1..Codes)) \X Conns
  /\ DOMAIN th = Processes /\ cut \subseteq Slots /\ raced \subseteq States

Init ==
  /\ vault = [s \in Slots |-> IF s \in {Client, Provider} THEN 1 ELSE 0]
  /\ verdict = [k \in {"vault", "llm"} |-> "untested"] /\ llm = 1
  /\ locked = FALSE
  /\ install = 0
  /\ rows = [c \in Conns |-> "none"] /\ due = {}
  /\ grants = [c \in Conns |-> [access |-> 0, refresh |-> 0]]
  /\ used = {} /\ drawn = 0 /\ expired = {}
  /\ th = [t \in Processes |-> NoJob] /\ jobs = 0
  /\ cut = {} /\ raced = {} /\ swapped = {}
-----------------------------------------------------------------------------
(* Requests begin, and end.                                                  *)

Begin(t, job) ==
  /\ th[t] = NoJob /\ jobs < MaxJobs
  /\ jobs' = jobs + 1
  /\ th' = [th EXCEPT ![t] = job]

End(t) == th' = [th EXCEPT ![t] = NoJob]
Step(t, at) == th' = [th EXCEPT ![t].at = at]

(* What every secret goes through to be replaced, one after the other.  A      *)
(* provider's key that is not there is not replaced: the request ends with 404. *)
Slot(t) == Head(th[t].puts)[1]

(* A verdict is a column of the key's row, and goes and comes with it.        *)
Untested(t) ==
  [verdict EXCEPT !["vault"] = IF Slot(t) = Provider THEN "untested" ELSE @]

PutDelete(t) ==
  /\ th[t].puts # <<>> /\ ~th[t].mid
  /\ vault' = [vault EXCEPT ![Slot(t)] = 0] /\ verdict' = Untested(t)
  /\ IF th[t].job = "rotate" /\ vault[Slot(t)] = 0 THEN End(t)
     ELSE th' = [th EXCEPT ![t].mid = TRUE]
  /\ UNCHANGED <<llm, locked, install, rows, due, grants, used, drawn, expired, jobs,
                 cut, raced, swapped>>

(* Storing fails if the master key is missing, or another request has stored  *)
(* the secret meanwhile; the request fails with it.  A callback's first commit  *)
(* carries the configuration's new state with it.                             *)
StoreFailsTidily(t) ==
  /\ locked \/ vault[Slot(t)] # 0
  /\ End(t)
  /\ cut' = cut \cup {s \in {Slot(t)} : vault[s] = 0}
  /\ vault' = [vault EXCEPT ![Slot(t)] = 0] /\ verdict' = Untested(t)
  /\ UNCHANGED install
StoreFails(t) ==
  /\ locked \/ vault[Slot(t)] # 0
  /\ End(t)
  /\ cut' = cut \cup {s \in {Slot(t)} : vault[s] = 0}
  /\ UNCHANGED <<vault, verdict, install>>

PutStore(t) ==
  /\ th[t].puts # <<>> /\ th[t].mid
  /\ \/ StoreFails(t)
     \/ /\ ~locked /\ vault[Slot(t)] = 0
        /\ vault' = [vault EXCEPT ![Slot(t)] = Head(th[t].puts)[2]]
        /\ cut' = cut \ {Slot(t)}
        /\ verdict' = Untested(t)
        /\ install' = IF th[t].job = "callback" THEN 0 ELSE install
        /\ th' = [th EXCEPT ![t].puts = Tail(@), ![t].mid = FALSE]
  /\ UNCHANGED <<llm, locked, rows, due, grants, used, drawn, expired, jobs, raced,
                 swapped>>

Stored(t) == th[t].puts = <<>> /\ ~th[t].mid
-----------------------------------------------------------------------------
(* A provider's key in the vault: stored, replaced, deleted, tested.          *)

BeginRotate(t) ==
  /\ vault[Provider] < MaxKey /\ vault[Provider] # 0
  /\ Begin(t, [NoJob EXCEPT !.job = "rotate",
                            !.puts = <<<<Provider, vault[Provider] + 1>>>>])
  /\ UNCHANGED <<vault, verdict, llm, locked, install, rows, due, grants, used, drawn,
                 expired, cut, raced, swapped>>

RotateEnd(t) ==
  /\ th[t].job = "rotate" /\ Stored(t)
  /\ End(t)
  /\ UNCHANGED <<vault, verdict, llm, locked, install, rows, due, grants, used, drawn,
                 expired, jobs, cut, raced, swapped>>

(* A key that is missing may be stored.                                      *)
StoreSecret(t) ==
  /\ vault[Provider] = 0 /\ ~locked /\ jobs < MaxJobs
  /\ jobs' = jobs + 1
  /\ \E k \in 1..MaxKey : vault' = [vault EXCEPT ![Provider] = k]
  /\ verdict' = [verdict EXCEPT !["vault"] = "untested"]
  /\ cut' = cut \ {Provider}
  /\ UNCHANGED <<llm, locked, install, rows, due, grants, used, drawn, expired, th,
                 raced, swapped>>

Key(kind) == IF kind = "vault" THEN vault[Provider] ELSE llm

(* What a provider says of a key, if it says anything, and what the two tables *)
(* make of it.                                                               *)
Results(key) == {"network_error", "rate_limited",
                 IF key \in Good THEN "ok" ELSE "auth_error"}
VaultVerdict(result) ==
  IF result = "ok" THEN "valid" ELSE IF result = "auth_error" THEN "invalid" ELSE "untested"
LlmVerdict(result) == IF result = "ok" THEN "valid" ELSE "invalid"

(* The key is read, the provider asked, the verdict written to the row there   *)
(* is by then.                                                               *)
BeginTest(t, kind) ==
  /\ Key(kind) # 0 /\ ~locked
  /\ Begin(t, [NoJob EXCEPT !.job = "test", !.at = kind, !.held = Key(kind)])
  /\ UNCHANGED <<vault, verdict, llm, locked, install, rows, due, grants, used, drawn,
                 expired, cut, raced, swapped>>

EndTest(t) ==
  /\ th[t].job = "test"
  /\ IF Key(th[t].at) = 0 THEN UNCHANGED verdict
     ELSE \E result \in Results(th[t].held) :
            verdict' = [verdict EXCEPT ![th[t].at] =
              IF th[t].at = "vault" THEN VaultVerdict(result) ELSE LlmVerdict(result)]
  /\ swapped' = IF Key(th[t].at) = th[t].held THEN swapped \ {th[t].at}
                ELSE swapped \cup {th[t].at}
  /\ End(t)
  /\ UNCHANGED <<vault, llm, locked, install, rows, due, grants, used, drawn,
                 expired, jobs, cut, raced>>

(* A key in the LLM table is replaced in one commit.                          *)
SetLlmKeyOnly ==
  /\ ~locked /\ llm < MaxKey /\ jobs < MaxJobs
  /\ llm' = llm + 1 /\ jobs' = jobs + 1
  /\ UNCHANGED <<vault, verdict, locked, install, rows, due, grants, used, drawn,
                 expired, th, cut, raced, swapped>>
SetLlmKey ==
  /\ ~locked /\ llm < MaxKey /\ jobs < MaxJobs
  /\ llm' = llm + 1 /\ jobs' = jobs + 1
  /\ verdict' = [verdict EXCEPT !["llm"] = "untested"]
  /\ UNCHANGED <<vault, locked, install, rows, due, grants, used, drawn, expired, th,
                 cut, raced, swapped>>

DeleteKey(kind) ==
  /\ Key(kind) # 0 /\ jobs < MaxJobs
  /\ jobs' = jobs + 1
  /\ verdict' = [verdict EXCEPT ![kind] = "untested"]
  /\ IF kind = "vault" THEN vault' = [vault EXCEPT ![Provider] = 0] /\ UNCHANGED llm
     ELSE llm' = 0 /\ UNCHANGED vault
  /\ UNCHANGED <<locked, install, rows, due, grants, used, drawn, expired, th, cut, raced, swapped>>
-----------------------------------------------------------------------------
(* Configuration and installation of the connector.                          *)

Readable(slot) == vault[slot] # 0 /\ ~locked
Configured == Readable(Client)

(* PUT config brings the client secret; install takes it from the vault and    *)
(* puts it there again, then keeps the state it has drawn.                    *)
BeginConfigure(t) ==
  /\ ~locked \/ vault[Client] = 0
  /\ Begin(t, [NoJob EXCEPT !.job = "configure", !.puts = <<<<Client, 1>>>>])
  /\ UNCHANGED <<vault, verdict, llm, locked, install, rows, due, grants, used, drawn,
                 expired, cut, raced, swapped>>

BeginInstall(t) ==
  /\ Configured /\ drawn + 1 \in States
  /\ drawn' = drawn + 1
  /\ Begin(t, [NoJob EXCEPT !.job = "install", !.n = drawn + 1, !.puts = <<<<Client, 1>>>>])
  /\ UNCHANGED <<vault, verdict, llm, locked, install, rows, due, grants, used,
                 expired, cut, raced, swapped>>

KeepState(t) ==
  /\ th[t].job \in {"configure", "install"} /\ Stored(t)
  /\ install' = IF th[t].job = "install" THEN th[t].n ELSE 0
  /\ End(t)
  /\ UNCHANGED <<vault, verdict, llm, locked, rows, due, grants, used, drawn,
                 expired, jobs, cut, raced, swapped>>

ExpireState(s) ==
  /\ s \in 1..drawn \ expired
  /\ expired' = expired \cup {s}
  /\ UNCHANGED <<vault, verdict, llm, locked, install, rows, due, grants, used, drawn,
                 th, jobs, cut, raced, swapped>>

(* The browser comes back with a state and a code.  The state must be the one   *)
(* kept, and in time; it is given up in a commit of its own.                  *)
BeginCallback(t, s, k) ==
  /\ Configured
  /\ install = s /\ s \notin expired
  /\ Begin(t, [NoJob EXCEPT !.job = "callback", !.at = "consume", !.n = s, !.held = k])
  /\ UNCHANGED <<vault, verdict, llm, locked, install, rows, due, grants, used, drawn,
                 expired, cut, raced, swapped>>

ConsumeLater(t) ==
  /\ At(t, "callback", "consume")
  /\ Step(t, "exchange")
  /\ UNCHANGED <<vault, verdict, llm, locked, install, rows, due, grants, used, drawn,
                 expired, jobs, cut, raced, swapped>>
Consume(t) ==
  /\ At(t, "callback", "consume")
  /\ raced' = IF install = th[t].n THEN raced
              ELSE raced \cup {th[t].n}
  /\ install' = 0
  /\ Step(t, "exchange")
  /\ UNCHANGED <<vault, verdict, llm, locked, rows, due, grants, used, drawn,
                 expired, jobs, cut, swapped>>

(* The vendor takes a code once, and may refuse it.  A connection's tokens are  *)
(* kept before its row is.                                                   *)
Ungranted == {c \in Conns : grants[c].access = 0}
TokenPuts(c, pair) == <<<<Access(c), pair.access>>, <<Renewal(c), pair.refresh>>>>

Refused(t) ==
  /\ At(t, "callback", "exchange")
  /\ End(t)
  /\ UNCHANGED <<vault, verdict, llm, locked, install, rows, due, grants, used, drawn,
                 expired, jobs, cut, raced, swapped>>

Exchange(t) ==
  /\ At(t, "callback", "exchange")
  /\ \E c \in Ungranted :
       LET code == <<th[t].n, th[t].held>>
           pair == [access |-> 1, refresh |-> 1]
       IN  /\ \A d \in Ungranted : c <= d
           /\ \A u \in used : u[1] # code
           /\ used' = used \cup {<<code, c>>}
           /\ grants' = [grants EXCEPT ![c] = pair]
           /\ th' = [th EXCEPT ![t].at = "connect", ![t].n = c, ![t].puts = TokenPuts(c, pair)]
  /\ UNCHANGED <<vault, verdict, llm, locked, install, rows, due, drawn,
                 expired, jobs, cut, raced, swapped>>

Connect(t) ==
  /\ At(t, "callback", "connect") /\ Stored(t)
  /\ rows' = [rows EXCEPT ![th[t].n] = "connected"]
  /\ End(t)
  /\ UNCHANGED <<vault, verdict, llm, locked, install, due, grants, used, drawn,
                 expired, jobs, cut, raced, swapped>>

(* The rows go, the secrets stay.                                            *)
Disconnect ==
  /\ jobs < MaxJobs /\ \E c \in Conns : rows[c] # "none"
  /\ jobs' = jobs + 1
  /\ rows' = [c \in Conns |-> "none"]
  /\ UNCHANGED <<vault, verdict, llm, locked, install, due, grants, used, drawn,
                 expired, th, cut, raced, swapped>>
-----------------------------------------------------------------------------
(* A sync reads its tokens and refreshes them before they expire.             *)

Due(c) ==
  /\ rows[c] # "none" /\ c \notin due
  /\ due' = due \cup {c}
  /\ UNCHANGED <<vault, verdict, llm, locked, install, rows, grants, used, drawn,
                 expired, th, jobs, cut, raced, swapped>>

(* One of the vendor's rows counts.  A secret that is missing ends the sync.   *)
BeginSync(c) ==
  /\ rows[c] = "connected" /\ c \in due /\ grants[c].access < MaxKey
  /\ \A s \in {Client, Access(c), Renewal(c)} : Readable(s)
  /\ Begin(Loop, [NoJob EXCEPT !.job = "sync", !.at = "refresh", !.n = c,
                               !.held = vault[Renewal(c)]])
  /\ UNCHANGED <<vault, verdict, llm, locked, install, rows, due, grants, used, drawn,
                 expired, cut, raced, swapped>>

(* The vendor honours the newest refresh token only.  It gives a new access     *)
(* token, perhaps a new refresh token with it, and its answer may be lost.    *)
Pairs(c) ==
  {[access |-> grants[c].access + 1, refresh |-> grants[c].refresh + r] : r \in {0, 1}}

RefreshedAccess(pair) ==
  /\ At(Loop, "sync", "refresh") /\ th[Loop].held = grants[th[Loop].n].refresh
  /\ grants' = [grants EXCEPT ![th[Loop].n] = pair]
  /\ th' = [th EXCEPT ![Loop].at = "keep",
                      ![Loop].puts = <<<<Access(th[Loop].n), pair.access>>>>]
  /\ UNCHANGED <<vault, verdict, llm, locked, install, rows, due, used, drawn,
                 expired, jobs, cut, raced, swapped>>
Refreshed(pair) ==
  /\ At(Loop, "sync", "refresh") /\ th[Loop].held = grants[th[Loop].n].refresh
  /\ grants' = [grants EXCEPT ![th[Loop].n] = pair]
  /\ th' = [th EXCEPT ![Loop].at = "keep", ![Loop].puts = TokenPuts(th[Loop].n, pair)]
  /\ UNCHANGED <<vault, verdict, llm, locked, install, rows, due, used, drawn,
                 expired, jobs, cut, raced, swapped>>

AnswerLost(pair) ==
  /\ At(Loop, "sync", "refresh") /\ th[Loop].held = grants[th[Loop].n].refresh
  /\ grants' = [grants EXCEPT ![th[Loop].n] = pair]
  /\ Step(Loop, "reauth")
  /\ cut' = cut \cup {Renewal(c) : c \in {d \in Conns : grants'[d].refresh # grants[d].refresh}}
  /\ UNCHANGED <<vault, verdict, llm, locked, install, rows, due, used, drawn,
                 expired, jobs, raced, swapped>>

RefreshRefused ==
  /\ At(Loop, "sync", "refresh")
  /\ Step(Loop, "reauth")
  /\ UNCHANGED <<vault, verdict, llm, locked, install, rows, due, grants, used, drawn,
                 expired, jobs, cut, raced, swapped>>

(* Only a row that is still there can be updated.                             *)
Reauth ==
  /\ At(Loop, "sync", "reauth")
  /\ rows' = [rows EXCEPT ![th[Loop].n] = IF @ = "none" THEN @ ELSE "reauth_required"]
  /\ End(Loop)
  /\ UNCHANGED <<vault, verdict, llm, locked, install, due, grants, used, drawn,
                 expired, jobs, cut, raced, swapped>>

RefreshEnd ==
  /\ At(Loop, "sync", "keep") /\ Stored(Loop)
  /\ due' = due \ {th[Loop].n}
  /\ End(Loop)
  /\ UNCHANGED <<vault, verdict, llm, locked, install, rows, grants, used, drawn,
                 expired, jobs, cut, raced, swapped>>
-----------------------------------------------------------------------------
(* The process dies; what starts may lack the master key.                     *)
Replacing(slot) == \E t \in Processes : \E i \in DOMAIN th[t].puts : th[t].puts[i][1] = slot
Crash ==
  /\ \E t \in Processes : th[t] # NoJob
  /\ th' = [t \in Processes |-> NoJob]
  /\ locked' \in BOOLEAN
  /\ cut' = cut \cup {s \in Slots : Replacing(s)}
  /\ UNCHANGED <<vault, verdict, llm, install, rows, due, grants, used, drawn,
                 expired, jobs, raced, swapped>>

Restart ==
  /\ \A t \in Processes : th[t] = NoJob
  /\ locked' = ~locked
  /\ UNCHANGED <<vault, verdict, llm, install, rows, due, grants, used, drawn,
                 expired, th, jobs, cut, raced, swapped>>

Next ==
  \/ \E t \in Processes : PutDelete(t) \/ PutStore(t)
  \/ \E t \in Threads :
       \/ BeginRotate(t) \/ RotateEnd(t) \/ StoreSecret(t)
       \/ \E kind \in {"vault", "llm"} : BeginTest(t, kind)
       \/ EndTest(t)
       \/ BeginConfigure(t) \/ BeginInstall(t) \/ KeepState(t)
       \/ \E s \in States, k \in 1..Codes : BeginCallback(t, s, k)
       \/ Consume(t) \/ Refused(t) \/ Exchange(t) \/ Connect(t)
  \/ SetLlmKey \/ \E kind \in {"vault", "llm"} : DeleteKey(kind)
  \/ \E s \in States : ExpireState(s)
  \/ Disconnect
  \/ \E c \in Conns : Due(c) \/ BeginSync(c)
  \/ At(Loop, "sync", "refresh")
     /\ \E pair \in Pairs(th[Loop].n) : Refreshed(pair) \/ AnswerLost(pair)
  \/ RefreshRefused \/ Reauth \/ RefreshEnd
  \/ Crash \/ Restart

Spec == Init /\ [][Next]_vars
-----------------------------------------------------------------------------
(* A secret that a row refers to is in the vault, unless it is being replaced  *)
(* or a crash or a missing master key cut its replacement: no two requests     *)
(* that replace one secret leave it deleted between them.                     *)
Referred ==
  {s \in Slots : \/ s = Client
                 \/ \E c \in Conns : s \in {Access(c), Renewal(c)} /\ rows[c] # "none"}
SecretsAreKept ==
  /\ TypeOK
  /\ \A s \in Referred : vault[s] = 0 => Replacing(s) \/ s \in cut

(* However often a person authorizes, and in however many tabs, a state brings *)
(* one connection at most, unless a callback gave it up after another one or a  *)
(* new installation had.                                                     *)
StatesConnectOnce ==
  \A s \in States \ raced : Cardinality({u \in used : u[1][1] = s}) <= 1

(* The tokens of a connected row are those the vendor honours, whatever else   *)
(* goes on and whenever it stops, unless a refresh is under way or was cut.    *)
TokensAreHonoured ==
  \A c \in Conns :
    rows[c] = "connected" /\ th[Loop].n # c /\ Renewal(c) \notin cut
      => vault[Renewal(c)] = grants[c].refresh

(* A key shown as valid is one the provider accepts, unless it was replaced     *)
(* while the test was under way.                                             *)
VerdictsAreOfTheKey ==
  \A kind \in {"vault", "llm"} :
    verdict[kind] = "valid" /\ kind \notin swapped => Key(kind) \in Good
=============================================================================
