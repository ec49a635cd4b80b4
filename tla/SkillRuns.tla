------------------------------ MODULE SkillRuns ------------------------------
(***************************************************************************)
(* run_skill (src/axiom/skills/runner.py): one prompt skill, run by the    *)
(* Studio's worker threads and the MCP servers at once.                    *)
(*                                                                         *)
(* A call works in several transactions: the run's row, the outcome with   *)
(* the skill's run counter, the receipt, the receipt's link.  A SELECT     *)
(* takes no lock, so what it saw may be old when the call writes.  Each    *)
(* call has an id of its own, which is also the id of the row it creates.  *)
(* Receipts are inserted whole (see ReceiptChain); prompts, outputs and    *)
(* durations are left out, but for whether an output is stored.  The       *)
(* definitions marked "Fault" are not part of the specification: each is a *)
(* way its code could go wrong that a property must notice.                *)
(***************************************************************************)
EXTENDS Naturals, FiniteSets

CONSTANTS
  Calls,     \* the calls of run_skill
  Keys,      \* idempotency keys
  NoKey,     \* the call carries no idempotency key
  None,      \* no row, no receipt, no answer
  MaxClock   \* bound on the wall clock (milliseconds)

ASSUME SkillAssumption ==
  /\ NoKey \notin Keys
  /\ MaxClock \in Nat

VARIABLES
  clock,     \* int(time.time() * 1000)
  step,      \* where each call is
  key,       \* the idempotency key of each call
  seen,      \* total_runs as the session of each call has loaded it
  rows,      \* skill_runs
  total,     \* skills.total_runs
  receipts,  \* call -> decision of the receipt "skill_run:<run id>"
  blocked,   \* time -> call whose receipt is "skill_run:blocked_<time>"
  refused,   \* history: calls answered "denied" or "correct"
  told,      \* history: run and status each call was answered with
  paid       \* history: calls whose prompt was sent to the provider

dbVars == <<rows, total, receipts, blocked>>
callVars == <<step, key, seen>>
histVars == <<refused, told, paid>>
vars == <<clock, callVars, dbVars, histVars>>

\* The call goes on with this step.
GoTo(c, s) == step' = [step EXCEPT ![c] = s]

\* From one step to the next.
From(c, s, t) == step[c] = s /\ GoTo(c, t)

\* The session of the call is closed: the skill it had loaded is gone.
Forget(c) == seen' = [seen EXCEPT ![c] = 0]

Answer(c, r, status) == told' = [told EXCEPT ![c] = [run |-> r, status |-> status]]

-----------------------------------------------------------------------------
(* Before the run.                                                         *)

\* A call comes in.
Enter(c, k) ==
  /\ From(c, "new", "decide")
  /\ key' = [key EXCEPT ![c] = k]
  /\ UNCHANGED <<clock, seen, dbVars, histVars>>

\* The policies allow the run, or (the MCP server asks them itself) are not
\* asked.
Allow(c) ==
  /\ From(c, "decide", "lookup")
  /\ UNCHANGED <<clock, key, seen, dbVars, histVars>>

\* A pause opens an approval request and runs nothing.
Pause(c) ==
  /\ From(c, "decide", "done")
  /\ UNCHANGED <<clock, key, seen, dbVars, histVars>>

\* A denied or corrected call gets a receipt named after the time, or the
\* one that is there already under that name.
Block(c) ==
  /\ From(c, "decide", "done")
  /\ blocked' = [blocked EXCEPT ![clock] = IF @ = None THEN c ELSE @]
  /\ refused' = refused \cup {c}
  /\ UNCHANGED <<clock, key, seen, rows, total, receipts, told, paid>>

\* The run the call's key stands for.
RunOfKey(c) == {r \in Calls : rows[r] # None /\ key[c] # NoKey /\ key[r] = key[c]}

\* Fault: a call waits for the run its key stands for to end.
LookupWaiting(c) ==
  /\ step[c] = "lookup"
  /\ \/ /\ RunOfKey(c) = {}
        /\ GoTo(c, "insert")
        /\ UNCHANGED told
     \/ \E r \in RunOfKey(c) :
          /\ rows[r].status # "running"
          /\ Answer(c, r, rows[r].status)
          /\ GoTo(c, "done")
  /\ UNCHANGED <<clock, key, seen, dbVars, refused, paid>>

\* A run with the call's key answers the call, whatever its status is.
Lookup(c) ==
  /\ step[c] = "lookup"
  /\ \/ /\ RunOfKey(c) = {}
        /\ GoTo(c, "insert")
        /\ UNCHANGED told
     \/ \E r \in RunOfKey(c) :
          /\ Answer(c, r, rows[r].status)
          /\ GoTo(c, "done")
  /\ UNCHANGED <<clock, key, seen, dbVars, refused, paid>>

NewRow == [status |-> "running", output |-> FALSE, linked |-> FALSE]

\* Fault: the index over skill_id and idempotency_key is not unique.
InsertUnchecked(c) ==
  /\ From(c, "insert", "started")
  /\ rows' = [rows EXCEPT ![c] = NewRow]
  /\ UNCHANGED <<clock, key, seen, total, receipts, blocked, histVars>>

\* The row is committed ...
Insert(c) ==
  /\ From(c, "insert", "started")
  /\ RunOfKey(c) = {}
  /\ rows' = [rows EXCEPT ![c] = NewRow]
  /\ UNCHANGED <<clock, key, seen, total, receipts, blocked, histVars>>

\* ... unless another call with the key was faster: the unique index refuses
\* the row and the call raises.
Conflict(c) ==
  /\ From(c, "insert", "done")
  /\ RunOfKey(c) # {}
  /\ UNCHANGED <<clock, key, seen, dbVars, histVars>>

\* The skill_run_started callback returns.
Started(c) ==
  /\ From(c, "started", "load")
  /\ UNCHANGED <<clock, key, seen, dbVars, histVars>>

-----------------------------------------------------------------------------
(* The run.                                                                *)

\* The skill, its counter and the provider key are loaded.
Load(c) ==
  /\ From(c, "load", "provider")
  /\ seen' = [seen EXCEPT ![c] = total]
  /\ UNCHANGED <<clock, key, dbVars, histVars>>

\* The provider is called, and answers what can be stored or not.
Provider(c) ==
  /\ step[c] = "provider"
  /\ \E s \in {"commit", "failing"} : GoTo(c, s)
  /\ paid' = paid \cup {c}
  /\ UNCHANGED <<clock, key, seen, dbVars, refused, told>>

\* Fault: the call goes on to its receipt when the commit has failed.
CommitUnchecked(c) ==
  /\ From(c, "commit", "receipt")
  /\ \/ rows' = [rows EXCEPT ![c].status = "success", ![c].output = TRUE]
     \/ UNCHANGED rows
  /\ total' = seen[c] + 1
  /\ Forget(c)
  /\ UNCHANGED <<clock, key, receipts, blocked, histVars>>

\* Status, output and counter in one transaction; the counter is set to
\* one more than what was loaded before the provider was called.
Commit(c) ==
  /\ From(c, "commit", "receipt")
  /\ rows' = [rows EXCEPT ![c].status = "success", ![c].output = TRUE]
  /\ total' = seen[c] + 1
  /\ Forget(c)
  /\ UNCHANGED <<clock, key, receipts, blocked, histVars>>

\* _chain_skill_run_receipt: the first receipt of a run stays.
Chain(c, d) ==
  receipts' = [receipts EXCEPT ![c] = IF @ = None THEN d ELSE @]

ReceiptAllow(c) ==
  /\ From(c, "receipt", "link")
  /\ Chain(c, "allow")
  /\ UNCHANGED <<clock, key, seen, rows, total, blocked, histVars>>

\* The row points to its receipt.
Link(c) ==
  /\ From(c, "link", "completed")
  /\ rows' = [rows EXCEPT ![c].linked = TRUE]
  /\ UNCHANGED <<clock, key, seen, total, receipts, blocked, histVars>>

\* The skill_run_completed callback returns and the caller is answered.
Completed(c) ==
  /\ From(c, "completed", "done")
  /\ Answer(c, c, rows[c].status)
  /\ UNCHANGED <<clock, key, seen, dbVars, refused, paid>>

-----------------------------------------------------------------------------
(* When anything after the started callback fails.                         *)

\* The exception handler: a busy database, a missing provider key, a refused
\* output, a callback that raises, whatever was committed before.
Except(c) ==
  /\ step[c] \in {"load", "commit", "receipt", "link", "completed"}
  /\ GoTo(c, "failing")
  /\ Forget(c)
  /\ UNCHANGED <<clock, key, dbVars, histVars>>

\* Run and skill are loaded again ...
Reload(c) ==
  /\ From(c, "failing", "fail")
  /\ seen' = [seen EXCEPT ![c] = total]
  /\ UNCHANGED <<clock, key, dbVars, histVars>>

\* ... and the run is marked failed, and counted.
CommitFailed(c) ==
  /\ From(c, "fail", "failreceipt")
  /\ rows' = [rows EXCEPT ![c].status = "failed"]
  /\ total' = seen[c] + 1
  /\ Forget(c)
  /\ UNCHANGED <<clock, key, receipts, blocked, histVars>>

ReceiptError(c) ==
  /\ From(c, "failreceipt", "faillink")
  /\ Chain(c, "error")
  /\ UNCHANGED <<clock, key, seen, rows, total, blocked, histVars>>

LinkFailed(c) ==
  /\ From(c, "faillink", "failed")
  /\ rows' = [rows EXCEPT ![c].linked = TRUE]
  /\ UNCHANGED <<clock, key, seen, total, receipts, blocked, histVars>>

\* The skill_run_failed callback returns and the caller is answered.
Failed(c) ==
  /\ From(c, "failed", "done")
  /\ Answer(c, c, rows[c].status)
  /\ UNCHANGED <<clock, key, seen, dbVars, refused, paid>>

\* Anywhere outside that handler's reach the exception goes to the caller;
\* what was committed stays.
Raise(c) ==
  /\ step[c] \in {"decide", "lookup", "insert", "started",
                  "failing", "fail", "failreceipt", "faillink", "failed"}
  /\ GoTo(c, "done")
  /\ Forget(c)
  /\ UNCHANGED <<clock, key, dbVars, histVars>>

\* The process dies.
Crash(c) ==
  /\ step[c] \notin {"new", "done"}
  /\ GoTo(c, "done")
  /\ Forget(c)
  /\ UNCHANGED <<clock, key, dbVars, histVars>>

Tick ==
  /\ clock < MaxClock
  /\ clock' = clock + 1
  /\ UNCHANGED <<callVars, dbVars, histVars>>

Init ==
  /\ clock = 0
  /\ step = [c \in Calls |-> "new"]
  /\ key = [c \in Calls |-> NoKey]
  /\ seen = [c \in Calls |-> 0]
  /\ rows = [c \in Calls |-> None]
  /\ total = 0
  /\ receipts = [c \in Calls |-> None]
  /\ blocked = [t \in 0..MaxClock |-> None]
  /\ refused = {} /\ paid = {}
  /\ told = [c \in Calls |-> None]

CallStep(c) ==
  \/ Allow(c) \/ Pause(c) \/ Block(c) \/ Lookup(c)
  \/ Insert(c) \/ Conflict(c) \/ Started(c)
  \/ Load(c) \/ Provider(c) \/ Commit(c) \/ ReceiptAllow(c) \/ Link(c)
  \/ Completed(c) \/ Except(c) \/ Reload(c) \/ CommitFailed(c)
  \/ ReceiptError(c) \/ LinkFailed(c) \/ Failed(c)

Next ==
  \/ \E c \in Calls :
       \/ \E k \in Keys \cup {NoKey} : Enter(c, k)
       \/ CallStep(c)
       \/ Raise(c) \/ Crash(c)
  \/ Tick

Spec == Init /\ [][Next]_vars

\* A call that runs keeps running: every provider request and every wait for
\* the database has a timeout.
FairSpec == Spec /\ \A c \in Calls : WF_vars(CallStep(c))

-----------------------------------------------------------------------------
(* Correctness.                                                            *)

Steps == {"new", "decide", "lookup", "insert", "started", "load", "provider",
          "commit", "receipt", "link", "completed", "failing", "fail",
          "failreceipt", "faillink", "failed", "done"}

Row == [status: {"running", "success", "failed"}, output: BOOLEAN, linked: BOOLEAN]

Told == [run: Calls, status: {"running", "success", "failed"}]

Decision == {"allow", "error"}

\* NULL is neither a row nor a decision nor an answer.
ASSUME NoneAssumption ==
  /\ None \notin Row
  /\ None \notin Decision
  /\ None \notin Told

Decided == {r \in Calls : receipts[r] # None}

\* Shapes, and that every link leads to a receipt (receipt_id is a foreign
\* key) and every receipt to a run.
TypeOK ==
  /\ clock \in 0..MaxClock
  /\ step \in [Calls -> Steps]
  /\ key \in [Calls -> Keys \cup {NoKey}]
  /\ seen \in [Calls -> Nat]
  /\ rows \in [Calls -> Row \cup {None}]
  /\ total \in Nat
  /\ receipts \in [Calls -> Decision \cup {None}]
  /\ \A r \in Decided : rows[r] # None
  /\ \A r \in Calls : rows[r] # None => (rows[r].linked => r \in Decided)
  /\ blocked \in [0..MaxClock -> Calls \cup {None}]
  /\ refused \subseteq Calls /\ paid \subseteq Calls
  /\ told \in [Calls -> Told \cup {None}]

\* An idempotency key runs its skill once: however many calls with the key
\* race, one of them has a run and at most one pays the provider.
KeyRunsOnce ==
  \A c, d \in {r \in Calls : rows[r] # None} \cup paid :
    key[c] = key[d] /\ key[c] # NoKey => c = d

\* The ledger does not flatter: a run receipted as allowed did commit its
\* output, and one receipted as an error is a failed run, although outcome
\* and receipt are committed apart.
ReceiptsTellTheOutcome ==
  \A r \in Decided :
    /\ receipts[r] = "allow" => rows[r].output
    /\ receipts[r] = "error" => rows[r].status = "failed"

\* What the caller of a run is told is settled: the row has that status, for
\* ever, and points to a receipt, which for a success is an "allow".
AnswersAreSettled ==
  \A c \in Calls :
    told[c] # None /\ told[c].run = c =>
      /\ rows[c].status = told[c].status
      /\ rows[c].linked
      /\ c \in Decided
      /\ told[c].status = "success" => receipts[c] = "allow"

\* Row, receipt and answer of a run tell one outcome.
OutcomesAgree == TypeOK /\ ReceiptsTellTheOutcome /\ AnswersAreSettled

\* Every call is answered or raises, also when the run its key stands for
\* was left "running" by a crash.
EveryCallEnds == \A c \in Calls : step[c] = "decide" ~> step[c] = "done"

=============================================================================
