--------------------------- MODULE GovernedActions ---------------------------
(***************************************************************************)
(* The governed tools of the MCP servers (src/axiom/mcp/server.py) and the *)
(* approvals they open and the Studio resolves (src/axiom/govern/          *)
(* approvals.py), over one shared database, and the writes to vendors that *)
(* go through a ConnectorWriter (src/axiom/connectors/writer.py).          *)
(*                                                                         *)
(* A server runs its tool calls one at a time; the servers and the Studio  *)
(* interleave at every transaction.  Each call has an action_id of its     *)
(* own, so an action stands for one call: its receipt, the approval opened *)
(* for it and its effect.  The evaluator's answer is any decision (the     *)
(* policies can change between calls).  Receipts are inserted whole: how   *)
(* is the business of ReceiptChain, of which only "the first receipt of an *)
(* action stays" is used.  What a skill run does is left to its runner.    *)
(* The action id of a vendor write is the idempotency key it is proposed   *)
(* under: it may be proposed again.  A process that writes to vendors is a *)
(* server too; a writer without a database leaves no receipts and is left  *)
(* out.                                                                    *)
(* The definitions marked "Fault" are not part of the specification: each  *)
(* is a way its code could go wrong that a property must notice.           *)
(***************************************************************************)
EXTENDS Naturals, FiniteSets

CONSTANTS
  Servers,  \* MCP server processes
  Actions,  \* action ids, one per call
  Keys,     \* idempotency keys
  NoKey,    \* the call carries no idempotency key
  None      \* no receipt, no approval, no entry, no call

\* register_skill and archive_skill are "write", request_human_approval "ask".
Tools == {"check", "record", "write", "run", "ask"}

\* What a call is for: a tool, or ConnectorWriter.execute.
Purposes == Tools \cup {"vendor"}

\* The tools that take an idempotency key remember their answers by it.
Keyed == {"record", "run"}

Decisions == {"allow", "correct", "deny", "pause"}

VARIABLES
  receipts,     \* action -> decision of its receipt
  approvals,    \* action -> status of the approval opened for it
  overdue,      \* approvals past their expires_at
  resolutions,  \* <<action, decision>> of the receipts of resolved approvals
  owed,         \* resolution receipts the Studio's handler has yet to chain
  effects,      \* actions whose write has been committed
  runs,         \* actions whose skill the runner was called for
  proposed,     \* actions that are writes to vendors
  sent,         \* those of them the vendor has carried out
  call,         \* the call each server is working on
  idempotency,  \* each server's _idempotency: <<tool, key>> -> action
  history,      \* each server's _action_history: actions it knows
  queue,        \* each server's _approval_queue: actions asked about
  recorded,     \* history: actions receipted per server, tool and key since
                \* the server last forgot the key
  again         \* history: vendor writes proposed more than once

dbVars == <<receipts, approvals, effects, runs>>
studioVars == <<overdue, resolutions, owed>>
memVars == <<idempotency, history, queue, recorded>>
vendorVars == <<proposed, sent, again>>
vars == <<dbVars, studioVars, call, memVars, vendorVars>>

ToolKeys == Keyed \X Keys

\* An action id that no call has used.
Unused(a) ==
  /\ receipts[a] = None /\ approvals[a] = None
  /\ a \notin effects \cup runs \cup proposed
  /\ \A m \in Servers : call[m] # None => call[m].action # a

-----------------------------------------------------------------------------
(* A tool call.                                                            *)

Leave(m) == call' = [call EXCEPT ![m] = None]

\* The call goes on with its next step.
GoTo(m, step) == call' = [call EXCEPT ![m].step = step]

\* A call with a key that is remembered is answered from memory, and changes
\* nothing; any other call starts its preflight.
Start(m, tool, a, k, target) ==
  /\ call[m] = None
  /\ Unused(a)
  /\ tool \notin Keyed => k = NoKey
  /\ k # NoKey => idempotency[m][<<tool, k>>] = None
  /\ tool = "ask" => target \in history[m]
  /\ tool # "ask" => target = a
  /\ call' = [call EXCEPT ![m] =
       [tool |-> tool, action |-> a, key |-> k, target |-> target,
        decision |-> None, step |-> "evaluate"]]
  /\ UNCHANGED <<dbVars, studioVars, memVars, vendorVars>>

\* Fault: only a denial stops a call.
NextStepUnlessDenied(tool, d) ==
  CASE tool = "check" -> "answer"
    [] tool = "record" -> "receipt"
    [] tool \notin {"check", "record"} ->
         IF d = "deny" THEN "blocked" ELSE "effect"

\* Where _enforce_preflight, record_action and check_policy go once the
\* decision (and the approval it needs) is there.
NextStep(tool, d) ==
  CASE tool = "check" -> "answer"
    [] tool = "record" -> "receipt"
    [] tool \notin {"check", "record"} ->
         IF d = "allow" THEN "effect" ELSE "blocked"

\* _policy_preflight: the passport is in order and the policies decide; a
\* pause opens an approval before anything else is written.
Evaluate(m, d) ==
  /\ call[m] # None /\ call[m].step = "evaluate" /\ call[m].tool \in Tools
  /\ call' = [call EXCEPT ![m].decision = d,
                          ![m].step = IF d = "pause" THEN "approval"
                                      ELSE NextStep(call[m].tool, d)]
  /\ UNCHANGED <<dbVars, studioVars, memVars, vendorVars>>

\* create_approval_request.
OpenApproval(m) ==
  /\ call[m] # None /\ call[m].step = "approval"
  /\ approvals' = [approvals EXCEPT ![call[m].action] = "pending"]
  /\ GoTo(m, NextStep(call[m].tool, "pause"))
  /\ UNCHANGED <<receipts, effects, runs, studioVars, memVars, vendorVars>>

\* check_policy answers and leaves no receipt.
AnswerCheck(m) ==
  /\ call[m] # None /\ call[m].step = "answer"
  /\ Leave(m)
  /\ UNCHANGED <<dbVars, studioVars, memVars, vendorVars>>

\* _persist_policy_receipt: chain the receipt, unless the action has one, and
\* remember the action.
Persist(m) ==
  LET a == call[m].action IN
  /\ receipts' = [receipts EXCEPT ![a] = IF @ = None THEN call[m].decision ELSE @]
  /\ history' = [history EXCEPT ![m] = @ \cup {a}]

\* The answer is remembered under the call's key.
Remember(m) ==
  LET c == call[m] IN
  idempotency' = IF c.key = NoKey THEN idempotency
                 ELSE [idempotency EXCEPT ![m][<<c.tool, c.key>>] = c.action]

Track(m) ==
  LET c == call[m] IN
  recorded' = IF c.key = NoKey THEN recorded
              ELSE [recorded EXCEPT ![m][<<c.tool, c.key>>] = @ \cup {c.action}]

\* _enforce_preflight on a decision that is not allow: the receipt first.  A
\* denied call raises, a corrected one returns guidance, a paused skill run
\* returns "pending_approval", and a paused write goes on.
ReceiptBlocked(m) ==
  LET c == call[m] IN
  /\ c # None /\ c.step = "blocked" /\ c.tool \in Tools
  /\ Persist(m)
  /\ Track(m)
  /\ \/ /\ c.decision = "pause" /\ c.tool # "run"
        /\ GoTo(m, "effect")
        /\ UNCHANGED idempotency
     \/ /\ c.decision = "deny"
        /\ Leave(m)
        /\ UNCHANGED idempotency
     \/ /\ c.decision = "correct" \/ (c.decision = "pause" /\ c.tool = "run")
        /\ Leave(m)
        /\ Remember(m)
  /\ UNCHANGED <<approvals, effects, runs, studioVars, queue, vendorVars>>

\* register_skill and archive_skill: the registry is written.
WriteEffect(m) ==
  LET c == call[m] IN
  /\ c # None /\ c.step = "effect" /\ c.tool = "write"
  /\ effects' = effects \cup {c.action}
  /\ GoTo(m, "receipt")
  /\ UNCHANGED <<receipts, approvals, runs, studioVars, memVars, vendorVars>>

\* request_human_approval: the question is queued in this server's memory.
AskEffect(m) ==
  LET c == call[m] IN
  /\ c # None /\ c.step = "effect" /\ c.tool = "ask"
  /\ queue' = [queue EXCEPT ![m] = @ \cup {c.target}]
  /\ GoTo(m, "receipt")
  /\ UNCHANGED <<dbVars, studioVars, idempotency, history, recorded, vendorVars>>

\* run_skill: the runner is called (its receipt is its own) and the answer
\* remembered.
RunEffect(m) ==
  LET c == call[m] IN
  /\ c # None /\ c.step = "effect" /\ c.tool = "run"
  /\ runs' = runs \cup {c.action}
  /\ Leave(m)
  /\ Remember(m)
  /\ UNCHANGED <<receipts, approvals, effects, studioVars, history, queue, recorded,
                 vendorVars>>

\* Fault: a denied action is raised before its answer is remembered.
ReceiptDenyForgotten(m) ==
  LET c == call[m] IN
  /\ c # None /\ c.step = "receipt" /\ c.tool \in Tools
  /\ Persist(m)
  /\ Track(m)
  /\ IF c.decision = "deny" THEN UNCHANGED idempotency ELSE Remember(m)
  /\ Leave(m)
  /\ UNCHANGED <<approvals, effects, runs, studioVars, queue, vendorVars>>

\* The receipt of a recorded action, or of an effect that was committed.  A
\* denied record is remembered before the call raises.
Receipt(m) ==
  LET c == call[m] IN
  /\ c # None /\ c.step = "receipt" /\ c.tool \in Tools
  /\ Persist(m)
  /\ Track(m)
  /\ Remember(m)
  /\ Leave(m)
  /\ UNCHANGED <<approvals, effects, runs, studioVars, queue, vendorVars>>

\* The passport is refused, the database is busy, the runner raises: the
\* call ends in an error, keeping what it had committed.
Fail(m) ==
  /\ call[m] # None
  /\ Leave(m)
  /\ UNCHANGED <<dbVars, studioVars, memVars, vendorVars>>

-----------------------------------------------------------------------------
(* A write to a vendor (ConnectorWriter).                                  *)

\* propose_action, and execute begins: under a fresh key, or again under that
\* of an earlier write.
Propose(m, a) ==
  /\ call[m] = None
  /\ Unused(a) \/ a \in proposed
  /\ call' = [call EXCEPT ![m] =
       [tool |-> "vendor", action |-> a, key |-> NoKey, target |-> a,
        decision |-> None, step |-> "evaluate"]]
  /\ proposed' = proposed \cup {a}
  /\ again' = again \cup ({a} \cap proposed)
  /\ UNCHANGED <<dbVars, studioVars, memVars, sent>>

\* The policies decide, or the caller brings a decision.  One that is not
\* "allow" passes if it carries the id of an approval, whatever became of that.
Decide(m, d, carriesApproval) ==
  /\ call[m] # None /\ call[m].step = "evaluate" /\ call[m].tool = "vendor"
  /\ call' = [call EXCEPT ![m].decision = d,
                          ![m].step = IF d = "allow" \/ carriesApproval
                                      THEN "effect" ELSE "blocked"]
  /\ UNCHANGED <<dbVars, studioVars, memVars, vendorVars>>

\* _perform_execute: the vendor carries the write out.
Send(m) ==
  /\ call[m] # None /\ call[m].step = "effect" /\ call[m].tool = "vendor"
  /\ sent' = sent \cup {call[m].action}
  /\ GoTo(m, "receipt")
  /\ UNCHANGED <<dbVars, studioVars, memVars, proposed, again>>

\* _chain_receipt: "allow" for what was carried out, else what was decided; a
\* receipt that is there stays.
ReceiptWrite(m) ==
  LET c == call[m] IN
  /\ c # None /\ c.step \in {"blocked", "receipt"} /\ c.tool = "vendor"
  /\ receipts' = [receipts EXCEPT ![c.action] =
       CASE @ # None -> @
         [] @ = None /\ c.step = "receipt" -> "allow"
         [] @ = None /\ c.step = "blocked" -> c.decision]
  /\ Leave(m)
  /\ UNCHANGED <<approvals, effects, runs, studioVars, memVars, vendorVars>>

-----------------------------------------------------------------------------
(* The servers' memory.                                                    *)

\* _cleanup_idempotency: entries older than the time to live go.
Forget(m, tk) ==
  /\ idempotency[m][tk] # None
  /\ idempotency' = [idempotency EXCEPT ![m][tk] = None]
  /\ recorded' = [recorded EXCEPT ![m][tk] = {}]
  /\ UNCHANGED <<dbVars, studioVars, call, history, queue, vendorVars>>

\* A server is killed and started again: the action history is read back
\* from the receipts, keys and queue are gone.
Restart(m) ==
  /\ Leave(m)
  /\ history' = [history EXCEPT ![m] = {a \in Actions : receipts[a] # None}]
  /\ idempotency' = [idempotency EXCEPT ![m] = [tk \in ToolKeys |-> None]]
  /\ recorded' = [recorded EXCEPT ![m] = [tk \in ToolKeys |-> {}]]
  /\ queue' = [queue EXCEPT ![m] = {}]
  /\ UNCHANGED <<dbVars, studioVars, vendorVars>>

-----------------------------------------------------------------------------
(* The Studio resolves approvals.  Its handlers run on one event loop and  *)
(* do not give it up: one at a time, each followed by its receipts.        *)

\* _resolve_request: only a pending approval, whether or not it is overdue.
Resolve(a, status) ==
  /\ owed = {}
  /\ approvals[a] = "pending"
  /\ approvals' = [approvals EXCEPT ![a] = status]
  /\ UNCHANGED <<receipts, effects, runs, overdue, resolutions, call, memVars,
                 vendorVars>>

\* approve_request chains no receipt.
Approve(a) ==
  /\ Resolve(a, "approved")
  /\ UNCHANGED owed

\* Fault: the receipt is chained whether or not the request was pending.
DenyRegardless(a) ==
  /\ owed = {}
  /\ approvals[a] # None
  /\ approvals' = [approvals EXCEPT ![a] = IF @ = "pending" THEN "denied" ELSE @]
  /\ owed' = {<<a, "deny">>}
  /\ UNCHANGED <<receipts, effects, runs, overdue, resolutions, call, memVars,
                 vendorVars>>

\* deny_request commits the status, then chains a receipt.
Deny(a) ==
  /\ Resolve(a, "denied")
  /\ owed' = {<<a, "deny">>}

\* Time passes an approval's expires_at.
FallDue(a) ==
  /\ approvals[a] = "pending"
  /\ a \notin overdue
  /\ overdue' = overdue \cup {a}
  /\ UNCHANGED <<dbVars, resolutions, owed, call, memVars, vendorVars>>

\* expire_old_requests commits all statuses at once, then chains a receipt
\* for each.
Expire ==
  LET late == {a \in overdue : approvals[a] = "pending"} IN
  /\ owed = {}
  /\ late # {}
  /\ approvals' = [a \in Actions |->
                     IF a \in late THEN "expired" ELSE approvals[a]]
  /\ owed' = late \X {"expired"}
  /\ UNCHANGED <<receipts, effects, runs, overdue, resolutions, call, memVars,
                 vendorVars>>

\* _chain_resolution_receipt.
ChainResolution(o) ==
  /\ o \in owed
  /\ resolutions' = resolutions \cup {o}
  /\ owed' = owed \ {o}
  /\ UNCHANGED <<dbVars, overdue, call, memVars, vendorVars>>

\* The database is busy, or the Studio dies, before the receipts are chained.
StudioFails ==
  /\ owed # {}
  /\ owed' = {}
  /\ UNCHANGED <<dbVars, overdue, resolutions, call, memVars, vendorVars>>

Init ==
  /\ receipts = [a \in Actions |-> None]
  /\ approvals = [a \in Actions |-> None]
  /\ overdue = {} /\ resolutions = {} /\ owed = {}
  /\ effects = {} /\ runs = {}
  /\ proposed = {} /\ sent = {} /\ again = {}
  /\ call = [m \in Servers |-> None]
  /\ idempotency = [m \in Servers |-> [tk \in ToolKeys |-> None]]
  /\ history = [m \in Servers |-> {}]
  /\ queue = [m \in Servers |-> {}]
  /\ recorded = [m \in Servers |-> [tk \in ToolKeys |-> {}]]

ServerStep(m) ==
  \/ \E d \in Decisions : Evaluate(m, d)
  \/ OpenApproval(m) \/ AnswerCheck(m) \/ ReceiptBlocked(m)
  \/ WriteEffect(m) \/ AskEffect(m) \/ RunEffect(m)
  \/ Receipt(m) \/ Fail(m)

VendorStep(m) ==
  \/ \E a \in Actions : Propose(m, a)
  \/ \E d \in Decisions, carriesApproval \in BOOLEAN : Decide(m, d, carriesApproval)
  \/ Send(m) \/ ReceiptWrite(m)

Next ==
  \/ \E m \in Servers :
       \/ \E tool \in Tools, a, t \in Actions, k \in Keys \cup {NoKey} :
            Start(m, tool, a, k, t)
       \/ ServerStep(m) \/ VendorStep(m)
       \/ \E tk \in ToolKeys : Forget(m, tk)
       \/ Restart(m)
  \/ \E a \in Actions : Approve(a) \/ Deny(a) \/ FallDue(a)
  \/ Expire
  \/ \E o \in owed : ChainResolution(o)
  \/ StudioFails

Spec == Init /\ [][Next]_vars

-----------------------------------------------------------------------------
(* Correctness.                                                            *)

Steps == {"evaluate", "approval", "answer", "blocked", "effect", "receipt"}

Calls == [tool: Purposes, action: Actions, key: Keys \cup {NoKey}, target: Actions,
          decision: Decisions \cup {None}, step: Steps]

Statuses == {"pending", "approved", "denied", "expired"}

\* NULL is neither a call nor an action nor a decision nor a status.
ASSUME NoneAssumption ==
  /\ None \notin Calls
  /\ None \notin Actions
  /\ None \notin Decisions \cup Statuses

\* Shapes, and that a call past its preflight has a decision.
TypeOK ==
  /\ receipts \in [Actions -> Decisions \cup {None}]
  /\ approvals \in [Actions -> Statuses \cup {None}]
  /\ overdue \subseteq Actions
  /\ resolutions \subseteq Actions \X {"deny", "expired"}
  /\ owed \subseteq Actions \X {"deny", "expired"}
  /\ effects \subseteq Actions /\ runs \subseteq Actions
  /\ proposed \subseteq Actions /\ sent \subseteq proposed /\ again \subseteq proposed
  /\ call \in [Servers -> Calls \cup {None}]
  /\ \A m \in Servers :
       call[m] # None /\ call[m].step # "evaluate" => call[m].decision # None
  /\ idempotency \in [Servers -> [ToolKeys -> Actions \cup {None}]]
  /\ history \in [Servers -> SUBSET Actions]
  /\ queue \in [Servers -> SUBSET Actions]
  /\ recorded \in [Servers -> [ToolKeys -> SUBSET Actions]]

\* The ledger agrees with the registry, the runner and the vendors, although
\* receipt and effect are committed apart: an action whose receipt says it was
\* denied or corrected changed nothing, one that is receipted as anything but
\* allowed never reached the skill runner, a vendor write that is receipted as
\* allowed was carried out, and any other was not, unless it was proposed again.
BlockedActionsHaveNoEffect ==
  /\ \A a \in Actions :
       /\ receipts[a] \in {"deny", "correct"} => a \notin effects
       /\ receipts[a] # None => a \notin runs
  /\ \A a \in proposed :
       /\ receipts[a] = "allow" => a \in sent
       /\ receipts[a] \in Decisions \ {"allow"} => a \notin sent \/ a \in again

\* Approvals and ledger agree, although they are committed apart: a tool's call is
\* never on record as paused without the approval a human needs to find it,
\* and a resolution on record is the approval's status, so that no approval is
\* both denied and expired, or approved after a receipt said otherwise.
ApprovalsMatchTheLedger ==
  /\ TypeOK
  /\ \A a \in Actions :
       /\ receipts[a] = "pause" /\ a \notin proposed => approvals[a] # None
       /\ <<a, "deny">> \in resolutions => approvals[a] = "denied"
       /\ <<a, "expired">> \in resolutions => approvals[a] = "expired"

\* Until a server forgets a key, all it receipted for axiom_record_action
\* under the key is the one action it answers repeats with: a denied one,
\* too, is not recorded again when the agent tries again.
KeyRecordsOnce ==
  \A m \in Servers, k \in Keys :
    recorded[m][<<"record", k>>] \subseteq {idempotency[m][<<"record", k>>]}

=============================================================================
