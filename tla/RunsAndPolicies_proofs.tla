----------------------- MODULE RunsAndPolicies_proofs -----------------------
(***************************************************************************)
(* Proofs about run_skill, for any number of calls, keys and clock values,   *)
(* and about the policies that are loaded and evaluated beside it, for any   *)
(* number of threads, whatever the directory holds and whatever its          *)
(* conditions mean.                                                        *)
(***************************************************************************)
EXTENDS SkillRuns, Policies, TLAPS


USE SkillAssumption, NoneAssumption

-----------------------------------------------------------------------------
(* The inductive invariant.                                                *)

BeforeRun == {"new", "decide", "lookup", "insert"}
BeforeReceipt == {"started", "load", "provider", "commit", "receipt"}

\* The shapes of the state.
Types ==
  /\ clock \in 0..MaxClock
  /\ step \in [Calls -> Steps]
  /\ key \in [Calls -> Keys \cup {NoKey}]
  /\ seen \in [Calls -> Nat]
  /\ rows \in [Calls -> Row \cup {None}]
  /\ total \in Nat
  /\ receipts \in [Calls -> Decision \cup {None}]
  /\ blocked \in [0..MaxClock -> Calls \cup {None}]
  /\ refused \subseteq Calls /\ paid \subseteq Calls
  /\ told \in [Calls -> Told \cup {None}]

\* Until its row is committed a call has left nothing; from then on it has a
\* row, its receipt comes after the outcome and its answer ends it.
RowFollowsStep(c) ==
  /\ step[c] \in BeforeRun => rows[c] = None
  /\ step[c] \in BeforeRun \cup BeforeReceipt => receipts[c] = None
  /\ step[c] \notin BeforeRun \cup {"done"} => rows[c] # None
  /\ c \in paid \/ receipts[c] # None => rows[c] # None
  /\ told[c] # None => step[c] = "done"

\* The outcome on the row is the one the call is about to tell, and a receipt
\* that says "error" comes after the row said "failed".
OutcomeFollowsStep(c) ==
  /\ step[c] \in {"receipt", "link", "completed"} =>
       rows[c].status = "success" /\ rows[c].output
  /\ step[c] \in {"link", "completed"} => receipts[c] = "allow"
  /\ step[c] \in {"failreceipt", "faillink", "failed"} => rows[c].status = "failed"
  /\ step[c] \in {"faillink", "failed"} => receipts[c] # None
  /\ step[c] \in {"completed", "failed"} => rows[c].linked
  /\ receipts[c] = "error" => step[c] \in {"faillink", "failed", "done"}

\* What the properties say of one call.
RowAgrees(c) ==
  /\ rows[c] # None /\ rows[c].linked => receipts[c] # None
  /\ receipts[c] = "allow" => rows[c].output
  /\ receipts[c] = "error" => rows[c].status = "failed"
  /\ told[c] # None /\ told[c].run = c =>
       /\ rows[c] # None
       /\ rows[c].status = told[c].status
       /\ rows[c].linked
       /\ told[c].status = "success" => receipts[c] = "allow"

CallInv(c) == RowFollowsStep(c) /\ OutcomeFollowsStep(c) /\ RowAgrees(c)

RunInv ==
  /\ Types
  /\ \A c \in Calls : CallInv(c)
  /\ KeyRunsOnce

\* The invariant says what the properties say.
LEMMA RunInvSuffices == RunInv => OutcomesAgree /\ KeyRunsOnce
<1> SUFFICES ASSUME RunInv PROVE OutcomesAgree /\ KeyRunsOnce
  OBVIOUS
<1>1. \A c \in Calls : RowFollowsStep(c) /\ RowAgrees(c)
  BY DEF RunInv, CallInv
<1>2. TypeOK
  BY <1>1 DEF RunInv, TypeOK, Types, Decided, RowFollowsStep, RowAgrees
<1>3. ReceiptsTellTheOutcome
  BY <1>1 DEF ReceiptsTellTheOutcome, Decided, RowAgrees
<1>4. AnswersAreSettled
  BY <1>1 DEF AnswersAreSettled, Decided, RowAgrees, RunInv, Types
<1> QED BY <1>2, <1>3, <1>4 DEF OutcomesAgree, RunInv

\* The initial state satisfies the invariant.
LEMMA InitRunInv == Init => RunInv
<1> SUFFICES ASSUME Init PROVE RunInv
  OBVIOUS
<1>1. Types
  BY DEF Init, Types, Steps
<1>2. ASSUME NEW c \in Calls PROVE CallInv(c)
  BY DEF Init, CallInv, RowFollowsStep, OutcomeFollowsStep, RowAgrees, BeforeRun,
         BeforeReceipt, Decision
<1>3. KeyRunsOnce
  BY DEF Init, KeyRunsOnce
<1> QED BY <1>1, <1>2, <1>3 DEF RunInv

-----------------------------------------------------------------------------
(* Steps of one call.                                                      *)

\* Every step but the clock's is a step of one call.
Step(c) ==
  (\E k \in Keys \cup {NoKey} : Enter(c, k)) \/ CallStep(c) \/ Raise(c) \/ Crash(c)

\* Writing the columns of a row gives a row with these columns.
LEMMA RowWrites ==
  ASSUME NEW r \in Row
  PROVE  /\ [r EXCEPT !.status = "failed"] \in Row
         /\ [r EXCEPT !.status = "failed"].status = "failed"
         /\ [r EXCEPT !.status = "failed"].output = r.output
         /\ [r EXCEPT !.status = "failed"].linked = r.linked
         /\ [r EXCEPT !.linked = TRUE] \in Row
         /\ [r EXCEPT !.linked = TRUE].status = r.status
         /\ [r EXCEPT !.linked = TRUE].output = r.output
         /\ [r EXCEPT !.linked = TRUE].linked = TRUE
         /\ [r EXCEPT !.status = "success", !.output = TRUE] \in Row
         /\ [r EXCEPT !.status = "success", !.output = TRUE].status = "success"
         /\ [r EXCEPT !.status = "success", !.output = TRUE].output = TRUE
         /\ [r EXCEPT !.status = "success", !.output = TRUE].linked = r.linked
BY DEF Row

\* A new row is a row, and what a call answers is an answer.
LEMMA NewValues ==
  /\ NewRow \in Row
  /\ NewRow.status = "running" /\ NewRow.output = FALSE /\ NewRow.linked = FALSE
  /\ \A c, r \in Calls, w \in Row :
       /\ [run |-> r, status |-> w.status] \in Told
       /\ [run |-> r, status |-> w.status].run = r
       /\ [run |-> r, status |-> w.status].status = w.status
BY DEF NewRow, Row, Told

\* A step of a call keeps the shapes.
LEMMA StepKeepsTypes ==
  ASSUME Types, NEW c \in Calls, RowFollowsStep(c), Step(c)
  PROVE  Types'
<1> USE DEF Types, dbVars, histVars, From, GoTo, Forget
<1>1. ASSUME NEW k \in Keys \cup {NoKey}, Enter(c, k) PROVE Types'
  BY <1>1 DEF Enter, Steps
<1>2. CASE Allow(c)
  BY <1>2 DEF Allow, Steps
<1>3. CASE Pause(c)
  BY <1>3 DEF Pause, Steps
<1>4. CASE Block(c)
  BY <1>4 DEF Block, Steps
<1>5. CASE Lookup(c)
  <2>1. CASE UNCHANGED told /\ GoTo(c, "insert")
    BY <1>5, <2>1 DEF Lookup, Steps
  <2>2. ASSUME NEW r \in RunOfKey(c), Answer(c, r, rows[r].status), GoTo(c, "done")
        PROVE  Types'
    <3>1. r \in Calls /\ rows[r] \in Row
      BY DEF RunOfKey
    <3>2. [run |-> r, status |-> rows[r].status] \in Told
      BY <3>1, NewValues
    <3> QED BY <1>5, <2>2, <3>2 DEF Lookup, Answer, Steps
  <2> QED BY <1>5, <2>1, <2>2 DEF Lookup
<1>6. CASE Insert(c)
  BY <1>6, NewValues DEF Insert, Steps
<1>7. CASE Conflict(c) \/ Started(c)
  BY <1>7 DEF Conflict, Started, Steps
<1>8. CASE Load(c)
  BY <1>8 DEF Load, Steps
<1>9. CASE Provider(c)
  BY <1>9 DEF Provider, Steps
<1>10. CASE Commit(c) \/ CommitFailed(c) \/ Link(c) \/ LinkFailed(c)
  <2>1. rows[c] \in Row
    BY <1>10 DEF Commit, CommitFailed, Link, LinkFailed, RowFollowsStep, BeforeRun
  <2>2. \/ rows' = [rows EXCEPT ![c] = [rows[c] EXCEPT !.status = "success", !.output = TRUE]]
        \/ rows' = [rows EXCEPT ![c] = [rows[c] EXCEPT !.status = "failed"]]
        \/ rows' = [rows EXCEPT ![c] = [rows[c] EXCEPT !.linked = TRUE]]
    BY <1>10 DEF Commit, CommitFailed, Link, LinkFailed
  <2>3. /\ [rows[c] EXCEPT !.status = "success", !.output = TRUE] \in Row
        /\ [rows[c] EXCEPT !.status = "failed"] \in Row
        /\ [rows[c] EXCEPT !.linked = TRUE] \in Row
    BY <2>1, RowWrites
  <2>4. rows' \in [Calls -> Row \cup {None}]
    BY <2>2, <2>3
  <2>5. total' \in Nat /\ seen' \in [Calls -> Nat]
    BY <1>10 DEF Commit, CommitFailed, Link, LinkFailed
  <2>6. step' \in [Calls -> Steps]
    BY <1>10 DEF Commit, CommitFailed, Link, LinkFailed, Steps
  <2> QED BY <1>10, <2>4, <2>5, <2>6 DEF Commit, CommitFailed, Link, LinkFailed
<1>11. CASE ReceiptAllow(c) \/ ReceiptError(c)
  BY <1>11 DEF ReceiptAllow, ReceiptError, Chain, Decision, Steps
<1>12. CASE Completed(c) \/ Failed(c)
  <2>1. rows[c] \in Row
    BY <1>12 DEF Completed, Failed, RowFollowsStep, BeforeRun
  <2>2. [run |-> c, status |-> rows[c].status] \in Told
    BY <2>1, NewValues
  <2> QED BY <1>12, <2>2 DEF Completed, Failed, Answer, Steps
<1>13. CASE Except(c)
  BY <1>13 DEF Except, Steps
<1>14. CASE Reload(c)
  BY <1>14 DEF Reload, Steps
<1>15. CASE Raise(c)
  BY <1>15 DEF Raise, Steps
<1>16. CASE Crash(c)
  BY <1>16 DEF Crash, Steps
<1> QED
  BY <1>1, <1>2, <1>3, <1>4, <1>5, <1>6, <1>7, <1>8, <1>9, <1>10, <1>11, <1>12, <1>13,
     <1>14, <1>15, <1>16 DEF CallStep, Step

\* A step of one call leaves the others as they were.
LEMMA OthersKeepTheirs ==
  ASSUME Types, NEW c \in Calls, Step(c), NEW d \in Calls \ {c}
  PROVE  /\ step'[d] = step[d] /\ key'[d] = key[d] /\ rows'[d] = rows[d]
         /\ receipts'[d] = receipts[d] /\ told'[d] = told[d]
         /\ d \in paid' <=> d \in paid
<1> USE DEF Types, dbVars, histVars, From, GoTo, Forget
<1>1. ASSUME NEW k \in Keys \cup {NoKey}, Enter(c, k)
      PROVE  step'[d] = step[d] /\ key'[d] = key[d]
  BY <1>1 DEF Enter
<1>2. step'[d] = step[d]
  BY <1>1 DEF Step, CallStep, Allow, Pause, Block, Lookup, Insert, Conflict, Started, Load,
     Provider, Commit, ReceiptAllow, Link, Completed, Except, Reload, CommitFailed,
     ReceiptError, LinkFailed, Failed, Raise, Crash
<1>3. key'[d] = key[d]
  BY <1>1 DEF Step, CallStep, Allow, Pause, Block, Lookup, Insert, Conflict, Started, Load,
     Provider, Commit, ReceiptAllow, Link, Completed, Except, Reload, CommitFailed,
     ReceiptError, LinkFailed, Failed, Raise, Crash
<1>4. rows'[d] = rows[d]
  BY DEF Step, Enter, CallStep, Allow, Pause, Block, Lookup, Insert, Conflict, Started, Load,
     Provider, Commit, ReceiptAllow, Link, Completed, Except, Reload, CommitFailed,
     ReceiptError, LinkFailed, Failed, Raise, Crash
<1>5. receipts'[d] = receipts[d]
  BY DEF Step, Enter, CallStep, Allow, Pause, Block, Lookup, Insert, Conflict, Started, Load,
     Provider, Commit, ReceiptAllow, Link, Completed, Except, Reload, CommitFailed,
     ReceiptError, LinkFailed, Failed, Raise, Crash, Chain
<1>6. told'[d] = told[d] /\ (d \in paid' <=> d \in paid)
  BY DEF Step, Enter, CallStep, Allow, Pause, Block, Lookup, Insert, Conflict, Started, Load,
     Provider, Commit, ReceiptAllow, Link, Completed, Except, Reload, CommitFailed,
     ReceiptError, LinkFailed, Failed, Raise, Crash, Answer
<1> QED BY <1>2, <1>3, <1>4, <1>5, <1>6

\* Where a call may go with its row, its receipt and its answer as they are.
Moves ==
  ({"new"} \X {"decide"}) \cup ({"decide"} \X {"lookup"}) \cup ({"lookup"} \X {"insert"})
    \cup ({"started"} \X {"load"}) \cup ({"load"} \X {"provider"})
    \cup ({"load", "provider", "commit", "receipt", "link", "completed"} \X {"failing"})
    \cup ({"provider"} \X {"commit"}) \cup ({"failing"} \X {"fail"})
    \cup (Steps \X {"done"})

Stays(c) ==
  /\ <<step[c], step'[c]>> \in Moves
  /\ rows'[c] = rows[c] /\ receipts'[c] = receipts[c] /\ told'[c] = told[c]
  /\ c \in paid' => c \in paid \/ step[c] = "provider"

\* Such a move keeps what the invariant says of the call.
LEMMA MovesKeep ==
  ASSUME Types, NEW c \in Calls, CallInv(c), Stays(c)
  PROVE  CallInv(c)'
<1>1. RowFollowsStep(c)'
  BY DEF CallInv, RowFollowsStep, BeforeRun, BeforeReceipt, Stays, Moves
<1>2. OutcomeFollowsStep(c)'
  BY DEF CallInv, RowFollowsStep, OutcomeFollowsStep, BeforeRun, BeforeReceipt, Stays, Moves
<1>3. RowAgrees(c)'
  BY DEF CallInv, RowAgrees, Stays
<1> QED BY <1>1, <1>2, <1>3 DEF CallInv

\* The steps that are such moves.
LEMMA StepsThatMove ==
  ASSUME Types, NEW c \in Calls,
         \/ \E k \in Keys \cup {NoKey} : Enter(c, k)
         \/ Allow(c) \/ Pause(c) \/ Block(c) \/ Conflict(c) \/ Started(c) \/ Load(c)
         \/ Provider(c) \/ Except(c) \/ Reload(c) \/ Raise(c) \/ Crash(c)
  PROVE  Stays(c)
<1> USE DEF Types, dbVars, histVars, From, GoTo, Forget, Stays, Moves, Steps
<1>1. ASSUME NEW k \in Keys \cup {NoKey}, Enter(c, k) PROVE Stays(c)
  BY <1>1 DEF Enter
<1>2. CASE Allow(c) \/ Pause(c)
  BY <1>2 DEF Allow, Pause
<1>3. CASE Block(c)
  BY <1>3 DEF Block
<1>4. CASE Conflict(c) \/ Started(c)
  BY <1>4 DEF Conflict, Started
<1>5. CASE Load(c) \/ Reload(c)
  BY <1>5 DEF Load, Reload
<1>6. CASE Provider(c)
  BY <1>6 DEF Provider
<1>7. CASE Except(c)
  BY <1>7 DEF Except
<1>8. CASE Raise(c)
  BY <1>8 DEF Raise
<1>9. CASE Crash(c)
  BY <1>9 DEF Crash
<1> QED BY <1>1, <1>2, <1>3, <1>4, <1>5, <1>6, <1>7, <1>8, <1>9

\* A step of a call keeps what the invariant says of it.
LEMMA StepKeepsItsOwn ==
  ASSUME Types, NEW c \in Calls, CallInv(c), Step(c)
  PROVE  CallInv(c)'
<1> USE DEF dbVars, histVars, From, GoTo, BeforeRun, BeforeReceipt
<1>1. CASE Stays(c)
  BY <1>1, MovesKeep
<1>2. CASE Lookup(c)
  <2>1. ASSUME NEW r \in RunOfKey(c), Answer(c, r, rows[r].status), GoTo(c, "done")
        PROVE  CallInv(c)'
    <3>1. r # c /\ told'[c].run = r
      BY <1>2, <2>1 DEF RunOfKey, Lookup, CallInv, RowFollowsStep, Answer, Types
    <3>2. /\ rows'[c] = None /\ receipts'[c] = None /\ step'[c] = "done"
          /\ c \notin paid'
      BY <1>2, <2>1 DEF Lookup, CallInv, RowFollowsStep, Types
    <3> QED BY <3>1, <3>2 DEF CallInv, RowFollowsStep, OutcomeFollowsStep, RowAgrees, Decision
  <2>2. CASE GoTo(c, "insert") /\ UNCHANGED told
    <3>1. Stays(c)
      BY <1>2, <2>2 DEF Lookup, Stays, Moves, Types
    <3> QED BY <3>1, MovesKeep
  <2> QED BY <1>2, <2>1, <2>2 DEF Lookup
<1>3. CASE Insert(c)
  <2>1. rows'[c] = NewRow /\ NewRow # None
    BY <1>3, NewValues DEF Insert, Types
  <2>2. step'[c] = "started" /\ receipts'[c] = None /\ told'[c] = None
    BY <1>3 DEF Insert, CallInv, RowFollowsStep, Types
  <2> QED BY <2>1, <2>2, NewValues
          DEF CallInv, RowFollowsStep, OutcomeFollowsStep, RowAgrees, Decision
<1>4. CASE Commit(c)
  <2>1. rows[c] \in Row /\ told[c] = None /\ receipts[c] = None
    BY <1>4 DEF Commit, CallInv, RowFollowsStep, Types
  <2>2. rows' = [rows EXCEPT ![c] = [rows[c] EXCEPT !.status = "success", !.output = TRUE]]
    BY <1>4 DEF Commit
  <2>3. /\ rows'[c] = [rows[c] EXCEPT !.status = "success", !.output = TRUE]
        /\ step'[c] = "receipt" /\ told'[c] = None /\ receipts'[c] = None
        /\ c \in paid' <=> c \in paid
    BY <1>4, <2>1, <2>2 DEF Commit, Types
  <2>4. rows'[c] \in Row /\ rows'[c].status = "success" /\ rows'[c].output = TRUE
    BY <2>1, <2>3 DEF Row
  <2>5. rows'[c].linked = rows[c].linked /\ (rows[c].linked => FALSE)
    BY <2>1, <2>3 DEF Row, CallInv, RowAgrees
  <2> QED BY <2>3, <2>4, <2>5
          DEF CallInv, RowFollowsStep, OutcomeFollowsStep, RowAgrees, Decision
<1>5. CASE CommitFailed(c)
  <2>1. rows[c] \in Row /\ told[c] = None
    BY <1>5 DEF CommitFailed, CallInv, RowFollowsStep, Types
  <2>2. /\ rows'[c] = [rows[c] EXCEPT !.status = "failed"]
        /\ step'[c] = "failreceipt" /\ told'[c] = None /\ receipts'[c] = receipts[c]
        /\ c \in paid' <=> c \in paid
    BY <1>5, <2>1 DEF CommitFailed, Types
  <2>3. /\ rows'[c] \in Row /\ rows'[c].status = "failed"
        /\ rows'[c].output = rows[c].output /\ rows'[c].linked = rows[c].linked
    BY <2>1, <2>2 DEF Row
  <2>4. receipts[c] # "error"
    BY <1>5 DEF CommitFailed, CallInv, OutcomeFollowsStep
  <2> QED BY <2>1, <2>2, <2>3, <2>4
          DEF CallInv, RowFollowsStep, OutcomeFollowsStep, RowAgrees, Decision
<1>6. CASE ReceiptAllow(c) \/ ReceiptError(c)
  <2>1. /\ rows'[c] = rows[c] /\ told'[c] = told[c]
        /\ c \in paid' <=> c \in paid
        /\ \/ /\ step[c] = "receipt" /\ step'[c] = "link"
              /\ receipts'[c] = IF receipts[c] = None THEN "allow" ELSE receipts[c]
           \/ /\ step[c] = "failreceipt" /\ step'[c] = "faillink"
              /\ receipts'[c] = IF receipts[c] = None THEN "error" ELSE receipts[c]
    BY <1>6 DEF ReceiptAllow, ReceiptError, Chain, Types
  <2>2. RowFollowsStep(c)' /\ OutcomeFollowsStep(c)'
    BY <2>1 DEF CallInv, RowFollowsStep, OutcomeFollowsStep, Decision
  <2>3. RowAgrees(c)'
    BY <2>1 DEF CallInv, RowFollowsStep, OutcomeFollowsStep, RowAgrees, Decision
  <2> QED BY <2>2, <2>3 DEF CallInv
<1>7. CASE Link(c) \/ LinkFailed(c)
  <2>1. rows[c] \in Row /\ told[c] = None
    BY <1>7 DEF Link, LinkFailed, CallInv, RowFollowsStep, Types
  <2>2. /\ rows'[c] = [rows[c] EXCEPT !.linked = TRUE]
        /\ told'[c] = None /\ receipts'[c] = receipts[c]
        /\ c \in paid' <=> c \in paid
        /\ \/ step[c] = "link" /\ step'[c] = "completed"
           \/ step[c] = "faillink" /\ step'[c] = "failed"
    BY <1>7, <2>1 DEF Link, LinkFailed, Types
  <2>3. /\ rows'[c] \in Row /\ rows'[c].linked
        /\ rows[c].output => rows'[c].output
        /\ rows'[c].status = rows[c].status
    BY <2>1, <2>2 DEF Row
  <2>4. RowFollowsStep(c)' /\ OutcomeFollowsStep(c)'
    BY <2>1, <2>2, <2>3 DEF CallInv, RowFollowsStep, OutcomeFollowsStep, Decision
  <2>5. RowAgrees(c)'
    <3>1. receipts[c] = "allow" => rows'[c].output
      BY <2>3 DEF CallInv, RowAgrees
    <3>2. receipts[c] # None
      BY <2>2, <2>1 DEF CallInv, OutcomeFollowsStep, Decision
    <3>3. receipts[c] = "error" => rows'[c].status = "failed"
      BY <2>3 DEF CallInv, RowAgrees
    <3> QED BY <2>2, <3>1, <3>2, <3>3 DEF RowAgrees
  <2> QED BY <2>4, <2>5 DEF CallInv
<1>8. CASE Completed(c) \/ Failed(c)
  <2>1. rows[c] \in Row
    BY <1>8 DEF Completed, Failed, CallInv, RowFollowsStep, Types
  <2>2. told'[c] = [run |-> c, status |-> rows[c].status]
    BY <1>8 DEF Completed, Failed, Answer, Types
  <2>3. told'[c].run = c /\ told'[c].status = rows[c].status
    BY <2>2
  <2>4. /\ rows'[c] = rows[c] /\ receipts'[c] = receipts[c] /\ step'[c] = "done"
        /\ c \in paid' <=> c \in paid
        /\ step[c] \in {"completed", "failed"}
    BY <1>8 DEF Completed, Failed, Types
  <2>5. RowFollowsStep(c)' /\ OutcomeFollowsStep(c)'
    BY <2>4 DEF CallInv, RowFollowsStep, OutcomeFollowsStep, RowAgrees
  <2>6. RowAgrees(c)'
    BY <2>1, <2>3, <2>4 DEF CallInv, RowFollowsStep, OutcomeFollowsStep, RowAgrees, Decision
  <2> QED BY <2>5, <2>6 DEF CallInv
<1> QED
  BY <1>1, <1>2, <1>3, <1>4, <1>5, <1>6, <1>7, <1>8, StepsThatMove DEF CallStep, Step

\* Only Insert gives a call its row.
LEMMA RowsAreInserted ==
  ASSUME Types, NEW c \in Calls, RowFollowsStep(c), Step(c), rows[c] = None, rows'[c] # None
  PROVE  Insert(c)
<1>1. \/ rows'[c] = rows[c] \/ Insert(c)
      \/ Commit(c) \/ CommitFailed(c) \/ Link(c) \/ LinkFailed(c)
  BY DEF Step, Enter, CallStep, Allow, Pause, Block, Lookup, Conflict, Started, Load,
     Provider, ReceiptAllow, Completed, Except, Reload,
     ReceiptError, Failed, Raise, Crash, dbVars, histVars
<1> QED
  BY <1>1 DEF Commit, CommitFailed, Link, LinkFailed, RowFollowsStep, BeforeRun, From

\* A call with a row keeps its key.
LEMMA KeyIsKept ==
  ASSUME Types, NEW c \in Calls, RowFollowsStep(c), Step(c), rows[c] # None
  PROVE  key'[c] = key[c]
<1>1. key'[c] = key[c] \/ step[c] = "new"
  BY DEF Step, Enter, CallStep, Allow, Pause, Block, Lookup, Insert, Conflict, Started, Load,
     Provider, Commit, ReceiptAllow, Link, Completed, Except, Reload, CommitFailed,
     ReceiptError, LinkFailed, Failed, Raise, Crash, From
<1> QED BY <1>1 DEF RowFollowsStep, BeforeRun

\* A row appears only where no row has the call's key, and keys change only
\* before the row: two runs never share a key.
LEMMA StepKeepsKeysApart ==
  ASSUME RunInv, NEW c \in Calls, Step(c)
  PROVE  KeyRunsOnce'
<1>1. /\ Types /\ Types'
      /\ \A d \in Calls : RowFollowsStep(d) /\ RowFollowsStep(d)'
  <2>1. Types'
    BY StepKeepsTypes DEF RunInv, CallInv
  <2>2. ASSUME NEW d \in Calls PROVE RowFollowsStep(d)'
    <3>1. CASE d = c
      BY <3>1, StepKeepsItsOwn DEF RunInv, CallInv
    <3>2. CASE d # c
      BY <3>2, OthersKeepTheirs DEF RunInv, CallInv, RowFollowsStep
    <3> QED BY <3>1, <3>2
  <2> QED BY <2>1, <2>2 DEF RunInv, CallInv
<1>2. ASSUME NEW a \in Calls, NEW b \in Calls \ {c}, rows'[a] # None, rows'[b] # None,
             key'[a] = key'[b], key'[a] # NoKey
      PROVE  a = b
  <2>1. rows[b] # None /\ key'[b] = key[b]
    BY <1>1, <1>2, OthersKeepTheirs
  <2>2. CASE a # c
    BY <1>2, <2>1, <2>2, <1>1, OthersKeepTheirs DEF RunInv, KeyRunsOnce
  <2>3. CASE a = c /\ rows[c] # None
    <3>1. key'[c] = key[c]
      BY <2>3, KeyIsKept DEF RunInv, CallInv
    <3> QED BY <1>2, <2>1, <2>3, <3>1 DEF RunInv, KeyRunsOnce
  <2>4. CASE a = c /\ rows[c] = None
    <3>1. Insert(c)
      BY <1>2, <2>4, RowsAreInserted DEF RunInv, CallInv
    <3> QED BY <1>2, <2>1, <2>4, <3>1 DEF Insert, RunOfKey
  <2> QED BY <2>2, <2>3, <2>4
<1>3. \A d \in paid' : d \in Calls /\ rows'[d] # None
  BY <1>1 DEF Types, RowFollowsStep
<1> QED BY <1>2, <1>3 DEF KeyRunsOnce

-----------------------------------------------------------------------------
(* The theorems.                                                           *)

\* Every step keeps the invariant.
LEMMA NextKeepsRunInv == RunInv /\ [Next]_vars => RunInv'
<1> SUFFICES ASSUME RunInv, [Next]_vars PROVE RunInv'
  OBVIOUS
<1>1. ASSUME NEW c \in Calls, Step(c) PROVE RunInv'
  <2>1. Types'
    BY <1>1, StepKeepsTypes DEF RunInv, CallInv
  <2>2. ASSUME NEW d \in Calls PROVE CallInv(d)'
    <3>1. CASE d = c
      BY <1>1, <3>1, StepKeepsItsOwn DEF RunInv
    <3>2. CASE d # c
      <4>1. /\ step'[d] = step[d] /\ rows'[d] = rows[d] /\ receipts'[d] = receipts[d]
            /\ told'[d] = told[d] /\ (d \in paid' <=> d \in paid)
        BY <1>1, <3>2, OthersKeepTheirs DEF RunInv
      <4> QED BY <4>1 DEF RunInv, CallInv, RowFollowsStep, OutcomeFollowsStep, RowAgrees
    <3> QED BY <3>1, <3>2
  <2>3. KeyRunsOnce'
    BY <1>1, StepKeepsKeysApart
  <2> QED BY <2>1, <2>2, <2>3 DEF RunInv
<1>2. CASE Tick \/ UNCHANGED vars
  <2>1. clock' \in 0..MaxClock
    BY <1>2 DEF Tick, vars, RunInv, Types
  <2>2. UNCHANGED <<callVars, dbVars, histVars>>
    BY <1>2 DEF Tick, vars
  <2> QED
    BY <2>1, <2>2 DEF callVars, dbVars, histVars, RunInv, Types, CallInv, RowFollowsStep,
       OutcomeFollowsStep, RowAgrees, KeyRunsOnce
<1> QED BY <1>1, <1>2 DEF Next, Step

\* The invariant holds in every reachable state.
LEMMA RunInvHolds == Spec => []RunInv
<1> QED BY InitRunInv, NextKeepsRunInv, PTL DEF Spec

\* An idempotency key runs its skill once, for any number of calls with it.
THEOREM KeysRunOnce == Spec => []KeyRunsOnce
<1> QED BY RunInvHolds, RunInvSuffices, PTL

\* The row, the receipt and the answer of a run tell one outcome, whatever
\* commit fails and wherever the process dies.
THEOREM OutcomesAlwaysAgree == Spec => []OutcomesAgree
<1> QED BY RunInvHolds, RunInvSuffices, PTL

-----------------------------------------------------------------------------
(***************************************************************************)
(* Policies.                                                               *)
(***************************************************************************)

\* What a thread may be doing.
ReloadJob == [kind : {"reload"}, step : {"load", "keep", "build", "install"}, n : {1, 2},
           held : Versions \cup {"none"}, seen : SUBSET Versions, alone : BOOLEAN]
Modes ==
  {"none", "allow"}
    \cup UNION {{Rules[v][i].then : i \in DOMAIN Rules[v]} : v \in Versions}
EvaluationJob == [kind : {"evaluate"}, step : {"rule", "count", "decided"}, n : Nat,
               rules : Versions, k : Subjects, f : Facts, ts : 0..MaxTime,
               before : SUBSET (0..MaxTime), due : BOOLEAN, mode : Modes]

PolicyTypes ==
  /\ PolicyTypeOK
  /\ env \in {"production", "development"} /\ now \in 0..MaxTime
  /\ cache \in Readable \cup {"none"}
  /\ DOMAIN th = Threads
  /\ \A t \in Threads : th[t] \in {NoJob} \cup ReloadJob \cup EvaluationJob

\* What a reload holds could be read and, if no other one overlaps, was in the
\* directory while it ran; so was what it finds in the cache.
ReloadInv(t) == th[t].kind = "reload" =>
  /\ disk \in th[t].seen
  /\ th[t].step # "load" => th[t].held \in Readable
  /\ th[t].alone =>
       /\ Reloads = {t}
       /\ cache \in th[t].seen \cup {"none"}
       /\ th[t].step # "load" => th[t].held \in th[t].seen

\* Of the requests that were counted the history has the last, or one that
\* came after it.
RateInv == \A k \in Subjects : \A s \in counted[k] : \E r \in rate[k] : r >= s

\* An evaluation that has passed a repeat asked no rule about it.
EvaluationInv(t) == th[t].kind = "evaluate" =>
  /\ th[t].n \in DOMAIN Rules[th[t].rules]
  /\ th[t].step = "count" =>
       /\ Asks(Rule(t).when, th[t].f)
       /\ th[t].due => \E r \in th[t].before : r + Window >= th[t].ts
  /\ DeniesRepeats(th[t].rules) =>
       /\ th[t].step = "rule" => ~ th[t].due
       /\ th[t].step = "decided" /\ th[t].due => th[t].mode # "allow"

PolicyInv ==
  /\ PolicyTypes
  /\ \A t \in Threads : ReloadInv(t) /\ EvaluationInv(t)
  /\ RateInv
  /\ ProductionIsGoverned

\* The invariant says what the properties say.
LEMMA PolicyInvSuffices ==
  PolicyInv => RepeatsAreCaught /\ ReloadTakesEffect /\ ProductionIsGoverned
<1> SUFFICES ASSUME PolicyInv PROVE RepeatsAreCaught /\ ReloadTakesEffect
  BY DEF PolicyInv
<1>1. \A t \in Threads : th[t].kind = "evaluate" => th[t].kind # "reload"
  OBVIOUS
<1>2. RepeatsAreCaught
  BY DEF PolicyInv, EvaluationInv, RepeatsAreCaught, At
<1>3. ReloadTakesEffect
  BY DEF PolicyInv, ReloadInv, ReloadTakesEffect, Reloads
<1> QED BY <1>2, <1>3

\* PolicyInv holds at the start.
LEMMA InitPolicyInv == PolicyInit => PolicyInv
<1> SUFFICES ASSUME PolicyInit PROVE PolicyInv
  OBVIOUS
<1>1. \A t \in Threads : th[t] = NoJob /\ th[t].kind = "none"
  BY DEF PolicyInit, NoJob
<1>2. \A k \in Subjects : rate[k] = {} /\ counted[k] = {}
  BY DEF PolicyInit, Cleared
<1>3. {rate, counted} \subseteq [Subjects -> SUBSET (0..MaxTime)]
  BY DEF PolicyInit, Cleared
<1>4. PolicyTypes
  BY <1>1, <1>3, BoundsAssumption DEF PolicyInit, PolicyTypes, PolicyTypeOK, NoJob
<1>5. RateInv
  BY <1>2 DEF RateInv
<1>6. ProductionIsGoverned
  BY <1>4 DEF PolicyInit, PolicyTypes, ProductionIsGoverned
<1> QED BY <1>1, <1>4, <1>5, <1>6 DEF PolicyInv, ReloadInv, EvaluationInv

-----------------------------------------------------------------------------
(* Steps of one thread.                                                    *)

\* One thread goes on to q.
GoesOn(t, q) ==
  /\ DOMAIN th' = Threads
  /\ th'[t] = q
  /\ \A u \in Threads \ {t} : th'[u] = th[u]

\* A thread's job is one of three kinds.
LEMMA JobKinds ==
  ASSUME PolicyTypes, NEW t \in Threads
  PROVE  /\ th[t].kind = "none" <=> th[t] = NoJob
         /\ th[t].kind = "reload" <=> th[t] \in ReloadJob
         /\ th[t].kind = "evaluate" <=> th[t] \in EvaluationJob
         /\ th[t].kind \in {"none", "reload", "evaluate"}
<1>1. th[t] \in {NoJob} \cup ReloadJob \cup EvaluationJob
  BY DEF PolicyTypes
<1>2. NoJob.kind = "none" /\ \A r \in ReloadJob : r.kind = "reload"
  BY DEF NoJob, ReloadJob
<1>3. \A r \in EvaluationJob : r.kind = "evaluate"
  BY DEF EvaluationJob
<1> QED BY <1>1, <1>2, <1>3

\* What a history must be.
Histories(r, c) ==
  /\ {r, c} \subseteq [Subjects -> SUBSET (0..MaxTime)]
  /\ \A k \in Subjects : \A s \in c[k] : \E x \in r[k] : x >= s

\* A cleared one is one.
LEMMA ClearedIsHistory == Histories(Cleared, Cleared)
<1>1. \A k \in Subjects : Cleared[k] = {}
  BY DEF Cleared
<1>2. Cleared \in [Subjects -> SUBSET (0..MaxTime)]
  BY DEF Cleared
<1> QED BY <1>1, <1>2 DEF Histories

\* A step of a thread that does not reload and does not start to.
LEMMA EvaluationKeeps ==
  ASSUME PolicyInv, NEW t \in Threads, NEW q \in {NoJob} \cup EvaluationJob, GoesOn(t, q),
         th[t].kind # "reload", UNCHANGED <<env, disk, cache, engine, now>>,
         engine # "off", Histories(rate', counted'), EvaluationInv(t)'
  PROVE  PolicyInv'
<1>1. q.kind # "reload" /\ th'[t] = q
  BY DEF GoesOn, NoJob, EvaluationJob
<1>2. Reloads' = Reloads
  BY <1>1 DEF Reloads, GoesOn
<1>3. PolicyTypes'
  BY DEF PolicyInv, PolicyTypes, PolicyTypeOK, Histories, GoesOn
<1>4. ASSUME NEW u \in Threads, u # t PROVE ReloadInv(u)' /\ EvaluationInv(u)'
  <2>1. th'[u] = th[u] /\ ReloadInv(u) /\ EvaluationInv(u)
    BY <1>4 DEF PolicyInv, GoesOn
  <2>2. ReloadInv(u)'
    BY <1>2, <2>1 DEF ReloadInv
  <2>3. EvaluationInv(u)'
    BY <2>1 DEF EvaluationInv, Rule
  <2> QED BY <2>2, <2>3
<1>5. ReloadInv(t)'
  BY <1>1 DEF ReloadInv
<1>6. ProductionIsGoverned'
  BY <1>3 DEF PolicyInv, ProductionIsGoverned, PolicyTypes
<1> QED BY <1>3, <1>4, <1>5, <1>6 DEF PolicyInv, RateInv, Histories

\* A step of a thread that reloads.
LEMMA ReloadKeeps ==
  ASSUME PolicyInv, NEW t \in Threads, NEW q \in {NoJob} \cup ReloadJob, GoesOn(t, q),
         th[t].kind = "reload", UNCHANGED <<env, disk, now>>,
         cache' \in Readable \cup {"none"}, engine' \in Versions \cup {"demo"},
         env = "production" => engine' # "demo", Histories(rate', counted'), ReloadInv(t)'
  PROVE  PolicyInv'
<1>1. q.kind # "evaluate" /\ th'[t] = q
  BY DEF GoesOn, NoJob, ReloadJob
<1>2. engine' # "off"
  BY RulesAssumption
<1>3. PolicyTypes'
  <2>1. \A u \in Threads : th'[u] \in {NoJob} \cup ReloadJob \cup EvaluationJob
    BY DEF PolicyInv, PolicyTypes, GoesOn
  <2>2. PolicyTypeOK'
    BY <1>2, RulesAssumption DEF PolicyInv, PolicyTypes, PolicyTypeOK, Histories
  <2> QED BY <2>1, <2>2 DEF PolicyInv, PolicyTypes, GoesOn
<1>4. ASSUME NEW u \in Threads, u # t PROVE ReloadInv(u)' /\ EvaluationInv(u)'
  <2>1. th'[u] = th[u] /\ ReloadInv(u) /\ EvaluationInv(u)
    BY <1>4 DEF PolicyInv, GoesOn
  <2>2. th[u].kind = "reload" => ~ th[u].alone
    <3>1. t \in Reloads
      BY DEF Reloads
    <3>2. th[u].kind = "reload" => th[u] \in ReloadJob
      BY JobKinds DEF PolicyInv
    <3> QED BY <1>4, <2>1, <3>1, <3>2 DEF ReloadInv, ReloadJob
  <2>3. ReloadInv(u)'
    BY <2>1, <2>2 DEF ReloadInv
  <2>4. EvaluationInv(u)'
    BY <2>1 DEF EvaluationInv, Rule
  <2> QED BY <2>3, <2>4
<1>5. EvaluationInv(t)'
  BY <1>1 DEF EvaluationInv
<1>6. ProductionIsGoverned'
  BY <1>3 DEF PolicyInv, ProductionIsGoverned, PolicyTypes
<1> QED BY <1>3, <1>4, <1>5, <1>6 DEF PolicyInv, RateInv, Histories

-----------------------------------------------------------------------------
(* Each action keeps the invariant.                                        *)

\* Somebody writes to the directory.
LEMMA EditKeeps == ASSUME PolicyInv, NEW v \in Versions, Edit(v) PROVE PolicyInv'
<1>1. ASSUME NEW t \in Threads, th[t].kind = "reload"
      PROVE  /\ th'[t] \in ReloadJob /\ th[t] \in ReloadJob
             /\ th'[t] = [th[t] EXCEPT !.seen = th[t].seen \cup {v}]
  <2>1. th[t] \in ReloadJob
    BY <1>1, JobKinds DEF PolicyInv
  <2>2. th'[t] = [th[t] EXCEPT !.seen = th[t].seen \cup {v}]
    BY <1>1 DEF Edit
  <2> QED BY <2>1, <2>2 DEF ReloadJob
<1>2. ASSUME NEW t \in Threads, th[t].kind # "reload" PROVE th'[t] = th[t]
  BY <1>2 DEF Edit
<1>3. Reloads' = Reloads
  <2>1. \A t \in Threads : th'[t].kind = "reload" <=> th[t].kind = "reload"
    BY <1>1, <1>2 DEF ReloadJob
  <2> QED BY <2>1 DEF Reloads
<1>4. PolicyTypes'
  <2>1. \A t \in Threads : th'[t] \in {NoJob} \cup ReloadJob \cup EvaluationJob
    BY <1>1, <1>2 DEF PolicyInv, PolicyTypes
  <2>2. \A t \in Threads : th'[t] # NoJob => th[t] # NoJob
    <3>1. NoJob \notin ReloadJob /\ NoJob.kind # "reload"
      BY DEF NoJob, ReloadJob
    <3> QED BY <1>1, <1>2, <3>1 DEF ReloadJob
  <2>3. DOMAIN th' = Threads
    BY DEF Edit
  <2>4. disk' \in Versions /\ UNCHANGED <<env, cache, engine, rate, now, counted>>
    BY DEF Edit
  <2>5. PolicyTypeOK'
    BY <2>2, <2>4 DEF PolicyInv, PolicyTypes, PolicyTypeOK
  <2> QED BY <2>1, <2>3, <2>4, <2>5 DEF PolicyInv, PolicyTypes
<1>5. ASSUME NEW t \in Threads PROVE ReloadInv(t)' /\ EvaluationInv(t)'
  <2>1. CASE th[t].kind = "reload"
    <3> DEFINE q == th'[t]
    <3>1. /\ q.kind = "reload" /\ q.step = th[t].step /\ q.held = th[t].held
          /\ q.alone = th[t].alone /\ q.seen = th[t].seen \cup {v}
      BY <1>1, <2>1 DEF ReloadJob
    <3>2. disk' = v /\ cache' = cache
      BY DEF Edit
    <3>3. ReloadInv(t)'
      BY <1>3, <2>1, <3>1, <3>2 DEF PolicyInv, ReloadInv
    <3> QED BY <3>1, <3>3 DEF EvaluationInv
  <2>2. CASE th[t].kind # "reload"
    <3>1. th'[t] = th[t] /\ ReloadInv(t)' /\ EvaluationInv(t)
      BY <1>2, <2>2 DEF PolicyInv, ReloadInv
    <3> QED BY <3>1 DEF EvaluationInv, Rule
  <2> QED BY <2>1, <2>2
<1>6. ProductionIsGoverned' /\ RateInv'
  BY <1>4 DEF Edit, PolicyInv, PolicyTypes, ProductionIsGoverned, RateInv
<1> QED BY <1>4, <1>5, <1>6 DEF PolicyInv

\* Time passes.
LEMMA TimeKeeps == ASSUME PolicyInv, TimePasses PROVE PolicyInv'
<1>1. now' \in 0..MaxTime /\ UNCHANGED <<env, disk, cache, engine, rate, th, counted>>
  BY BoundsAssumption DEF TimePasses, PolicyInv, PolicyTypes
<1> QED BY <1>1 DEF PolicyInv, PolicyTypes, PolicyTypeOK, ReloadInv, Reloads, EvaluationInv,
                    Rule, RateInv, ProductionIsGoverned

\* A process that starts or ends is idle.
LEMMA IdleKeeps ==
  ASSUME PolicyTypeOK', DOMAIN th' = Threads, \A t \in Threads : th'[t] = NoJob,
         env \in {"production", "development"}, now \in 0..MaxTime, UNCHANGED <<env, now>>,
         cache' \in Readable \cup {"none"},
         env = "production" => engine' # "demo", Histories(rate', counted')
  PROVE  PolicyInv'
<1>1. \A t \in Threads : th'[t] = NoJob /\ th'[t].kind = "none"
  BY DEF NoJob
<1>2. PolicyTypes'
  BY <1>1 DEF PolicyTypes
<1> QED BY <1>1, <1>2 DEF PolicyInv, ReloadInv, EvaluationInv, RateInv, Histories,
                          ProductionIsGoverned

\* The MCP server or the Studio starts.
LEMMA StartKeeps == ASSUME PolicyInv, Start PROVE PolicyInv'
<1>1. DOMAIN th' = Threads /\ \A t \in Threads : th'[t] = NoJob
  BY DEF Start, PolicyInv, PolicyTypes, PolicyTypeOK
<1>2. /\ engine' \in Versions \cup {"demo"} /\ (env = "production" => engine' # "demo")
      /\ cache' \in Readable \cup {"none"}
  BY RulesAssumption DEF Start, Fallback, PolicyInv, PolicyTypes, PolicyTypeOK
<1>3. Histories(rate', counted')
  BY DEF Start, PolicyInv, PolicyTypes, PolicyTypeOK, RateInv, Histories
<1>4. PolicyTypeOK'
  <2>1. disk' \in Versions /\ cache' \in Versions \cup {"none"}
    BY <1>2, RulesAssumption DEF Start, PolicyInv, PolicyTypes, PolicyTypeOK
  <2>2. engine' \in Versions \cup {"demo", "off"}
    BY <1>2
  <2>3. {rate', counted'} \subseteq [Subjects -> SUBSET (0..MaxTime)]
    BY <1>3 DEF Histories
  <2> QED BY <1>1, <2>1, <2>2, <2>3 DEF PolicyTypeOK
<1> QED BY <1>1, <1>2, <1>3, <1>4, IdleKeeps DEF PolicyInv, PolicyTypes, Start

\* The process ends.
LEMMA StopKeeps == ASSUME PolicyInv, Stop PROVE PolicyInv'
<1>1. DOMAIN th' = Threads /\ (\A t \in Threads : th'[t] = NoJob) /\ Histories(rate', counted')
  BY ClearedIsHistory DEF Stop
<1>2. PolicyTypeOK'
  BY <1>1 DEF Stop, PolicyInv, PolicyTypes, PolicyTypeOK, Histories
<1> QED BY <1>1, <1>2, IdleKeeps DEF PolicyInv, PolicyTypes, Stop

\* Asking for the active policies.
LEMMA ProbeKeeps == ASSUME PolicyInv, Probe PROVE PolicyInv'
<1>1. Histories(rate', counted') /\ UNCHANGED <<env, disk, cache, engine, now, th>>
  BY ClearedIsHistory DEF Probe
<1>2. PolicyTypeOK'
  BY <1>1 DEF PolicyInv, PolicyTypes, PolicyTypeOK, Histories
<1> QED BY <1>1, <1>2 DEF PolicyInv, PolicyTypes, ReloadInv, Reloads, EvaluationInv, Rule,
                          RateInv, ProductionIsGoverned, Histories

\* A reload begins: it overlaps all that run.
LEMMA BeginReloadKeeps == ASSUME PolicyInv, NEW t \in Threads, BeginReload(t) PROVE PolicyInv'
<1> DEFINE q == NewReload
<1>1. /\ engine # "off" /\ th[t] = NoJob /\ th'[t] = q /\ DOMAIN th' = Threads
      /\ cache' = "none" /\ UNCHANGED <<env, disk, engine, rate, now, counted>>
  <2>1. th'[t] = NewReload /\ DOMAIN th' = Threads
    BY DEF BeginReload, Overlapped
  <2> QED BY <2>1 DEF BeginReload
<1>2. ASSUME NEW u \in Threads, u # t, th[u].kind = "reload"
      PROVE  th'[u] = [th[u] EXCEPT !.alone = FALSE] /\ th[u] \in ReloadJob
  BY <1>2, JobKinds DEF BeginReload, Overlapped, Reloads, PolicyInv
<1>3. ASSUME NEW u \in Threads, u # t, th[u].kind # "reload" PROVE th'[u] = th[u]
  BY <1>3 DEF BeginReload, Overlapped, Reloads
<1>4. q \in ReloadJob /\ q.kind = "reload" /\ q.step = "load" /\ disk \in q.seen
  BY DEF NewReload, ReloadJob, PolicyInv, PolicyTypes, PolicyTypeOK
<1>5. q.alone => Reloads = {}
  BY DEF NewReload
<1> HIDE DEF q
<1>6. ASSUME NEW u \in Threads, u # t, th[u].kind = "reload"
      PROVE  /\ th'[u] \in ReloadJob /\ th'[u].kind = "reload" /\ ~ th'[u].alone
             /\ th'[u].step = th[u].step /\ th'[u].held = th[u].held /\ th'[u].seen = th[u].seen
  BY <1>2, <1>6 DEF ReloadJob
<1>7. PolicyTypes'
  <2>1. \A u \in Threads : th'[u] \in {NoJob} \cup ReloadJob \cup EvaluationJob
    BY <1>1, <1>3, <1>4, <1>6 DEF PolicyInv, PolicyTypes
  <2>2. PolicyTypeOK'
    BY <1>1 DEF PolicyInv, PolicyTypes, PolicyTypeOK
  <2> QED BY <1>1, <2>1, <2>2 DEF PolicyInv, PolicyTypes
<1>8. ASSUME NEW u \in Threads PROVE ReloadInv(u)' /\ EvaluationInv(u)'
  <2>1. CASE u = t
    <3>1. q.alone => Reloads' = {t}
      <4>1. q.alone => \A v \in Threads : v # t => th'[v].kind # "reload"
        BY <1>3, <1>5 DEF Reloads
      <4> QED BY <1>1, <1>4, <4>1 DEF Reloads
    <3> QED BY <1>1, <1>4, <2>1, <3>1 DEF ReloadInv, EvaluationInv
  <2>2. CASE u # t /\ th[u].kind = "reload"
    BY <1>1, <1>6, <2>2 DEF PolicyInv, ReloadInv, EvaluationInv
  <2>3. CASE u # t /\ th[u].kind # "reload"
    <3>1. th'[u] = th[u] /\ EvaluationInv(u)
      BY <1>3, <2>3 DEF PolicyInv
    <3> QED BY <2>3, <3>1 DEF ReloadInv, EvaluationInv, Rule
  <2> QED BY <2>1, <2>2, <2>3
<1>9. RateInv' /\ ProductionIsGoverned'
  BY <1>1, <1>7 DEF PolicyInv, PolicyTypes, RateInv, ProductionIsGoverned
<1> QED BY <1>7, <1>8, <1>9 DEF PolicyInv

\* What the steps of a reload have in common.
LEMMA Reloading ==
  ASSUME PolicyInv, NEW t \in Threads, th[t].kind = "reload"
  PROVE  /\ th[t] \in ReloadJob /\ ReloadInv(t) /\ Histories(rate, counted)
         /\ engine \in Versions \cup {"demo"} /\ (env = "production" => engine # "demo")
         /\ cache \in Readable \cup {"none"} /\ th[t].held \in Versions \cup {"none"}
<1>1. th[t] \in ReloadJob /\ th[t] # NoJob
  BY JobKinds DEF PolicyInv, NoJob
<1> QED BY <1>1 DEF PolicyInv, PolicyTypes, PolicyTypeOK, RateInv, Histories, ReloadJob,
                    ProductionIsGoverned

\* A reload that goes on stays the only one.
LEMMA StaysAlone ==
  ASSUME NEW t \in Threads, NEW q, GoesOn(t, q), q.kind = "reload", Reloads = {t}
  PROVE  Reloads' = {t}
BY DEF Reloads, GoesOn

\* Reading the cache or the files, and filling the cache.
LEMMA LoadKeeps ==
  ASSUME PolicyInv, NEW t \in Threads, LoadCached(t) \/ LoadFiles(t) \/ Keep(t)
  PROVE  PolicyInv'
<1>0. th[t].kind = "reload" /\ th[t].step \in {"load", "keep"}
  BY DEF LoadCached, LoadFiles, Keep, At
<1>1. PICK job \in ReloadJob : job = th[t]
  BY <1>0, Reloading
<1>2. /\ UNCHANGED <<env, disk, engine, rate, now, counted>>
      /\ \/ /\ job.step = "load" /\ cache # "none" /\ cache' = cache
            /\ GoesOn(t, [job EXCEPT !.held = cache, !.step = Loaded(job.n), !.n = 2])
         \/ /\ job.step = "load" /\ cache = "none" /\ cache' = cache /\ disk \in Readable
            /\ GoesOn(t, [job EXCEPT !.held = disk, !.step = "keep"])
         \/ /\ job.step = "keep" /\ cache' = (IF cache = "none" THEN job.held ELSE cache)
            /\ GoesOn(t, [job EXCEPT !.step = Loaded(job.n), !.n = 2])
  <2>1. DOMAIN th = Threads
    BY DEF PolicyInv, PolicyTypes
  <2> QED BY <1>1, <2>1 DEF LoadCached, LoadFiles, Keep, At, GoesOn, ReloadJob
<1>3. /\ job.alone => Reloads = {t} /\ cache \in job.seen \cup {"none"}
      /\ disk \in job.seen /\ (job.step = "keep" => job.held \in Readable)
      /\ job.step = "keep" /\ job.alone => job.held \in job.seen
  BY <1>0, <1>1, Reloading DEF ReloadInv
<1>4. Loaded(job.n) \in {"load", "build"} /\ cache \in Readable \cup {"none"}
  BY <1>0, Reloading DEF Loaded
<1>5. ASSUME NEW q \in ReloadJob, GoesOn(t, q), q.alone = job.alone, q.seen = job.seen,
             q.held \in Readable, job.alone => q.held \in job.seen,
             cache' \in Readable \cup {"none"},
             job.alone => cache' \in job.seen \cup {"none"}
      PROVE  PolicyInv'
  <2>1. q.kind = "reload" /\ th'[t] = q
    BY <1>5 DEF ReloadJob, GoesOn
  <2>2. ReloadInv(t)'
    BY <1>2, <1>3, <1>5, <2>1, StaysAlone DEF ReloadInv
  <2>3. /\ Histories(rate', counted') /\ engine' \in Versions \cup {"demo"}
        /\ (env = "production" => engine' # "demo")
    BY <1>0, <1>2, Reloading
  <2> QED BY <1>0, <1>2, <1>5, <2>2, <2>3, ReloadKeeps
<1>6. CASE GoesOn(t, [job EXCEPT !.held = cache, !.step = Loaded(job.n), !.n = 2])
           /\ cache # "none" /\ cache' = cache
  <2> DEFINE q == [job EXCEPT !.held = cache, !.step = Loaded(job.n), !.n = 2]
  <2>1. q \in ReloadJob /\ q.alone = job.alone /\ q.seen = job.seen /\ q.held = cache
    BY <1>4, <1>6, RulesAssumption DEF ReloadJob
  <2> HIDE DEF q
  <2> QED BY <1>3, <1>4, <1>5, <1>6, <2>1 DEF q
<1>7. CASE GoesOn(t, [job EXCEPT !.held = disk, !.step = "keep"])
           /\ disk \in Readable /\ cache' = cache
  <2> DEFINE q == [job EXCEPT !.held = disk, !.step = "keep"]
  <2>1. q \in ReloadJob /\ q.alone = job.alone /\ q.seen = job.seen /\ q.held = disk
    BY <1>7, RulesAssumption DEF ReloadJob
  <2> HIDE DEF q
  <2> QED BY <1>3, <1>4, <1>5, <1>7, <2>1 DEF q
<1>8. CASE GoesOn(t, [job EXCEPT !.step = Loaded(job.n), !.n = 2]) /\ job.step = "keep"
           /\ cache' = (IF cache = "none" THEN job.held ELSE cache)
  <2> DEFINE q == [job EXCEPT !.step = Loaded(job.n), !.n = 2]
  <2>1. q \in ReloadJob /\ q.alone = job.alone /\ q.seen = job.seen /\ q.held = job.held
    BY <1>4 DEF ReloadJob
  <2> HIDE DEF q
  <2> QED BY <1>3, <1>4, <1>5, <1>8, <2>1 DEF q
<1> QED BY <1>2, <1>6, <1>7, <1>8

\* A load that fails, and with it a production process.
LEMMA LoadFailsKeeps == ASSUME PolicyInv, NEW t \in Threads, LoadFails(t) PROVE PolicyInv'
<1>0. /\ th[t].kind = "reload" /\ DOMAIN th = Threads
      /\ cache = "none" /\ UNCHANGED <<env, disk, cache, now>>
  BY DEF LoadFails, At, PolicyInv, PolicyTypes
<1>1. /\ engine' \in {engine, "off", "demo"}
      /\ (env = "production" /\ engine' # engine => engine' = "off")
  BY DEF LoadFails, Fallback
<1>2. CASE engine' = "off"
  <2>1. DOMAIN th' = Threads /\ (\A u \in Threads : th'[u] = NoJob) /\ Histories(rate', counted')
    BY <1>2, ClearedIsHistory DEF LoadFails
  <2>2. PolicyTypeOK'
    BY <1>0, <1>2, <2>1 DEF PolicyInv, PolicyTypes, PolicyTypeOK, Histories
  <2> QED BY <1>0, <1>2, <2>1, <2>2, IdleKeeps DEF PolicyInv, PolicyTypes
<1>3. CASE engine' # "off"
  <2>1. GoesOn(t, NoJob) /\ UNCHANGED <<rate, counted>>
    BY <1>0, <1>3 DEF LoadFails, GoesOn
  <2>2. ReloadInv(t)'
    BY <2>1 DEF GoesOn, ReloadInv, NoJob
  <2>3. engine' \in Versions \cup {"demo"} /\ (env = "production" => engine' # "demo")
    <3>1. engine \in Versions \cup {"demo"} /\ (env = "production" => engine # "demo")
      BY <1>0, Reloading
    <3> QED BY <1>1, <1>3, <3>1
  <2>4. Histories(rate', counted') /\ cache' \in Readable \cup {"none"}
    BY <1>0, <2>1, Reloading
  <2> QED BY <1>0, <2>1, <2>2, <2>3, <2>4, ReloadKeeps
<1> QED BY <1>2, <1>3

\* The new evaluator is made, which clears the history, and put in place.
LEMMA InstallKeeps ==
  ASSUME PolicyInv, NEW t \in Threads, Build(t) \/ Install(t) PROVE PolicyInv'
<1>0. th[t].kind = "reload" /\ DOMAIN th = Threads
  BY DEF Build, Install, At, PolicyInv, PolicyTypes
<1>1. CASE Build(t)
  <2>1. PICK job \in ReloadJob : job = th[t]
    BY <1>0, Reloading
  <2> DEFINE q == [job EXCEPT !.step = "install"]
  <2>2. GoesOn(t, q) /\ UNCHANGED <<env, disk, cache, engine, now>>
    BY <1>0, <1>1, <2>1 DEF Build, GoesOn
  <2>3. /\ q \in ReloadJob /\ q.alone = job.alone /\ q.seen = job.seen /\ q.held = job.held
        /\ q.kind = "reload" /\ job.step = "build"
    BY <1>1, <2>1 DEF ReloadJob, Build, At
  <2> HIDE DEF q
  <2>4. Histories(rate', counted')
    BY <1>1, ClearedIsHistory DEF Build
  <2>5. ReloadInv(t)'
    <3>1. ReloadInv(t) /\ th'[t] = q
      BY <1>0, <2>2, Reloading DEF GoesOn
    <3>2. q.alone => Reloads' = {t}
      BY <1>0, <2>1, <2>2, <2>3, <3>1, StaysAlone DEF ReloadInv
    <3> QED BY <1>0, <2>1, <2>2, <2>3, <3>1, <3>2 DEF ReloadInv
  <2>6. /\ cache' \in Readable \cup {"none"} /\ engine' \in Versions \cup {"demo"}
        /\ (env = "production" => engine' # "demo")
    BY <1>0, <2>2, Reloading
  <2> QED BY <1>0, <2>2, <2>3, <2>4, <2>5, <2>6, ReloadKeeps
<1>2. CASE Install(t)
  <2>1. GoesOn(t, NoJob) /\ UNCHANGED <<env, disk, cache, rate, now, counted>>
    BY <1>0, <1>2 DEF Install, GoesOn
  <2>2. ReloadInv(t)'
    BY <2>1 DEF GoesOn, ReloadInv, NoJob
  <2>3. engine' \in Readable
    BY <1>0, <1>2, Reloading DEF Install, At, ReloadInv
  <2>4. engine' \in Versions /\ engine' # "demo"
    BY <2>3, RulesAssumption
  <2>5. Histories(rate', counted') /\ cache' \in Readable \cup {"none"}
    BY <1>0, <2>1, Reloading
  <2> QED BY <1>0, <2>1, <2>2, <2>4, <2>5, ReloadKeeps
<1> QED BY <1>1, <1>2


\* An evaluation under way, and its rules.
LEMMA Evaluating ==
  ASSUME PolicyInv, NEW t \in Threads, th[t].kind = "evaluate"
  PROVE  /\ th[t] \in EvaluationJob /\ EvaluationInv(t) /\ Histories(rate, counted)
         /\ engine # "off" /\ DOMAIN th = Threads
<1>1. th[t] \in EvaluationJob /\ th[t] # NoJob
  BY JobKinds DEF PolicyInv, NoJob
<1> QED BY <1>1 DEF PolicyInv, PolicyTypes, PolicyTypeOK, RateInv, Histories

\* The rules of a version are a sequence that is not empty.
LEMMA RulesAreSequences ==
  ASSUME NEW v \in Versions
  PROVE  /\ Len(Rules[v]) \in Nat \ {0} /\ DOMAIN Rules[v] = 1..Len(Rules[v])
         /\ \A i \in DOMAIN Rules[v] : Rules[v][i].then \in Modes
<1>1. PICK S : Rules[v] \in Seq(S)
  BY RulesAssumption
<1>2. Rules[v] # <<>>
  BY RulesAssumption
<1>3. Len(Rules[v]) \in Nat \ {0} /\ DOMAIN Rules[v] = 1..Len(Rules[v])
  BY <1>1, <1>2
<1> QED BY <1>3 DEF Modes

\* The result of a rule, which may not pass a repeat on if the rules deny them.
LEMMA RuleKeeps ==
  ASSUME PolicyInv, NEW t \in Threads, th[t].kind = "evaluate",
         NEW matched, GoesOn(t, Passed(t, matched, th[t])),
         DeniesRepeats(th[t].rules) /\ th[t].due => matched /\ Rule(t).then # "allow",
         UNCHANGED <<env, disk, cache, engine, now>>, Histories(rate', counted')
  PROVE  PolicyInv'
<1>1. PICK job \in EvaluationJob : job = th[t] /\ EvaluationInv(t)
  BY Evaluating
<1>2. /\ job.rules \in Versions /\ job.n \in DOMAIN Rules[job.rules] /\ job.n \in Nat
      /\ Rule(t).then \in Modes /\ "allow" \in Modes
  <2>1. job.rules \in Versions /\ job.n \in DOMAIN Rules[job.rules]
    BY <1>1 DEF EvaluationInv, EvaluationJob
  <2> QED BY <1>1, <2>1, RulesAreSequences DEF Rule, Modes, EvaluationJob
<1>3. ASSUME NEW q \in EvaluationJob, th'[t] = q, q.rules = job.rules, q.due = job.due,
             q.n \in DOMAIN Rules[job.rules], q.step # "count",
             DeniesRepeats(job.rules) => \/ ~ q.due
                                         \/ q.step = "decided" /\ q.mode # "allow"
      PROVE  PolicyInv'
  <2>1. EvaluationInv(t)'
    <3>1. DeniesRepeats(q.rules)' <=> DeniesRepeats(job.rules)
      BY <1>3 DEF DeniesRepeats
    <3> QED BY <1>3, <3>1 DEF EvaluationInv
  <2>2. GoesOn(t, q)
    BY <1>3 DEF GoesOn
  <2> QED BY <1>3, <2>1, <2>2, EvaluationKeeps, Evaluating
<1>4. CASE matched
  <2> DEFINE q == [job EXCEPT !.step = "decided", !.mode = Rule(t).then]
  <2>1. th'[t] = q
    BY <1>1, <1>4 DEF Passed, GoesOn
  <2>2. /\ q \in EvaluationJob /\ q.rules = job.rules /\ q.due = job.due /\ q.n = job.n
        /\ q.step = "decided" /\ q.mode = Rule(t).then
    BY <1>2 DEF EvaluationJob
  <2> HIDE DEF q
  <2> QED BY <1>1, <1>2, <1>3, <2>1, <2>2
<1>5. CASE ~ matched
  <2>1. DeniesRepeats(job.rules) => ~ job.due
    BY <1>1, <1>5
  <2>2. CASE job.n < Len(Rules[job.rules])
    <3>0. PICK next \in Nat : next = job.n + 1
      BY <1>2
    <3> DEFINE q == [job EXCEPT !.step = "rule", !.n = next]
    <3>1. th'[t] = q
      BY <1>1, <1>5, <2>2, <3>0 DEF Passed, GoesOn
    <3>2. /\ q \in EvaluationJob /\ q.rules = job.rules /\ q.due = job.due /\ q.n = next
          /\ q.step = "rule"
      BY DEF EvaluationJob
    <3> HIDE DEF q
    <3>3. q.n \in DOMAIN Rules[job.rules]
      BY <1>2, <2>2, <3>0, <3>2, RulesAreSequences
    <3> QED BY <1>3, <2>1, <3>1, <3>2, <3>3
  <2>3. CASE ~ (job.n < Len(Rules[job.rules]))
    <3> DEFINE q == [job EXCEPT !.step = "decided", !.mode = "allow"]
    <3>1. th'[t] = q
      BY <1>1, <1>5, <2>3 DEF Passed, GoesOn
    <3>2. /\ q \in EvaluationJob /\ q.rules = job.rules /\ q.due = job.due /\ q.n = job.n
          /\ q.step = "decided"
      BY <1>2 DEF EvaluationJob
    <3> HIDE DEF q
    <3> QED BY <1>2, <1>3, <2>1, <3>1, <3>2
  <2> QED BY <2>2, <2>3
<1> QED BY <1>4, <1>5

\* A request comes, and is decided.
LEMMA BeginKeeps ==
  ASSUME PolicyInv, NEW t \in Threads, NEW k \in Subjects, NEW f \in Facts, Begin(t, k, f)
  PROVE  PolicyInv'
<1> DEFINE q == [kind |-> "evaluate", step |-> "rule", n |-> 1, rules |-> engine, k |-> k,
                 f |-> f, ts |-> now, before |-> {}, due |-> FALSE, mode |-> "none"]
<1>1. /\ th[t].kind # "reload" /\ engine \in Versions /\ DOMAIN th = Threads
      /\ UNCHANGED <<env, disk, cache, engine, rate, now, counted>>
  BY DEF Begin, NoJob, PolicyInv, PolicyTypes
<1>2. GoesOn(t, q)
  BY <1>1 DEF Begin, GoesOn
<1>3. q \in EvaluationJob
  BY <1>1 DEF EvaluationJob, Modes, PolicyInv, PolicyTypes
<1>4. q.rules = engine /\ q.n = 1 /\ q.step = "rule" /\ q.due = FALSE
  OBVIOUS
<1> HIDE DEF q
<1>5. EvaluationInv(t)'
  <2>1. 1 \in DOMAIN Rules[engine]
    BY <1>1, RulesAreSequences
  <2> QED BY <1>2, <1>4, <2>1 DEF GoesOn, EvaluationInv
<1>6. engine # "off" /\ Histories(rate', counted')
  BY <1>1, RulesAssumption DEF PolicyInv, PolicyTypes, PolicyTypeOK, RateInv, Histories
<1> QED BY <1>1, <1>2, <1>3, <1>5, <1>6, EvaluationKeeps

\* The thread is free again.
LEMMA DecideKeeps == ASSUME PolicyInv, NEW t \in Threads, Decide(t) PROVE PolicyInv'
<1>1. th[t].kind = "evaluate" /\ UNCHANGED <<env, disk, cache, engine, rate, now, counted>>
  BY DEF Decide, At
<1>2. /\ th[t] \in EvaluationJob /\ Histories(rate', counted') /\ engine # "off"
      /\ DOMAIN th = Threads
  BY <1>1, Evaluating
<1>3. GoesOn(t, NoJob) /\ EvaluationInv(t)'
  BY <1>2 DEF Decide, GoesOn, EvaluationInv, NoJob
<1> QED BY <1>1, <1>2, <1>3, EvaluationKeeps

\* A rule is passed that does not ask for repeats.
LEMMA PassRuleKeeps == ASSUME PolicyInv, NEW t \in Threads, PassRule(t) PROVE PolicyInv'
<1>1. /\ th[t].kind = "evaluate" /\ th[t].step = "rule"
      /\ UNCHANGED <<env, disk, cache, engine, rate, now, counted>>
  BY DEF PassRule, At
<1>2. EvaluationInv(t) /\ DOMAIN th = Threads /\ Histories(rate', counted')
  BY <1>1, Evaluating
<1>3. GoesOn(t, Passed(t, Says(t, FALSE), th[t]))
  BY <1>2 DEF PassRule, GoesOn
<1>4. DeniesRepeats(th[t].rules) => ~ th[t].due
  BY <1>1, <1>2 DEF EvaluationInv
<1> QED BY <1>1, <1>2, <1>3, <1>4, RuleKeeps

\* The history of the action is read.
LEMMA ReadRateKeeps == ASSUME PolicyInv, NEW t \in Threads, ReadRate(t) PROVE PolicyInv'
<1>1. /\ th[t].kind = "evaluate" /\ th[t].step = "rule" /\ Asks(Rule(t).when, th[t].f)
      /\ UNCHANGED <<env, disk, cache, engine, rate, now, counted>>
  BY DEF ReadRate, At
<1>2. PICK job \in EvaluationJob : job = th[t] /\ EvaluationInv(t) /\ engine # "off"
                                /\ DOMAIN th = Threads /\ Histories(rate, counted)
  BY <1>1, Evaluating
<1> DEFINE due == \E s \in counted[job.k] : s + Window >= job.ts
           q == [job EXCEPT !.step = "count", !.before = rate[job.k], !.due = due]
<1>3. job.k \in Subjects /\ job.ts \in Nat /\ rate[job.k] \in SUBSET (0..MaxTime)
      /\ counted[job.k] \in SUBSET (0..MaxTime)
  BY <1>2 DEF EvaluationJob, Histories
<1>4. GoesOn(t, q)
  BY <1>2 DEF ReadRate, GoesOn
<1>5. /\ q \in EvaluationJob /\ q.rules = job.rules /\ q.n = job.n /\ q.step = "count"
      /\ q.before = rate[job.k] /\ q.due = due /\ q.ts = job.ts /\ q.f = job.f
  BY <1>3 DEF EvaluationJob
<1>6. due => \E r \in rate[job.k] : r + Window >= job.ts
  <2> SUFFICES ASSUME NEW s \in counted[job.k], s + Window >= job.ts
               PROVE  \E r \in rate[job.k] : r + Window >= job.ts
    OBVIOUS
  <2>1. PICK r \in rate[job.k] : r >= s
    BY <1>2, <1>3 DEF Histories
  <2>2. r + Window >= job.ts
    BY <1>3, <2>1, BoundsAssumption
  <2> QED BY <2>1, <2>2
<1> HIDE DEF q, due
<1>7. EvaluationInv(t)'
  <2>1. Rule(t)' = Rule(t)
    BY <1>2, <1>4, <1>5 DEF Rule, GoesOn
  <2> QED BY <1>1, <1>2, <1>4, <1>5, <1>6, <2>1 DEF EvaluationInv, GoesOn
<1> QED BY <1>1, <1>2, <1>4, <1>5, <1>7, EvaluationKeeps

\* It is put back, and the rule says whether the action is a repeat.
LEMMA CountKeeps == ASSUME PolicyInv, NEW t \in Threads, Count(t) PROVE PolicyInv'
<1>1. /\ th[t].kind = "evaluate" /\ th[t].step = "count"
      /\ UNCHANGED <<env, disk, cache, engine, now>>
  BY DEF Count, At
<1>2. PICK job \in EvaluationJob : job = th[t] /\ EvaluationInv(t) /\ DOMAIN th = Threads
                                /\ Histories(rate, counted)
  BY <1>1, Evaluating
<1> DEFINE recent == Recent(job.before, job.ts)
<1>3. /\ job.k \in Subjects /\ job.ts \in 0..MaxTime /\ job.before \in SUBSET (0..MaxTime)
      /\ recent \subseteq job.before
  BY <1>2 DEF EvaluationJob, Recent
<1>4. /\ rate' = [rate EXCEPT ![job.k] = recent \cup {job.ts}]
      /\ counted' = [counted EXCEPT ![job.k] =
           (IF rate[job.k] = job.before THEN counted[job.k] ELSE {}) \cup {job.ts}]
      /\ GoesOn(t, Passed(t, Says(t, recent # {}), job))
  BY <1>2 DEF Count, GoesOn
<1>5. Histories(rate', counted')
  <2>1. {rate', counted'} \subseteq [Subjects -> SUBSET (0..MaxTime)]
    BY <1>2, <1>3, <1>4 DEF Histories
  <2>2. ASSUME NEW k \in Subjects, NEW s \in counted'[k] PROVE \E x \in rate'[k] : x >= s
    <3>1. CASE k # job.k
      BY <1>2, <1>4, <2>2, <3>1 DEF Histories
    <3>2. CASE k = job.k
      <4>1. rate'[k] = recent \cup {job.ts}
        BY <1>2, <1>4, <3>2 DEF Histories
      <4>2. s = job.ts \/ (rate[k] = job.before /\ s \in counted[k])
        BY <1>2, <1>4, <2>2, <3>2 DEF Histories
      <4>3. CASE s = job.ts
        BY <1>3, <4>1, <4>3
      <4>4. CASE rate[k] = job.before /\ s \in counted[k]
        <5>1. PICK r \in job.before : r >= s
          BY <1>2, <4>4 DEF Histories
        <5>2. r \in Nat /\ s \in Nat /\ job.ts \in Nat
          BY <1>2, <1>3, <4>4, <5>1 DEF Histories
        <5>3. CASE r \in recent
          BY <4>1, <5>1, <5>3
        <5>4. CASE r \notin recent
          <6>1. r + Window < job.ts
            BY <5>1, <5>2, <5>4, BoundsAssumption DEF Recent
          <6>2. job.ts >= s
            BY <5>1, <5>2, <6>1, BoundsAssumption
          <6> QED BY <4>1, <6>2
        <5> QED BY <5>3, <5>4
      <4> QED BY <4>2, <4>3, <4>4
    <3> QED BY <3>1, <3>2
  <2> QED BY <2>1, <2>2 DEF Histories
<1>6. DeniesRepeats(job.rules) /\ job.due => Says(t, recent # {}) /\ Rule(t).then # "allow"
  <2> SUFFICES ASSUME DeniesRepeats(job.rules), job.due
               PROVE  Says(t, recent # {}) /\ Rule(t).then # "allow"
    OBVIOUS
  <2>1. /\ job.n \in DOMAIN Rules[job.rules] /\ Asks(Rule(t).when, job.f)
        /\ \E r \in job.before : r + Window >= job.ts
    BY <1>1, <1>2 DEF EvaluationInv
  <2>2. (recent # {}) = TRUE
    BY <2>1 DEF Recent
  <2>3. Holds(Rule(t).when, job.f, TRUE) /\ Rule(t).then # "allow"
    BY <1>2, <2>1 DEF DeniesRepeats, Rule, EvaluationJob
  <2> QED BY <1>2, <2>2, <2>3 DEF Says
<1> HIDE DEF recent
<1> QED BY <1>1, <1>2, <1>4, <1>5, <1>6, RuleKeeps

-----------------------------------------------------------------------------
\* Every step keeps PolicyInv.
LEMMA PolicyStep == PolicyInv /\ [PolicyNext]_policyVars => PolicyInv'
<1> SUFFICES ASSUME PolicyInv, [PolicyNext]_policyVars PROVE PolicyInv'
  OBVIOUS
<1>1. ASSUME NEW v \in Versions, Edit(v) PROVE PolicyInv'
  BY <1>1, EditKeeps
<1>2. CASE TimePasses
  BY <1>2, TimeKeeps
<1>3. CASE Start \/ Stop \/ Probe
  BY <1>3, StartKeeps, StopKeeps, ProbeKeeps
<1>4. ASSUME NEW t \in Threads,
             BeginReload(t) \/ LoadCached(t) \/ LoadFiles(t) \/ Keep(t) \/ LoadFails(t)
             \/ Build(t) \/ Install(t)
      PROVE  PolicyInv'
  BY <1>4, BeginReloadKeeps, LoadKeeps, LoadFailsKeeps, InstallKeeps
<1>5. ASSUME NEW t \in Threads, NEW k \in Subjects, NEW f \in Facts, Begin(t, k, f)
      PROVE  PolicyInv'
  BY <1>5, BeginKeeps
<1>6. ASSUME NEW t \in Threads, PassRule(t) \/ ReadRate(t) \/ Count(t) \/ Decide(t)
      PROVE  PolicyInv'
  BY <1>6, PassRuleKeeps, ReadRateKeeps, CountKeeps, DecideKeeps
<1>7. CASE UNCHANGED policyVars
  BY <1>7 DEF policyVars, PolicyInv, PolicyTypes, PolicyTypeOK, ReloadInv, Reloads,
              EvaluationInv, Rule, DeniesRepeats, RateInv, ProductionIsGoverned
<1> QED BY <1>1, <1>2, <1>3, <1>4, <1>5, <1>6, <1>7 DEF PolicyNext

\* PolicyInv always holds.
LEMMA PolicyInvariant == PolicySpec => []PolicyInv
BY InitPolicyInv, PolicyStep, PTL DEF PolicySpec

\* Rules that deny repeats let none pass, however many threads evaluate at once,
\* whatever is reloaded meanwhile and whatever else the rules say.
THEOREM RepeatsCaught == PolicySpec => []RepeatsAreCaught
BY PolicyInvariant, PolicyInvSuffices, PTL

\* A reload that no other one overlaps installs rules that were in the directory
\* while it ran, though others read and fill the same cache before and after.
THEOREM ReloadsTakeEffect == PolicySpec => []ReloadTakesEffect
BY PolicyInvariant, PolicyInvSuffices, PTL

\* No production process, at any point of its life, is governed by the
\* demonstration's evaluator.
THEOREM ProductionGoverned == PolicySpec => []ProductionIsGoverned
BY PolicyInvariant, PolicyInvSuffices, PTL
=============================================================================
