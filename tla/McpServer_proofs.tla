-------------------------- MODULE McpServer_proofs --------------------------
(***************************************************************************)
(* Proofs about an MCP server: its governed tools, the vendor writes and    *)
(* the approvals, for any number of servers, actions and keys; and the     *)
(* graph it keeps in memory, its traversals and the searches of the        *)
(* database, for any number of rows and writers and whatever the limits.   *)
(***************************************************************************)
EXTENDS GovernedActions, GraphCache, FiniteSetTheorems, SequenceTheorems,
        NaturalsInduction, WellFoundedInduction, TLAPS

USE NoneAssumption

-----------------------------------------------------------------------------
(* The inductive invariant.                                                *)

\* The call of a tool: its action is no vendor write, its approval and its
\* receipt come at their steps, and only an allowed or paused one gets to its
\* effect.
ToolInv(c) ==
  /\ c.action \notin proposed \cup runs
  /\ c.tool \in Keyed \/ c.key = NoKey
  /\ c.step \in {"evaluate", "approval"} => approvals[c.action] = None
  /\ c.step = "approval" => c.decision = "pause"
  /\ c.decision = "pause" /\ c.step # "approval" => approvals[c.action] # None
  /\ receipts[c.action] # None =>
       /\ receipts[c.action] = "pause" /\ c.decision = "pause"
       /\ c.step \in {"effect", "receipt"} /\ c.tool # "run"
  /\ c.step \in {"effect", "blocked"} => c.tool \in {"write", "run", "ask"}
  /\ c.step = "effect" => c.decision \in {"allow", "pause"}
  /\ c.step = "blocked" => c.decision # "allow"
  /\ c.step = "receipt" =>
       c.tool = "record" \/ (c.tool \in {"write", "ask"} /\ c.decision \in {"allow", "pause"})
  /\ c.action \in effects => c.step = "receipt" /\ c.tool = "write"

\* A write to a vendor: it was proposed, its receipt says "allow" only after
\* it was sent, and the first time it is proposed its receipt is the end.
VendorInv(c) ==
  /\ c.action \in proposed
  /\ c.step = "blocked" => c.decision # "allow"
  /\ c.step = "receipt" => c.action \in sent
  /\ c.step # "approval"
  /\ c.action \notin again =>
       receipts[c.action] = None /\ (c.step # "receipt" => c.action \notin sent)

\* The call a server is working on, and what it remembers of it.
CallInv(m) ==
  call[m] # None =>
    /\ call[m].tool \in Tools => ToolInv(call[m])
    /\ call[m].tool = "vendor" => VendorInv(call[m])
    /\ call[m].tool \in Keyed /\ call[m].key # NoKey =>
         idempotency[m][<<call[m].tool, call[m].key>>] = None

\* Two servers work on one action only if it is a vendor write that was
\* proposed again.
ActionsApart ==
  \A m, n \in Servers :
    m # n /\ call[m] # None /\ call[n] # None /\ call[m].action = call[n].action
      => call[m].action \in again

\* What the properties say of one action, and that a run is its call's end.
ActionInv(a) ==
  /\ receipts[a] \in {"deny", "correct"} => a \notin effects
  /\ a \in runs => receipts[a] = None /\ \A m \in Servers : call[m] # None => call[m].action # a
  /\ a \in proposed =>
       /\ a \notin effects \cup runs
       /\ receipts[a] = "allow" => a \in sent
       /\ receipts[a] \in Decisions \ {"allow"} => a \notin sent \/ a \in again
  /\ receipts[a] = "pause" /\ a \notin proposed => approvals[a] # None

\* What the Studio has resolved, or has yet to chain, is the approval's status.
ResolutionInv(a) ==
  /\ <<a, "deny">> \in resolutions \cup owed => approvals[a] = "denied"
  /\ <<a, "expired">> \in resolutions \cup owed => approvals[a] = "expired"

GovInv ==
  /\ TypeOK
  /\ \A m \in Servers : CallInv(m)
  /\ ActionsApart
  /\ \A a \in Actions : ActionInv(a) /\ ResolutionInv(a)
  /\ KeyRecordsOnce

\* The invariant says what the properties say.
LEMMA GovInvSuffices ==
  GovInv => BlockedActionsHaveNoEffect /\ ApprovalsMatchTheLedger /\ KeyRecordsOnce
BY DEF GovInv, ActionInv, ResolutionInv, TypeOK, BlockedActionsHaveNoEffect,
       ApprovalsMatchTheLedger

\* The initial state satisfies the invariant.
LEMMA InitGovInv == Init => GovInv
<1> SUFFICES ASSUME Init PROVE GovInv
  OBVIOUS
<1>1. TypeOK
  BY DEF Init, TypeOK
<1>2. \A m \in Servers : CallInv(m)
  BY DEF Init, CallInv
<1>3. ActionsApart
  BY DEF Init, ActionsApart
<1>4. \A a \in Actions : ActionInv(a) /\ ResolutionInv(a)
  BY DEF Init, ActionInv, ResolutionInv, Decisions
<1>5. KeyRecordsOnce
  BY DEF Init, KeyRecordsOnce, ToolKeys, Keyed
<1> QED BY <1>1, <1>2, <1>3, <1>4, <1>5 DEF GovInv

-----------------------------------------------------------------------------
(* What a step does to the call it belongs to.                             *)

\* Server m's call is the record c afterwards, and no other call changes.
Holds(m, c) ==
  /\ c \in Calls /\ call'[m] = c
  /\ \A n \in Servers \ {m} : call'[n] = call[n]
  /\ call' \in [Servers -> Calls \cup {None}]

\* The call goes on with its next step.
LEMMA GoToHolds ==
  ASSUME TypeOK, NEW m \in Servers, call[m] # None, NEW s \in Steps, GoTo(m, s)
  PROVE  \E c \in Calls :
           /\ Holds(m, c)
           /\ c.step = s /\ c.decision = call[m].decision /\ c.tool = call[m].tool
           /\ c.action = call[m].action /\ c.key = call[m].key
<1>1. call[m] \in Calls
  BY DEF TypeOK
<1>2. call' = [call EXCEPT ![m] = [call[m] EXCEPT !.step = s]]
  BY DEF GoTo
<1> DEFINE c == [call[m] EXCEPT !.step = s]
<1>3. /\ c \in Calls
      /\ c.step = s /\ c.decision = call[m].decision /\ c.tool = call[m].tool
      /\ c.action = call[m].action /\ c.key = call[m].key
  BY <1>1 DEF Calls
<1>4. Holds(m, c)
  BY <1>2, <1>3 DEF TypeOK, Holds
<1> QED BY <1>3, <1>4

\* The call is decided.
DecidedAs(m, d, s) == call' = [call EXCEPT ![m].decision = d, ![m].step = s]

\* A decided call goes on with its decision.
LEMMA DecisionHolds ==
  ASSUME TypeOK, NEW m \in Servers, call[m] # None, NEW s \in Steps, NEW d \in Decisions,
         DecidedAs(m, d, s)
  PROVE  \E c \in Calls :
           /\ Holds(m, c)
           /\ c.step = s /\ c.decision = d /\ c.tool = call[m].tool
           /\ c.action = call[m].action /\ c.key = call[m].key
<1>1. call[m] \in Calls
  BY DEF TypeOK
<1>2. call' = [call EXCEPT ![m] = [call[m] EXCEPT !.decision = d, !.step = s]]
  BY DEF TypeOK, DecidedAs
<1> DEFINE c == [call[m] EXCEPT !.decision = d, !.step = s]
<1>3. /\ c \in Calls
      /\ c.step = s /\ c.decision = d /\ c.tool = call[m].tool
      /\ c.action = call[m].action /\ c.key = call[m].key
  BY <1>1 DEF Calls
<1>4. Holds(m, c)
  BY <1>2, <1>3 DEF TypeOK, Holds
<1> QED BY <1>3, <1>4

\* The call ends.
LEMMA LeaveEnds ==
  ASSUME TypeOK, NEW m \in Servers, Leave(m)
  PROVE  /\ call'[m] = None
         /\ \A n \in Servers \ {m} : call'[n] = call[n]
         /\ call' \in [Servers -> Calls \cup {None}]
BY DEF TypeOK, Leave

-----------------------------------------------------------------------------
(* What a server's step leaves alone.                                      *)

\* All but server m and its action a is as it was, and the others who work
\* on a work on a write that is proposed again.
Frame(m, a) ==
  /\ \A n \in Servers \ {m} :
       /\ call'[n] = call[n]
       /\ idempotency'[n] = idempotency[n]
       /\ recorded'[n] = recorded[n]
       /\ call[n] # None /\ call[n].action = a => a \in proposed /\ a \in again'
  /\ call'[m] # None => call'[m].action = a
  /\ \A b \in Actions \ {a} :
       /\ receipts'[b] = receipts[b] /\ approvals'[b] = approvals[b]
       /\ b \in effects' <=> b \in effects
       /\ b \in runs' <=> b \in runs
       /\ b \in sent' <=> b \in sent
       /\ b \in proposed' <=> b \in proposed
       /\ b \in again' <=> b \in again
  /\ proposed \subseteq proposed' /\ sent \subseteq sent' /\ again \subseteq again'
  /\ UNCHANGED <<resolutions, owed>>

KeyRecords(m) ==
  \A k \in Keys : recorded[m][<<"record", k>>] \subseteq {idempotency[m][<<"record", k>>]}

\* What the invariant says of one server and one action.
Own(m, a) == CallInv(m) /\ KeyRecords(m) /\ ActionInv(a) /\ ResolutionInv(a)

\* What holds of the server and its action then holds of all.
LEMMA FrameSuffices ==
  ASSUME GovInv, TypeOK', NEW m \in Servers, NEW a \in Actions, Frame(m, a), Own(m, a)'
  PROVE  GovInv'
<1>1. ASSUME NEW n \in Servers \ {m} PROVE CallInv(n)'
  <2> SUFFICES ASSUME call[n] # None PROVE CallInv(n)'
    BY DEF CallInv, Frame
  <2>1. call[n] \in Calls /\ call'[n] = call[n] /\ CallInv(n) /\ idempotency'[n] = idempotency[n]
    BY DEF GovInv, TypeOK, Frame
  <2>2. PICK c \in Calls : c = call[n]
    BY <2>1
  <2>3. c.action \in Actions /\ c.tool \in Purposes
    BY DEF Calls
  <2>4. CASE c.action # a
    <3>1. ToolInv(c) => ToolInv(c)'
      BY <2>3, <2>4 DEF Frame, ToolInv
    <3>2. VendorInv(c) => VendorInv(c)'
      BY <2>3, <2>4 DEF Frame, VendorInv
    <3> QED BY <2>1, <2>2, <3>1, <3>2 DEF CallInv
  <2>5. CASE c.action = a
    <3>1. a \in proposed /\ a \in again'
      BY <2>2, <2>5 DEF Frame
    <3>2. c.tool \notin Tools
      BY <2>1, <2>2, <2>5, <3>1 DEF CallInv, ToolInv
    <3>3. VendorInv(c)
      BY <2>1, <2>2, <2>3, <3>2 DEF CallInv, Purposes
    <3>4. VendorInv(c)'
      BY <2>5, <3>1, <3>3 DEF VendorInv, Frame
    <3> QED BY <2>1, <2>2, <3>2, <3>4 DEF CallInv, Keyed, Tools
  <2> QED BY <2>4, <2>5
<1>2. ActionsApart'
  <2> SUFFICES ASSUME NEW n1 \in Servers, NEW n2 \in Servers, n1 # n2,
                      call'[n1] # None, call'[n2] # None,
                      call'[n1].action = call'[n2].action
               PROVE  call'[n1].action \in again'
    BY DEF ActionsApart
  <2>1. CASE n1 # m /\ n2 # m
    BY <2>1 DEF Frame, GovInv, ActionsApart
  <2>2. CASE n1 = m \/ n2 = m
    BY <2>2 DEF Frame
  <2> QED BY <2>1, <2>2
<1>3. ASSUME NEW b \in Actions \ {a} PROVE ActionInv(b)' /\ ResolutionInv(b)'
  <2>1. ActionInv(b) /\ ResolutionInv(b)
    BY DEF GovInv
  <2>2. \A n \in Servers : call'[n] # None => call'[n].action = a \/ call'[n] = call[n]
    BY DEF Frame
  <2>3. ActionInv(b)'
    BY <2>1, <2>2 DEF ActionInv, Frame
  <2>4. ResolutionInv(b)'
    BY <2>1 DEF ResolutionInv, Frame
  <2> QED BY <2>3, <2>4
<1>4. KeyRecordsOnce'
  BY DEF GovInv, KeyRecordsOnce, Own, KeyRecords, Frame
<1> QED BY <1>1, <1>2, <1>3, <1>4 DEF GovInv, Own

\* Who else works on the action of a call.
LEMMA OthersProposeAgain ==
  ASSUME GovInv, NEW m \in Servers, call[m] # None
  PROVE  /\ call[m] \in Calls /\ call[m].action \in Actions /\ CallInv(m)
         /\ ActionInv(call[m].action) /\ ResolutionInv(call[m].action) /\ KeyRecords(m)
         /\ \A n \in Servers \ {m} : call[n] # None /\ call[n].action = call[m].action =>
              call[m].action \in proposed /\ call[m].action \in again
<1>1. call[m] \in Calls /\ call[m].action \in Actions
  BY DEF GovInv, TypeOK, Calls
<1>2. \A n \in Servers \ {m} : call[n] # None /\ call[n].action = call[m].action =>
        call[m].action \in proposed /\ call[m].action \in again
  BY DEF GovInv, ActionsApart, TypeOK
<1> QED BY <1>1, <1>2 DEF GovInv, KeyRecordsOnce, KeyRecords

-----------------------------------------------------------------------------
(* The steps of a tool's call.                                             *)

\* A decision keeps the invariant.
LEMMA EvaluateKeeps ==
  ASSUME GovInv, NEW m \in Servers, NEW d \in Decisions, Evaluate(m, d)
  PROVE  GovInv'
<1>1. call[m] # None /\ call[m].step = "evaluate" /\ call[m].tool \in Tools
  BY DEF Evaluate
<1>2. UNCHANGED <<dbVars, studioVars, memVars, vendorVars>>
  BY DEF Evaluate
<1>3. PICK a \in Actions : a = call[m].action
  BY <1>1, OthersProposeAgain
<1>4. PICK s \in Steps :
        /\ s = IF d = "pause" THEN "approval" ELSE NextStep(call[m].tool, d)
        /\ DecidedAs(m, d, s)
  BY <1>1 DEF Evaluate, DecidedAs, NextStep, Steps, Tools
<1>5. PICK c \in Calls :
        /\ Holds(m, c)
        /\ c.step = s /\ c.decision = d /\ c.tool = call[m].tool
        /\ c.action = call[m].action /\ c.key = call[m].key
  BY <1>1, <1>4, DecisionHolds DEF GovInv
<1>6. TypeOK'
  BY <1>2, <1>5 DEF GovInv, TypeOK, dbVars, studioVars, memVars, vendorVars, Holds
<1>7. Frame(m, a)
  BY <1>1, <1>2, <1>3, <1>5, OthersProposeAgain
     DEF Frame, Holds, dbVars, studioVars, memVars, vendorVars
<1>8. ToolInv(c)'
  <2>1. /\ a \notin proposed' \cup runs' /\ a \notin effects'
        /\ c.tool \in Keyed \/ c.key = NoKey
        /\ approvals'[a] = None /\ receipts'[a] = None
    BY <1>1, <1>2, <1>3, <1>5, OthersProposeAgain DEF CallInv, ToolInv, dbVars, vendorVars
  <2>2. /\ s = "approval" <=> d = "pause"
        /\ s \in {"effect", "blocked"} => c.tool \in {"write", "run", "ask"}
        /\ s = "effect" => d = "allow"
        /\ s = "blocked" => d # "allow"
        /\ s = "receipt" => c.tool = "record"
        /\ s # "evaluate"
    BY <1>1, <1>4, <1>5 DEF NextStep, Tools
  <2> QED BY <1>3, <1>5, <2>1, <2>2 DEF ToolInv
<1>9. CallInv(m)'
  BY <1>1, <1>2, <1>3, <1>5, <1>8, OthersProposeAgain DEF CallInv, Holds, memVars, Tools
<1>10. KeyRecords(m)' /\ ResolutionInv(a)'
  BY <1>1, <1>2, <1>3, OthersProposeAgain
     DEF KeyRecords, ResolutionInv, memVars, studioVars, dbVars
<1>11. ActionInv(a)'
  BY <1>1, <1>2, <1>3, <1>5, OthersProposeAgain DEF ActionInv, Holds, CallInv, ToolInv, dbVars, vendorVars
<1> QED BY <1>6, <1>7, <1>9, <1>10, <1>11, FrameSuffices DEF Own

\* An approval is opened for an action that had none.
LEMMA OpenApprovalKeeps ==
  ASSUME GovInv, NEW m \in Servers, OpenApproval(m)
  PROVE  GovInv'
<1>1. call[m] # None /\ call[m].step = "approval"
  BY DEF OpenApproval
<1>2. UNCHANGED <<receipts, effects, runs, studioVars, memVars, vendorVars>>
  BY DEF OpenApproval
<1>3. PICK a \in Actions : a = call[m].action
  BY <1>1, OthersProposeAgain
<1>4. call[m].tool \in Tools /\ ToolInv(call[m])
  BY <1>1, OthersProposeAgain DEF CallInv, VendorInv, Calls, Purposes
<1>5. PICK s \in Steps : s = NextStep(call[m].tool, "pause") /\ GoTo(m, s)
  BY <1>4 DEF OpenApproval, NextStep, Steps, Tools
<1>6. PICK c \in Calls :
        /\ Holds(m, c)
        /\ c.step = s /\ c.decision = call[m].decision /\ c.tool = call[m].tool
        /\ c.action = call[m].action /\ c.key = call[m].key
  BY <1>1, <1>5, GoToHolds DEF GovInv
<1>7. /\ approvals' \in [Actions -> Statuses \cup {None}]
      /\ approvals'[a] = "pending" /\ approvals[a] = None
      /\ \A b \in Actions \ {a} : approvals'[b] = approvals[b]
  BY <1>1, <1>3, <1>4 DEF OpenApproval, GovInv, TypeOK, Statuses, ToolInv
<1>8. c.decision # None
  BY <1>1, <1>6 DEF GovInv, TypeOK
<1>9. TypeOK'
  BY <1>2, <1>6, <1>7, <1>8 DEF GovInv, TypeOK, studioVars, memVars, vendorVars, Holds
<1>10. Frame(m, a)
  BY <1>1, <1>2, <1>3, <1>6, <1>7, OthersProposeAgain
     DEF Frame, Holds, studioVars, memVars, vendorVars
<1>11. ToolInv(c)'
  <2>1. /\ a \notin proposed' \cup runs' /\ a \notin effects'
        /\ c.tool \in Keyed \/ c.key = NoKey
        /\ approvals'[a] # None /\ receipts'[a] = None /\ c.decision = "pause"
    BY <1>1, <1>2, <1>3, <1>4, <1>6, <1>7 DEF ToolInv, vendorVars, Statuses
  <2>2. /\ s \in {"blocked", "receipt", "answer"}
        /\ s = "blocked" => c.tool \in {"write", "run", "ask"}
        /\ s = "receipt" => c.tool = "record"
    BY <1>4, <1>5, <1>6 DEF NextStep, Tools
  <2> QED BY <1>3, <1>6, <2>1, <2>2 DEF ToolInv
<1>12. CallInv(m)'
  BY <1>1, <1>2, <1>4, <1>6, <1>11, OthersProposeAgain DEF CallInv, Holds, memVars, Tools
<1>13. KeyRecords(m)'
  BY <1>1, <1>2, OthersProposeAgain DEF KeyRecords, memVars
<1>14. ResolutionInv(a)'
  BY <1>1, <1>2, <1>3, <1>7, OthersProposeAgain DEF ResolutionInv, studioVars, Statuses
<1>15. ActionInv(a)'
  BY <1>1, <1>2, <1>3, <1>4, <1>6, <1>7, OthersProposeAgain
     DEF ActionInv, Holds, ToolInv, vendorVars, Statuses
<1> QED BY <1>9, <1>10, <1>12, <1>13, <1>14, <1>15, FrameSuffices DEF Own

\* What chaining a call's receipt writes.
LEMMA PersistWrites ==
  ASSUME TypeOK, NEW m \in Servers, call[m] # None, call[m].step # "evaluate", Persist(m)
  PROVE  /\ receipts' \in [Actions -> Decisions \cup {None}]
         /\ \A b \in Actions : b # call[m].action => receipts'[b] = receipts[b]
         /\ receipts'[call[m].action] =
              IF receipts[call[m].action] = None THEN call[m].decision
              ELSE receipts[call[m].action]
         /\ history' \in [Servers -> SUBSET Actions]
<1>1. call[m] \in Calls /\ call[m].action \in Actions /\ call[m].decision \in Decisions
  BY DEF TypeOK, Calls
<1> QED BY <1>1 DEF TypeOK, Persist

\* What the memory of a server holds after a call's receipt: the entries of
\* record_action tell apart no two of its actions.
LEMMA MemoryWrites ==
  ASSUME TypeOK, NEW m \in Servers, call[m] # None, KeyRecords(m),
         call[m].tool \in Keyed \/ call[m].key = NoKey,
         call[m].tool \in Keyed /\ call[m].key # NoKey =>
           idempotency[m][<<call[m].tool, call[m].key>>] = None,
         Track(m) \/ (UNCHANGED recorded /\ call[m].tool # "record"),
         Remember(m) \/ (UNCHANGED idempotency /\ call[m].tool # "record")
  PROVE  /\ idempotency' \in [Servers -> [ToolKeys -> Actions \cup {None}]]
         /\ recorded' \in [Servers -> [ToolKeys -> SUBSET Actions]]
         /\ \A n \in Servers \ {m} :
              idempotency'[n] = idempotency[n] /\ recorded'[n] = recorded[n]
         /\ KeyRecords(m)'
<1>1. PICK c \in Calls : c = call[m]
  BY DEF TypeOK
<1>2. /\ c.action \in Actions
      /\ c.key # NoKey => <<c.tool, c.key>> \in ToolKeys
  BY <1>1 DEF Calls, ToolKeys
<1>3. /\ idempotency' \in [Servers -> [ToolKeys -> Actions \cup {None}]]
      /\ \A n \in Servers \ {m} : idempotency'[n] = idempotency[n]
  <2>1. CASE c.key # NoKey /\ Remember(m)
    <3>1. idempotency' = [idempotency EXCEPT ![m] =
            [idempotency[m] EXCEPT ![<<c.tool, c.key>>] = c.action]]
      BY <1>1, <2>1 DEF Remember
    <3>2. [idempotency[m] EXCEPT ![<<c.tool, c.key>>] = c.action]
            \in [ToolKeys -> Actions \cup {None}]
      BY <1>2 DEF TypeOK
    <3> QED BY <3>1, <3>2 DEF TypeOK
  <2>2. CASE c.key = NoKey \/ UNCHANGED idempotency
    BY <1>1, <2>2 DEF Remember, TypeOK
  <2> QED BY <2>1, <2>2
<1>4. /\ recorded' \in [Servers -> [ToolKeys -> SUBSET Actions]]
      /\ \A n \in Servers \ {m} : recorded'[n] = recorded[n]
  <2>1. CASE c.key # NoKey /\ Track(m)
    <3>1. recorded' = [recorded EXCEPT ![m] =
            [recorded[m] EXCEPT ![<<c.tool, c.key>>] =
               recorded[m][<<c.tool, c.key>>] \cup {c.action}]]
      BY <1>1, <2>1 DEF Track
    <3>2. [recorded[m] EXCEPT ![<<c.tool, c.key>>] =
             recorded[m][<<c.tool, c.key>>] \cup {c.action}] \in [ToolKeys -> SUBSET Actions]
      <4>1. <<c.tool, c.key>> \in ToolKeys /\ c.action \in Actions
        BY <1>2, <2>1
      <4>2. recorded[m] \in [ToolKeys -> SUBSET Actions]
        BY DEF TypeOK
      <4> QED BY <4>1, <4>2
    <3> QED BY <3>1, <3>2 DEF TypeOK
  <2>2. CASE c.key = NoKey \/ UNCHANGED recorded
    BY <1>1, <2>2 DEF Track, TypeOK
  <2> QED BY <2>1, <2>2
<1>5. ASSUME NEW k \in Keys
      PROVE  recorded'[m][<<"record", k>>] \subseteq {idempotency'[m][<<"record", k>>]}
  <2>1. <<"record", k>> \in ToolKeys
    BY DEF ToolKeys, Keyed
  <2>2. CASE c.tool = "record" /\ c.key = k /\ c.key # NoKey
    <3>1. recorded[m][<<"record", k>>] = {}
      BY <1>1, <2>1, <2>2 DEF KeyRecords, TypeOK, Keyed
    <3>2. Track(m) /\ Remember(m)
      BY <1>1, <2>2
    <3>3. recorded'[m][<<"record", k>>] = {c.action}
      BY <1>1, <2>1, <2>2, <3>1, <3>2 DEF Track, TypeOK
    <3>4. idempotency'[m][<<"record", k>>] = c.action
      BY <1>1, <2>1, <2>2, <3>2 DEF Remember, TypeOK
    <3> QED BY <3>3, <3>4
  <2>3. CASE ~(c.tool = "record" /\ c.key = k /\ c.key # NoKey)
    <3>1. <<c.tool, c.key>> # <<"record", k>> \/ c.key = NoKey
      BY <2>3
    <3>2. recorded'[m][<<"record", k>>] = recorded[m][<<"record", k>>]
      BY <1>1, <1>2, <2>1, <3>1 DEF Track, TypeOK
    <3>3. idempotency'[m][<<"record", k>>] = idempotency[m][<<"record", k>>]
      BY <1>1, <1>2, <2>1, <3>1 DEF Remember, TypeOK
    <3> QED BY <3>2, <3>3 DEF KeyRecords
  <2> QED BY <2>2, <2>3
<1> QED BY <1>3, <1>4, <1>5 DEF KeyRecords

\* The receipt of a decision that is not allow keeps the invariant: the
\* action has no effect yet, and only a paused write goes on to it.
LEMMA ReceiptBlockedKeeps ==
  ASSUME GovInv, NEW m \in Servers, ReceiptBlocked(m)
  PROVE  GovInv'
<1>1. /\ call[m] # None /\ call[m].step = "blocked" /\ call[m].tool \in Tools
      /\ Persist(m) /\ Track(m)
  BY DEF ReceiptBlocked
<1>2. UNCHANGED <<approvals, effects, runs, studioVars, queue, vendorVars>>
  BY DEF ReceiptBlocked
<1>3. PICK a \in Actions : a = call[m].action
  BY <1>1, OthersProposeAgain
<1>4. /\ ToolInv(call[m]) /\ call[m].tool \in {"write", "run", "ask"}
      /\ receipts[a] = None /\ a \notin effects \cup runs \cup proposed
      /\ call[m].decision \in Decisions \ {"allow"}
  BY <1>1, <1>3, OthersProposeAgain DEF CallInv, ToolInv, GovInv, TypeOK, Calls
<1>5. /\ receipts' \in [Actions -> Decisions \cup {None}]
      /\ \A b \in Actions \ {a} : receipts'[b] = receipts[b]
      /\ receipts'[a] = call[m].decision
      /\ history' \in [Servers -> SUBSET Actions]
  BY <1>1, <1>3, <1>4, PersistWrites DEF GovInv
<1>6. /\ idempotency' \in [Servers -> [ToolKeys -> Actions \cup {None}]]
      /\ recorded' \in [Servers -> [ToolKeys -> SUBSET Actions]]
      /\ \A n \in Servers \ {m} :
           idempotency'[n] = idempotency[n] /\ recorded'[n] = recorded[n]
      /\ KeyRecords(m)'
  <2>1. Remember(m) \/ UNCHANGED idempotency
    BY DEF ReceiptBlocked
  <2>2. /\ call[m].tool \in Keyed \/ call[m].key = NoKey
        /\ call[m].tool # "record" /\ KeyRecords(m)
        /\ call[m].tool \in Keyed /\ call[m].key # NoKey =>
             idempotency[m][<<call[m].tool, call[m].key>>] = None
    BY <1>1, <1>4, OthersProposeAgain DEF CallInv, ToolInv
  <2> QED BY <1>1, <2>1, <2>2, MemoryWrites DEF GovInv
<1>7. \/ /\ call[m].decision = "pause" /\ call[m].tool # "run"
         /\ GoTo(m, "effect") /\ UNCHANGED idempotency
      \/ Leave(m)
  BY DEF ReceiptBlocked
<1>8. /\ ActionInv(a) /\ ResolutionInv(a)
      /\ approvals[a] # None \/ call[m].decision # "pause"
  BY <1>1, <1>3, <1>4, OthersProposeAgain DEF ToolInv
<1>9. ResolutionInv(a)'
  BY <1>1, <1>2, <1>3, OthersProposeAgain DEF ResolutionInv, studioVars
<1>10. CASE Leave(m)
  <2>1. /\ call'[m] = None
        /\ \A n \in Servers \ {m} : call'[n] = call[n]
        /\ call' \in [Servers -> Calls \cup {None}]
    BY <1>10, LeaveEnds DEF GovInv
  <2>2. TypeOK'
    BY <1>2, <1>5, <1>6, <2>1 DEF GovInv, TypeOK, studioVars, vendorVars
  <2>3. Frame(m, a)
    BY <1>1, <1>2, <1>3, <1>5, <1>6, <2>1, OthersProposeAgain
       DEF Frame, studioVars, vendorVars
  <2>4. ActionInv(a)'
    BY <1>2, <1>4, <1>5, <1>8 DEF ActionInv, studioVars, vendorVars
  <2> QED BY <1>6, <1>9, <2>1, <2>2, <2>3, <2>4, FrameSuffices DEF Own, CallInv
<1>11. CASE GoTo(m, "effect") /\ UNCHANGED idempotency /\ call[m].decision = "pause"
            /\ call[m].tool # "run"
  <2>1. PICK c \in Calls :
          /\ Holds(m, c)
          /\ c.step = "effect" /\ c.decision = call[m].decision /\ c.tool = call[m].tool
          /\ c.action = call[m].action /\ c.key = call[m].key
    BY <1>1, <1>11, GoToHolds DEF GovInv, Steps
  <2>2. TypeOK'
    BY <1>2, <1>4, <1>5, <1>6, <2>1 DEF GovInv, TypeOK, studioVars, vendorVars, Holds
  <2>3. Frame(m, a)
    BY <1>1, <1>2, <1>3, <1>5, <1>6, <2>1, OthersProposeAgain
       DEF Frame, Holds, studioVars, vendorVars
  <2>4. ToolInv(c)'
    <3>1. /\ a \notin proposed' \cup runs' /\ a \notin effects'
          /\ c.tool \in Keyed \/ c.key = NoKey
          /\ approvals'[a] # None /\ receipts'[a] = "pause"
      BY <1>1, <1>2, <1>3, <1>4, <1>5, <1>11, <2>1 DEF ToolInv, vendorVars
    <3> QED BY <1>3, <1>4, <1>11, <2>1, <3>1 DEF ToolInv
  <2>5. CallInv(m)'
    BY <1>1, <1>11, <2>1, <2>4, OthersProposeAgain DEF CallInv, Holds, Tools
  <2>6. ActionInv(a)'
    BY <1>2, <1>4, <1>5, <1>8, <1>11 DEF ActionInv, studioVars, vendorVars
  <2> QED BY <1>6, <1>9, <2>2, <2>3, <2>5, <2>6, FrameSuffices DEF Own
<1> QED BY <1>7, <1>10, <1>11

\* The effects of a tool's call.
LEMMA EffectKeeps ==
  ASSUME GovInv, NEW m \in Servers, WriteEffect(m) \/ AskEffect(m)
  PROVE  GovInv'
<1>1. /\ call[m] # None /\ call[m].step = "effect" /\ call[m].tool \in {"write", "ask"}
      /\ GoTo(m, "receipt")
  BY DEF WriteEffect, AskEffect
<1>2. /\ UNCHANGED <<receipts, approvals, runs, studioVars, idempotency, history, recorded,
                     vendorVars>>
      /\ effects' = effects \/ (effects' = effects \cup {call[m].action} /\ call[m].tool = "write")
  BY DEF WriteEffect, AskEffect, dbVars, memVars
<1>3. PICK a \in Actions : a = call[m].action
  BY <1>1, OthersProposeAgain
<1>4. queue' \in [Servers -> SUBSET Actions]
  <2>1. queue \in [Servers -> SUBSET Actions] /\ call[m].target \in Actions
    BY <1>1, OthersProposeAgain DEF GovInv, TypeOK, Calls
  <2>2. queue' = queue \/ queue' = [queue EXCEPT ![m] = @ \cup {call[m].target}]
    BY DEF WriteEffect, AskEffect, memVars
  <2> QED BY <2>1, <2>2
<1>5. /\ ToolInv(call[m]) /\ call[m].tool \in Tools
      /\ a \notin effects \cup runs \cup proposed
      /\ call[m].decision \in {"allow", "pause"}
  BY <1>1, <1>3, OthersProposeAgain DEF CallInv, ToolInv, Tools
<1>6. PICK c \in Calls :
        /\ Holds(m, c)
        /\ c.step = "receipt" /\ c.decision = call[m].decision /\ c.tool = call[m].tool
        /\ c.action = call[m].action /\ c.key = call[m].key
  BY <1>1, GoToHolds DEF GovInv, Steps
<1>7. TypeOK'
  <2>1. effects' \subseteq Actions
    BY <1>2, <1>3 DEF GovInv, TypeOK
  <2>2. c.decision # None
    BY <1>5, <1>6 DEF Decisions
  <2>3. \A n \in Servers : call'[n] # None /\ call'[n].step # "evaluate" => call'[n].decision # None
    BY <1>6, <2>2 DEF GovInv, TypeOK, Holds
  <2> QED BY <1>2, <1>4, <1>6, <2>1, <2>3 DEF GovInv, TypeOK, studioVars, vendorVars, Holds
<1>8. Frame(m, a)
  BY <1>1, <1>2, <1>3, <1>6, OthersProposeAgain DEF Frame, Holds, studioVars, vendorVars
<1>9. ToolInv(c)'
  BY <1>1, <1>2, <1>3, <1>5, <1>6 DEF ToolInv, vendorVars
<1>10. CallInv(m)'
  BY <1>1, <1>2, <1>5, <1>6, <1>9, OthersProposeAgain DEF CallInv, Holds, Tools
<1>11. KeyRecords(m)' /\ ResolutionInv(a)'
  BY <1>1, <1>2, <1>3, OthersProposeAgain DEF KeyRecords, ResolutionInv, studioVars
<1>12. ActionInv(a)'
  <2>1. receipts[a] \in {None, "pause"}
    BY <1>3, <1>5 DEF ToolInv
  <2> QED BY <1>1, <1>2, <1>3, <1>5, <2>1, OthersProposeAgain
          DEF ActionInv, vendorVars, studioVars, Decisions
<1> QED BY <1>7, <1>8, <1>10, <1>11, <1>12, FrameSuffices DEF Own

\* A skill run ends its call: no receipt of it can follow.
LEMMA RunEffectKeeps ==
  ASSUME GovInv, NEW m \in Servers, RunEffect(m)
  PROVE  GovInv'
<1>1. /\ call[m] # None /\ call[m].step = "effect" /\ call[m].tool = "run"
      /\ runs' = runs \cup {call[m].action}
      /\ Leave(m) /\ Remember(m)
  BY DEF RunEffect
<1>2. UNCHANGED <<receipts, approvals, effects, studioVars, history, queue, recorded,
                  vendorVars>>
  BY DEF RunEffect
<1>3. PICK a \in Actions : a = call[m].action
  BY <1>1, OthersProposeAgain
<1>4. /\ ToolInv(call[m])
      /\ receipts[a] = None /\ a \notin effects \cup runs \cup proposed
  BY <1>1, <1>3, OthersProposeAgain DEF CallInv, ToolInv, Tools
<1>5. /\ idempotency' \in [Servers -> [ToolKeys -> Actions \cup {None}]]
      /\ \A n \in Servers \ {m} : idempotency'[n] = idempotency[n]
      /\ KeyRecords(m)'
  <2>1. /\ call[m].tool \in Keyed \/ call[m].key = NoKey
        /\ call[m].tool # "record" /\ KeyRecords(m) /\ UNCHANGED recorded
        /\ call[m].tool \in Keyed /\ call[m].key # NoKey =>
             idempotency[m][<<call[m].tool, call[m].key>>] = None
    BY <1>1, <1>2, <1>4, OthersProposeAgain DEF CallInv, ToolInv
  <2> QED BY <1>1, <2>1, MemoryWrites DEF GovInv
<1>6. /\ call'[m] = None
      /\ \A n \in Servers \ {m} : call'[n] = call[n]
      /\ call' \in [Servers -> Calls \cup {None}]
  BY <1>1, LeaveEnds DEF GovInv
<1>7. TypeOK'
  BY <1>1, <1>2, <1>3, <1>5, <1>6 DEF GovInv, TypeOK, studioVars, vendorVars
<1>8. Frame(m, a)
  BY <1>1, <1>2, <1>3, <1>5, <1>6, OthersProposeAgain DEF Frame, studioVars, vendorVars
<1>9. ResolutionInv(a)'
  BY <1>1, <1>2, <1>3, OthersProposeAgain DEF ResolutionInv, studioVars
<1>10. \A n \in Servers : call'[n] # None => call'[n].action # a
  BY <1>1, <1>3, <1>4, <1>6, OthersProposeAgain
<1>11. ActionInv(a)'
  BY <1>1, <1>2, <1>3, <1>4, <1>10 DEF ActionInv, vendorVars, Decisions
<1> QED BY <1>5, <1>6, <1>7, <1>8, <1>9, <1>11, FrameSuffices DEF Own, CallInv

\* The receipt of a recorded action, or of an effect that was committed.
LEMMA ReceiptKeeps ==
  ASSUME GovInv, NEW m \in Servers, Receipt(m)
  PROVE  GovInv'
<1>1. /\ call[m] # None /\ call[m].step = "receipt" /\ call[m].tool \in Tools
      /\ Persist(m) /\ Track(m) /\ Remember(m) /\ Leave(m)
  BY DEF Receipt
<1>2. UNCHANGED <<approvals, effects, runs, studioVars, queue, vendorVars>>
  BY DEF Receipt
<1>3. PICK a \in Actions : a = call[m].action
  BY <1>1, OthersProposeAgain
<1>4. /\ ToolInv(call[m])
      /\ receipts[a] \in {None, "pause"} /\ a \notin runs \cup proposed
      /\ a \in effects => call[m].decision \in {"allow", "pause"}
      /\ call[m].decision = "pause" => approvals[a] # None
  BY <1>1, <1>3, OthersProposeAgain DEF CallInv, ToolInv
<1>5. /\ receipts' \in [Actions -> Decisions \cup {None}]
      /\ \A b \in Actions \ {a} : receipts'[b] = receipts[b]
      /\ receipts'[a] = IF receipts[a] = None THEN call[m].decision ELSE receipts[a]
      /\ history' \in [Servers -> SUBSET Actions]
  BY <1>1, <1>3, PersistWrites DEF GovInv
<1>6. /\ idempotency' \in [Servers -> [ToolKeys -> Actions \cup {None}]]
      /\ recorded' \in [Servers -> [ToolKeys -> SUBSET Actions]]
      /\ \A n \in Servers \ {m} :
           idempotency'[n] = idempotency[n] /\ recorded'[n] = recorded[n]
      /\ KeyRecords(m)'
  <2>1. /\ call[m].tool \in Keyed \/ call[m].key = NoKey
        /\ KeyRecords(m)
        /\ call[m].tool \in Keyed /\ call[m].key # NoKey =>
             idempotency[m][<<call[m].tool, call[m].key>>] = None
    BY <1>1, <1>4, OthersProposeAgain DEF CallInv, ToolInv
  <2> QED BY <1>1, <2>1, MemoryWrites DEF GovInv
<1>7. /\ call'[m] = None
      /\ \A n \in Servers \ {m} : call'[n] = call[n]
      /\ call' \in [Servers -> Calls \cup {None}]
  BY <1>1, LeaveEnds DEF GovInv
<1>8. TypeOK'
  BY <1>2, <1>5, <1>6, <1>7 DEF GovInv, TypeOK, studioVars, vendorVars
<1>9. Frame(m, a)
  BY <1>1, <1>2, <1>3, <1>5, <1>6, <1>7, OthersProposeAgain DEF Frame, studioVars, vendorVars
<1>10. ResolutionInv(a)'
  BY <1>1, <1>2, <1>3, OthersProposeAgain DEF ResolutionInv, studioVars
<1>11. ActionInv(a)'
  BY <1>1, <1>2, <1>3, <1>4, <1>5, OthersProposeAgain DEF ActionInv, vendorVars
<1> QED BY <1>6, <1>7, <1>8, <1>9, <1>10, <1>11, FrameSuffices DEF Own, CallInv

-----------------------------------------------------------------------------
(* Steps that start a call, and steps of a vendor write.                   *)

\* A call starts with an action that no call has used.
LEMMA StartKeeps ==
  ASSUME GovInv, NEW m \in Servers, NEW tool \in Tools, NEW a \in Actions, NEW t \in Actions,
         NEW k \in Keys \cup {NoKey}, Start(m, tool, a, k, t)
  PROVE  GovInv'
<1>1. /\ call[m] = None /\ Unused(a)
      /\ tool \notin Keyed => k = NoKey
      /\ k # NoKey => idempotency[m][<<tool, k>>] = None
      /\ UNCHANGED <<dbVars, studioVars, memVars, vendorVars>>
  BY DEF Start
<1> DEFINE c == [tool |-> tool, action |-> a, key |-> k, target |-> t,
                 decision |-> None, step |-> "evaluate"]
<1>2. /\ c \in Calls /\ c.tool = tool /\ c.action = a /\ c.key = k
      /\ c.decision = None /\ c.step = "evaluate"
  BY DEF Calls, Purposes, Steps
<1>3. call' = [call EXCEPT ![m] = c]
  BY DEF Start
<1> HIDE DEF c
<1>4. Holds(m, c)
  BY <1>2, <1>3 DEF Holds, GovInv, TypeOK
<1>5. TypeOK'
  BY <1>1, <1>2, <1>4 DEF Holds, GovInv, TypeOK, dbVars, studioVars, memVars, vendorVars
<1>6. Frame(m, a)
  BY <1>1, <1>2, <1>4 DEF Frame, Holds, Unused, dbVars, studioVars, memVars, vendorVars
<1>7. /\ ToolInv(c)'
      /\ c.tool \in Keyed /\ c.key # NoKey => idempotency'[m][<<c.tool, c.key>>] = None
      /\ c.tool # "vendor"
  BY <1>1, <1>2 DEF ToolInv, Unused, dbVars, vendorVars, memVars, Decisions, Tools
<1>8. CallInv(m)' /\ KeyRecords(m)'
  BY <1>1, <1>4, <1>7 DEF CallInv, Holds, KeyRecords, KeyRecordsOnce, GovInv, memVars
<1>9. ActionInv(a)' /\ ResolutionInv(a)'
  BY <1>1 DEF ActionInv, ResolutionInv, GovInv, Unused, dbVars, studioVars, vendorVars, Decisions
<1> QED BY <1>5, <1>6, <1>8, <1>9, FrameSuffices DEF Own

\* A vendor write is proposed, with a fresh action or one proposed before.
LEMMA ProposeKeeps ==
  ASSUME GovInv, NEW m \in Servers, NEW a \in Actions, Propose(m, a)
  PROVE  GovInv'
<1>1. /\ call[m] = None /\ (Unused(a) \/ a \in proposed)
      /\ proposed' = proposed \cup {a}
      /\ again' = again \cup ({a} \cap proposed)
      /\ UNCHANGED <<dbVars, studioVars, memVars, sent>>
  BY DEF Propose
<1> DEFINE c == [tool |-> "vendor", action |-> a, key |-> NoKey, target |-> a,
                 decision |-> None, step |-> "evaluate"]
<1>2. /\ c \in Calls /\ c.tool = "vendor" /\ c.action = a /\ c.key = NoKey
      /\ c.decision = None /\ c.step = "evaluate"
  BY DEF Calls, Purposes, Steps
<1>3. call' = [call EXCEPT ![m] = c]
  BY DEF Propose
<1> HIDE DEF c
<1>4. Holds(m, c)
  BY <1>2, <1>3 DEF Holds, GovInv, TypeOK
<1>5. TypeOK'
  BY <1>1, <1>2, <1>4 DEF Holds, GovInv, TypeOK, dbVars, studioVars, memVars
<1>6. Frame(m, a)
  BY <1>1, <1>2, <1>4 DEF Frame, Holds, Unused, dbVars, studioVars, memVars
<1>7. VendorInv(c)' /\ c.tool \notin Tools
  BY <1>1, <1>2 DEF VendorInv, Unused, dbVars, GovInv, TypeOK, Tools
<1>8. CallInv(m)' /\ KeyRecords(m)'
  BY <1>1, <1>2, <1>4, <1>7 DEF CallInv, Holds, KeyRecords, KeyRecordsOnce, GovInv, memVars
<1>9. ActionInv(a)' /\ ResolutionInv(a)'
  BY <1>1 DEF ActionInv, ResolutionInv, GovInv, TypeOK, Unused, dbVars, studioVars, Decisions
<1> QED BY <1>5, <1>6, <1>8, <1>9, FrameSuffices DEF Own

\* A vendor write is decided, and carried out.
LEMMA VendorCallKeeps ==
  ASSUME GovInv, NEW m \in Servers,
         (\E d \in Decisions, carriesApproval \in BOOLEAN : Decide(m, d, carriesApproval))
           \/ Send(m)
  PROVE  GovInv'
<1>1. /\ call[m] # None /\ call[m].tool = "vendor" /\ call[m].step \in {"evaluate", "effect"}
      /\ UNCHANGED <<dbVars, studioVars, memVars, proposed, again>>
      /\ sent \subseteq sent' /\ sent' \subseteq sent \cup {call[m].action}
  BY DEF Decide, Send, vendorVars
<1>2. PICK a \in Actions : a = call[m].action
  BY <1>1, OthersProposeAgain
<1>3. VendorInv(call[m]) /\ a \in proposed
  BY <1>1, <1>2, OthersProposeAgain DEF CallInv, VendorInv
<1>4. PICK c \in Calls :
        /\ Holds(m, c)
        /\ c.tool = "vendor" /\ c.action = a /\ c.key = call[m].key
        /\ c.decision # None
        /\ \/ /\ c.step \in {"effect", "blocked"} /\ sent' = sent
              /\ c.step = "blocked" => c.decision # "allow"
           \/ c.step = "receipt" /\ a \in sent'
  <2>1. ASSUME NEW d \in Decisions, NEW b \in BOOLEAN, Decide(m, d, b)
        PROVE  \E c \in Calls :
                 /\ Holds(m, c)
                 /\ c.tool = "vendor" /\ c.action = a /\ c.key = call[m].key
                 /\ c.decision # None
                 /\ c.step \in {"effect", "blocked"} /\ sent' = sent
                 /\ c.step = "blocked" => c.decision # "allow"
    <3>1. PICK s \in {"effect", "blocked"} : DecidedAs(m, d, s) /\ (s = "blocked" => d # "allow")
      BY <2>1 DEF Decide, DecidedAs
    <3>2. \E c \in Calls :
            /\ Holds(m, c)
            /\ c.step = s /\ c.decision = d /\ c.tool = call[m].tool
            /\ c.action = call[m].action /\ c.key = call[m].key
      BY <1>1, <3>1, DecisionHolds DEF GovInv, Steps
    <3>3. d # None /\ sent' = sent
      BY <2>1 DEF Decide, vendorVars
    <3> QED BY <1>1, <1>2, <3>1, <3>2, <3>3
  <2>2. ASSUME Send(m)
        PROVE  \E c \in Calls :
                 /\ Holds(m, c)
                 /\ c.tool = "vendor" /\ c.action = a /\ c.key = call[m].key
                 /\ c.decision # None
                 /\ c.step = "receipt" /\ a \in sent'
    <3>1. GoTo(m, "receipt") /\ call[m].step = "effect" /\ a \in sent'
      BY <1>2, <2>2 DEF Send
    <3>2. call[m].decision # None
      BY <1>1, <3>1 DEF GovInv, TypeOK
    <3>3. \E c \in Calls :
            /\ Holds(m, c)
            /\ c.step = "receipt" /\ c.decision = call[m].decision /\ c.tool = call[m].tool
            /\ c.action = call[m].action /\ c.key = call[m].key
      BY <1>1, <3>1, GoToHolds DEF GovInv, Steps
    <3> QED BY <1>1, <1>2, <3>1, <3>2, <3>3
  <2> QED BY <2>1, <2>2
<1>5. TypeOK'
  BY <1>1, <1>2, <1>3, <1>4 DEF Holds, GovInv, TypeOK, dbVars, studioVars, memVars
<1>6. Frame(m, a)
  BY <1>1, <1>2, <1>4, OthersProposeAgain DEF Frame, Holds, dbVars, studioVars, memVars
<1>7. VendorInv(c)' /\ c.tool \notin Tools
  BY <1>1, <1>2, <1>3, <1>4 DEF VendorInv, dbVars, Tools
<1>8. CallInv(m)'
  BY <1>4, <1>7 DEF CallInv, Holds, Keyed
<1>9. KeyRecords(m)' /\ ResolutionInv(a)'
  BY <1>1, <1>2, OthersProposeAgain DEF KeyRecords, ResolutionInv, memVars, studioVars, dbVars
<1>10. ActionInv(a)'
  <2>1. ActionInv(a) /\ a \notin runs /\ a \notin effects
    BY <1>1, <1>2, <1>3, OthersProposeAgain DEF ActionInv
  <2>2. a \notin again => receipts[a] = None
    BY <1>2, <1>3 DEF VendorInv
  <2> QED BY <1>1, <1>3, <2>1, <2>2 DEF ActionInv, dbVars, Decisions
<1> QED BY <1>5, <1>6, <1>8, <1>9, <1>10, FrameSuffices DEF Own

\* The receipt of a vendor write says what became of it.
LEMMA ReceiptWriteKeeps ==
  ASSUME GovInv, NEW m \in Servers, ReceiptWrite(m)
  PROVE  GovInv'
<1>1. /\ call[m] # None /\ call[m].tool = "vendor" /\ call[m].step \in {"blocked", "receipt"}
      /\ Leave(m)
      /\ UNCHANGED <<approvals, effects, runs, studioVars, memVars, vendorVars>>
  BY DEF ReceiptWrite
<1>2. PICK a \in Actions : a = call[m].action
  BY <1>1, OthersProposeAgain
<1>3. VendorInv(call[m]) /\ a \in proposed /\ call[m].decision \in Decisions
  BY <1>1, <1>2, OthersProposeAgain DEF CallInv, VendorInv, GovInv, TypeOK, Calls
<1>4. /\ receipts' \in [Actions -> Decisions \cup {None}]
      /\ \A b \in Actions \ {a} : receipts'[b] = receipts[b]
      /\ receipts'[a] = IF receipts[a] # None THEN receipts[a]
                        ELSE IF call[m].step = "receipt" THEN "allow" ELSE call[m].decision
  <2>1. receipts' = [receipts EXCEPT ![a] =
          IF receipts[a] # None THEN receipts[a]
          ELSE IF call[m].step = "receipt" THEN "allow" ELSE call[m].decision]
    BY <1>1, <1>2 DEF ReceiptWrite
  <2> QED BY <1>3, <2>1 DEF GovInv, TypeOK, Decisions
<1>5. /\ call'[m] = None
      /\ \A n \in Servers \ {m} : call'[n] = call[n]
      /\ call' \in [Servers -> Calls \cup {None}]
  BY <1>1, LeaveEnds DEF GovInv
<1>6. TypeOK'
  BY <1>1, <1>4, <1>5 DEF GovInv, TypeOK, studioVars, memVars, vendorVars
<1>7. Frame(m, a)
  BY <1>1, <1>2, <1>4, <1>5, OthersProposeAgain DEF Frame, studioVars, memVars, vendorVars
<1>8. KeyRecords(m)' /\ ResolutionInv(a)'
  BY <1>1, <1>2, OthersProposeAgain DEF KeyRecords, ResolutionInv, memVars, studioVars
<1>9. ActionInv(a)'
  <2>1. ActionInv(a) /\ a \notin effects \cup runs
    BY <1>1, <1>2, <1>3, OthersProposeAgain DEF ActionInv
  <2>2. receipts[a] = None => (receipts'[a] = "allow" => a \in sent)
    BY <1>1, <1>2, <1>3, <1>4 DEF VendorInv
  <2>3. receipts[a] = None /\ receipts'[a] # "allow" => a \notin sent \/ a \in again
    BY <1>1, <1>2, <1>3, <1>4 DEF VendorInv
  <2> QED BY <1>1, <1>3, <1>4, <2>1, <2>2, <2>3 DEF ActionInv, vendorVars, Decisions
<1> QED BY <1>5, <1>6, <1>7, <1>8, <1>9, FrameSuffices DEF Own, CallInv

-----------------------------------------------------------------------------
(* Steps that end a call, or forget.                                       *)

\* Calls may end and memories shrink, when all else stays.
LEMMA ForgettingKeeps ==
  ASSUME GovInv, TypeOK', UNCHANGED <<dbVars, studioVars, vendorVars>>,
         \A m \in Servers : call'[m] = None \/ call'[m] = call[m],
         \A m \in Servers, tk \in ToolKeys :
           \/ idempotency'[m][tk] = idempotency[m][tk] /\ recorded'[m][tk] = recorded[m][tk]
           \/ idempotency'[m][tk] = None /\ recorded'[m][tk] = {}
  PROVE  GovInv'
<1>1. ASSUME NEW m \in Servers PROVE CallInv(m)'
  <2> SUFFICES ASSUME call[m] # None, call'[m] = call[m] PROVE CallInv(m)'
    BY DEF CallInv
  <2>1. PICK c \in Calls : c = call[m]
    BY DEF GovInv, TypeOK
  <2>2. /\ ToolInv(c) => ToolInv(c)'
        /\ VendorInv(c) => VendorInv(c)'
    BY DEF ToolInv, VendorInv, dbVars, vendorVars
  <2>3. c.tool \in Keyed /\ c.key # NoKey => <<c.tool, c.key>> \in ToolKeys
    BY DEF Calls, ToolKeys
  <2> QED BY <2>1, <2>2, <2>3 DEF CallInv, GovInv
<1>2. ActionsApart'
  BY DEF ActionsApart, GovInv, vendorVars
<1>3. ASSUME NEW a \in Actions PROVE ActionInv(a)' /\ ResolutionInv(a)'
  BY DEF GovInv, ActionInv, ResolutionInv, dbVars, studioVars, vendorVars
<1>4. KeyRecordsOnce'
  <2>1. \A k \in Keys : <<"record", k>> \in ToolKeys
    BY DEF ToolKeys, Keyed
  <2> QED BY <2>1 DEF KeyRecordsOnce, GovInv
<1> QED BY <1>1, <1>2, <1>3, <1>4 DEF GovInv

\* A call ends or fails, an entry gets too old, a server is restarted.
LEMMA EndsKeep ==
  ASSUME GovInv, NEW m \in Servers,
         AnswerCheck(m) \/ Fail(m) \/ (\E tk \in ToolKeys : Forget(m, tk)) \/ Restart(m)
  PROVE  GovInv'
<1>1. CASE AnswerCheck(m) \/ Fail(m)
  <2>1. Leave(m) /\ UNCHANGED <<dbVars, studioVars, memVars, vendorVars>>
    BY <1>1 DEF AnswerCheck, Fail
  <2>2. TypeOK'
    BY <2>1 DEF Leave, GovInv, TypeOK, dbVars, studioVars, memVars, vendorVars
  <2>3. \A n \in Servers : call'[n] = None \/ call'[n] = call[n]
    BY <2>1 DEF Leave, GovInv, TypeOK
  <2> QED BY <2>1, <2>2, <2>3, ForgettingKeeps DEF memVars
<1>2. ASSUME NEW tk \in ToolKeys, Forget(m, tk) PROVE GovInv'
  <2>1. /\ UNCHANGED <<dbVars, studioVars, call, history, queue, vendorVars>>
        /\ idempotency' = [idempotency EXCEPT ![m] = [idempotency[m] EXCEPT ![tk] = None]]
        /\ recorded' = [recorded EXCEPT ![m] = [recorded[m] EXCEPT ![tk] = {}]]
    BY <1>2 DEF Forget
  <2>2. /\ idempotency' \in [Servers -> [ToolKeys -> Actions \cup {None}]]
        /\ recorded' \in [Servers -> [ToolKeys -> SUBSET Actions]]
    BY <2>1 DEF GovInv, TypeOK
  <2>3. TypeOK'
    BY <2>1, <2>2 DEF GovInv, TypeOK, dbVars, studioVars, vendorVars
  <2>4. \A n \in Servers, x \in ToolKeys :
          \/ idempotency'[n][x] = idempotency[n][x] /\ recorded'[n][x] = recorded[n][x]
          \/ idempotency'[n][x] = None /\ recorded'[n][x] = {}
    BY <2>1 DEF GovInv, TypeOK
  <2> QED BY <2>1, <2>3, <2>4, ForgettingKeeps
<1>3. CASE Restart(m)
  <2>1. /\ Leave(m) /\ UNCHANGED <<dbVars, studioVars, vendorVars>>
        /\ history' = [history EXCEPT ![m] = {a \in Actions : receipts[a] # None}]
        /\ idempotency' = [idempotency EXCEPT ![m] = [tk \in ToolKeys |-> None]]
        /\ recorded' = [recorded EXCEPT ![m] = [tk \in ToolKeys |-> {}]]
        /\ queue' = [queue EXCEPT ![m] = {}]
    BY <1>3 DEF Restart
  <2>2. /\ history' \in [Servers -> SUBSET Actions] /\ queue' \in [Servers -> SUBSET Actions]
        /\ idempotency' \in [Servers -> [ToolKeys -> Actions \cup {None}]]
        /\ recorded' \in [Servers -> [ToolKeys -> SUBSET Actions]]
    BY <2>1 DEF GovInv, TypeOK
  <2>3. /\ call' \in [Servers -> Calls \cup {None}]
        /\ \A n \in Servers : call'[n] = None \/ call'[n] = call[n]
    BY <2>1 DEF Leave, GovInv, TypeOK
  <2>4. TypeOK'
    BY <2>1, <2>2, <2>3 DEF GovInv, TypeOK, dbVars, studioVars, vendorVars
  <2>5. \A n \in Servers, x \in ToolKeys :
          \/ idempotency'[n][x] = idempotency[n][x] /\ recorded'[n][x] = recorded[n][x]
          \/ idempotency'[n][x] = None /\ recorded'[n][x] = {}
    BY <2>1 DEF GovInv, TypeOK
  <2> QED BY <2>1, <2>3, <2>4, <2>5, ForgettingKeeps
<1> QED BY <1>1, <1>2, <1>3

-----------------------------------------------------------------------------
(* The Studio's steps.                                                     *)

\* Approvals that are there may change their status, and resolutions be
\* chained, as long as each tells its approval's status.
LEMMA ResolvingKeeps ==
  ASSUME GovInv, TypeOK',
         UNCHANGED <<receipts, effects, runs, call, memVars, vendorVars>>,
         \A a \in Actions : approvals'[a] = None <=> approvals[a] = None,
         \A a \in Actions : ResolutionInv(a)'
  PROVE  GovInv'
<1>1. ASSUME NEW m \in Servers PROVE CallInv(m)'
  <2> SUFFICES ASSUME call[m] # None PROVE CallInv(m)'
    BY DEF CallInv
  <2>1. PICK c \in Calls : c = call[m]
    BY DEF GovInv, TypeOK
  <2>2. c.action \in Actions
    BY DEF Calls
  <2>3. /\ ToolInv(c) => ToolInv(c)'
        /\ VendorInv(c) => VendorInv(c)'
    BY <2>2 DEF ToolInv, VendorInv, vendorVars
  <2> QED BY <2>1, <2>3 DEF CallInv, GovInv, memVars
<1>2. ActionsApart' /\ KeyRecordsOnce'
  BY DEF ActionsApart, KeyRecordsOnce, GovInv, vendorVars, memVars
<1>3. \A a \in Actions : ActionInv(a)'
  BY DEF GovInv, ActionInv, vendorVars
<1> QED BY <1>1, <1>2, <1>3 DEF GovInv

\* A human approves or denies a pending request, time passes one by, and all
\* that are overdue expire.
LEMMA ResolutionsKeep ==
  ASSUME GovInv,
         (\E a \in Actions : Approve(a) \/ Deny(a) \/ FallDue(a)) \/ Expire
  PROVE  GovInv'
<1> USE DEF Statuses
<1>1. ASSUME NEW a \in Actions, Approve(a) \/ Deny(a) PROVE GovInv'
  <2>1. PICK s \in {"approved", "denied"} :
          /\ approvals[a] = "pending" /\ approvals' = [approvals EXCEPT ![a] = s]
          /\ owed = {} /\ owed' \subseteq {<<a, "deny">>}
          /\ s = "denied" \/ owed' = {}
          /\ UNCHANGED <<receipts, effects, runs, overdue, resolutions, call, memVars,
                         vendorVars>>
    BY <1>1 DEF Approve, Deny, Resolve
  <2>2. TypeOK'
    BY <2>1 DEF GovInv, TypeOK, memVars, vendorVars
  <2>3. ASSUME NEW b \in Actions PROVE ResolutionInv(b)'
    <3>1. CASE b = a
      BY <2>1, <3>1 DEF GovInv, TypeOK, ResolutionInv
    <3>2. CASE b # a
      BY <2>1, <3>2 DEF GovInv, TypeOK, ResolutionInv
    <3> QED BY <3>1, <3>2
  <2>4. \A b \in Actions : approvals'[b] = None <=> approvals[b] = None
    BY <2>1 DEF GovInv, TypeOK
  <2> QED BY <2>1, <2>2, <2>3, <2>4, ResolvingKeeps
<1>2. ASSUME NEW a \in Actions, FallDue(a) PROVE GovInv'
  <2>1. TypeOK' /\ UNCHANGED <<dbVars, resolutions, owed, call, memVars, vendorVars>>
    BY <1>2 DEF FallDue, GovInv, TypeOK, dbVars, memVars, vendorVars
  <2>2. \A b \in Actions : ResolutionInv(b)'
    BY <2>1 DEF GovInv, ResolutionInv, dbVars
  <2> QED BY <2>1, <2>2, ResolvingKeeps DEF dbVars
<1>3. ASSUME Expire PROVE GovInv'
  <2>1. PICK expired \in SUBSET Actions :
          /\ \A a \in expired : approvals[a] = "pending"
          /\ owed = {} /\ owed' = expired \X {"expired"}
          /\ approvals' = [a \in Actions |-> IF a \in expired THEN "expired" ELSE approvals[a]]
          /\ UNCHANGED <<receipts, effects, runs, overdue, resolutions, call, memVars,
                         vendorVars>>
    BY <1>3 DEF Expire, GovInv, TypeOK
  <2>2. TypeOK'
    BY <2>1 DEF GovInv, TypeOK, memVars, vendorVars
  <2>3. ASSUME NEW b \in Actions PROVE ResolutionInv(b)'
    BY <2>1 DEF GovInv, TypeOK, ResolutionInv
  <2>4. \A b \in Actions : approvals'[b] = None <=> approvals[b] = None
    BY <2>1 DEF GovInv, TypeOK
  <2> QED BY <2>1, <2>2, <2>3, <2>4, ResolvingKeeps
<1> QED BY <1>1, <1>2, <1>3

\* A resolution is chained, or never will be.
LEMMA ChainingKeeps ==
  ASSUME GovInv, (\E o \in owed : ChainResolution(o)) \/ StudioFails
  PROVE  GovInv'
<1>1. /\ UNCHANGED <<dbVars, overdue, call, memVars, vendorVars>>
      /\ owed' \subseteq owed /\ resolutions \subseteq resolutions'
      /\ resolutions' \subseteq resolutions \cup owed
  BY DEF ChainResolution, StudioFails
<1>2. TypeOK'
  BY <1>1 DEF GovInv, TypeOK, dbVars, memVars, vendorVars
<1>3. \A b \in Actions : ResolutionInv(b)'
  BY <1>1 DEF GovInv, ResolutionInv, dbVars
<1> QED BY <1>1, <1>2, <1>3, ResolvingKeeps DEF dbVars

-----------------------------------------------------------------------------
(* The theorems.                                                           *)

\* Every step keeps the invariant.
LEMMA NextKeepsGovInv == GovInv /\ [Next]_vars => GovInv'
<1> SUFFICES ASSUME GovInv, [Next]_vars PROVE GovInv'
  OBVIOUS
<1>1. ASSUME NEW m \in Servers, ServerStep(m) PROVE GovInv'
  BY <1>1, EvaluateKeeps, OpenApprovalKeeps, ReceiptBlockedKeeps, EffectKeeps, RunEffectKeeps,
     ReceiptKeeps, EndsKeep DEF ServerStep
<1>2. ASSUME NEW m \in Servers, VendorStep(m) PROVE GovInv'
  BY <1>2, ProposeKeeps, VendorCallKeeps, ReceiptWriteKeeps DEF VendorStep
<1>3. ASSUME NEW m \in Servers,
             \/ \E tool \in Tools, a, t \in Actions, k \in Keys \cup {NoKey} :
                  Start(m, tool, a, k, t)
             \/ \E tk \in ToolKeys : Forget(m, tk)
             \/ Restart(m)
      PROVE  GovInv'
  BY <1>3, StartKeeps, EndsKeep
<1>4. CASE UNCHANGED vars
  BY <1>4, ForgettingKeeps
     DEF vars, memVars, GovInv, TypeOK, dbVars, studioVars, vendorVars
<1> QED BY <1>1, <1>2, <1>3, <1>4, ResolutionsKeep, ChainingKeeps DEF Next

\* The invariant holds in every reachable state.
LEMMA GovInvHolds == Spec => []GovInv
<1> QED BY InitGovInv, NextKeepsGovInv, PTL DEF Spec

\* What the ledger says of an action agrees with its effect, for any number
\* of servers and actions, although receipt and effect are committed apart.
THEOREM BlockedHasNoEffect == Spec => []BlockedActionsHaveNoEffect
<1> QED BY GovInvHolds, GovInvSuffices, PTL

\* No action is on record as paused without its approval, and a resolution on
\* record is its approval's status.
THEOREM LedgerMatchesApprovals == Spec => []ApprovalsMatchTheLedger
<1> QED BY GovInvHolds, GovInvSuffices, PTL

\* A server that remembers a key has recorded one action under it.
THEOREM RecordedOnce == Spec => []KeyRecordsOnce
<1> QED BY GovInvHolds, GovInvSuffices, PTL

-----------------------------------------------------------------------------
(* The graph in memory.  CacheInv is its inductive invariant.              *)

\* The types of the figures, of what a refresh has read, and of the lists.
Stamps == 0..MaxStamp
Stages == {"idle", "count_edges", "newest_entity", "newest_edge", "all_entities",
           "all_edges", "changed_entities", "new_edges"}
CacheTypes ==
  /\ CacheTypeOK
  /\ out \in [Edges -> Nat] /\ inn \in [Edges -> Nat]
  /\ sync \in [ec : Nat, xc : Nat, em : Stamps, xm : Stamps]
  /\ rd \in [stage : Stages, ec : Nat, xc : Nat, em : Stamps, xm : Stamps,
             held : [Entities -> Stamps]]

\* A timestamp is given to one write, and no figure names it before it is
\* committed; an edge is written once.
StampsApart ==
  /\ \A e \in Entities : db[e] <= clock
  /\ \A x \in Edges : links[x] <= clock
  /\ {sync.em, sync.xm, rd.em, rd.xm} \subseteq 0..clock
  /\ \A w \in waiting :
       /\ w.at <= clock /\ w.at \notin {sync.em, sync.xm, rd.em, rd.xm}
       /\ \A e \in Entities : db[e] # w.at
       /\ \A x \in Edges : links[x] # w.at
       /\ w.row \in Edges => links[w.row] = 0
  /\ \A v, w \in waiting : v.at = w.at \/ v.row = w.row => v = w

\* An edge that is there has both of its ends.
EndsArePresent ==
  \A x \in Edges : links[x] > 0 => db[Ends[x].from] > 0 /\ db[Ends[x].to] > 0

\* es has every row up to the timestamp em, but for late ones.
Covers(es, em) ==
  \A e \in Entities \ late : db[e] > 0 /\ db[e] <= em => es[e] = db[e]
EntitiesAreCovered ==
  /\ Covers(ents, sync.em)
  /\ rd.stage = "new_edges" => Covers(ents, rd.em)
  /\ rd.stage = "all_edges" => Covers(rd.held, rd.em)
EdgesAreCovered ==
  \A x \in Edges \ late : links[x] > 0 =>
    /\ links[x] <= sync.xm => out[x] > 0 /\ inn[x] > 0
    /\ rd.stage = "all_edges" /\ links[x] <= rd.xm =>
         rd.held[Ends[x].from] # 0 /\ rd.held[Ends[x].to] # 0

\* An edge that is in a list n times.  It gets there once more only if its
\* timestamp is after the last refresh's: it was raced then, and the figures of
\* the refresh that brings it again name it.
Figured == {"all_entities", "all_edges", "changed_entities", "new_edges"}
ListedTimes(x, n) ==
  /\ n <= IF x \in raced THEN 2 ELSE 1
  /\ links[x] = 0 => n = 0
  /\ links[x] > 0 =>
       /\ n > 0 /\ x \notin raced => links[x] <= sync.xm
       /\ n > 1 => links[x] <= sync.xm
       /\ rd.stage \in Figured /\ (n > 0 \/ x \notin raced) => links[x] <= rd.xm
EdgesAreListed == \A x \in Edges : ListedTimes(x, out[x]) /\ ListedTimes(x, inn[x])

CacheInv ==
  /\ CacheTypes /\ StampsApart /\ EndsArePresent
  /\ EntitiesAreCovered /\ EdgesAreCovered /\ EdgesAreListed

\* The invariant says what the property says.
LEMMA CacheInvSuffices == CacheInv => CacheMatchesDatabase
<1> SUFFICES ASSUME CacheInv PROVE MissesOnlyLateRows /\ EdgesRepeatOnlyIfRaced
  BY DEF CacheInv, CacheTypes, CacheMatchesDatabase
<1>1. MissesOnlyLateRows
  BY DEF CacheInv, CacheTypes, CacheTypeOK, EntitiesAreCovered, Covers, EdgesAreCovered,
         MissesOnlyLateRows, Present
<1>2. ASSUME NEW i \in Nat, NEW j \in Nat PROVE Max({i, j}) \in {i, j}
  BY DEF Max
<1>3. EdgesRepeatOnlyIfRaced
  <2> SUFFICES ASSUME NEW x \in Edges
               PROVE  Max({out[x], inn[x]}) <= IF x \in raced THEN 2 ELSE 1
    BY DEF EdgesRepeatOnlyIfRaced
  <2>1. out[x] \in Nat /\ inn[x] \in Nat /\ ListedTimes(x, out[x]) /\ ListedTimes(x, inn[x])
    BY DEF CacheInv, CacheTypes, EdgesAreListed
  <2> QED BY <1>2, <2>1 DEF ListedTimes
<1> QED BY <1>1, <1>3

-----------------------------------------------------------------------------
(* The newest of timestamps.                                               *)

\* A set of naturals with a bound has a largest element.
LEMMA MaxIsLargest ==
  ASSUME NEW n \in Nat, NEW S \in SUBSET (0..n), S # {}
  PROVE  Max(S) \in S /\ \A y \in S : y <= Max(S)
<1> DEFINE U == {u \in Nat : \A y \in S : y <= u}
<1>1. PICK u \in U : \A v \in U : ~ (v < u)
  <2>1. n \in U
    OBVIOUS
  <2>2. \E u \in U : \A v \in U : ~ (<<v, u>> \in OpToRel(<, Nat))
    BY <2>1, NatLessThanWellFounded, WFMin
  <2> QED BY <2>2 DEF OpToRel
<1>2. u \in S
  <2> SUFFICES ASSUME u \notin S PROVE FALSE
    OBVIOUS
  <2>1. \A y \in S : y \in Nat /\ y < u
    BY <1>1
  <2>2. u > 0
    <3>1. PICK y \in S : TRUE
      OBVIOUS
    <3>2. y \in Nat /\ y < u /\ u \in Nat
      BY <2>1, <3>1
    <3> QED BY <3>2
  <2>3. u - 1 \in Nat /\ \A y \in S : y <= u - 1
    BY <2>1, <2>2
  <2>4. u - 1 \in U /\ u - 1 < u
    BY <2>3
  <2> QED BY <1>1, <2>4
<1>3. \E m \in S : \A y \in S : m >= y
  BY <1>1, <1>2
<1> QED BY <1>3 DEF Max

\* So have the timestamps of the rows that are there.
LEMMA NewestIsNewest ==
  ASSUME NEW R, NEW f \in [R -> Gone..MaxStamp]
  PROVE  /\ Newest(f) \in Stamps
         /\ \A r \in R : f[r] <= Newest(f)
         /\ Newest(f) = 0 \/ \E r \in R : Newest(f) = f[r]
<1> DEFINE S == {f[r] : r \in Present(f)} \cup {0}
<1>1. S \in SUBSET (0..MaxStamp) /\ S # {} /\ MaxStamp \in Nat
  BY LimitsAssumption DEF Present, Gone
<1>2. Max(S) \in S /\ \A y \in S : y <= Max(S)
  BY <1>1, MaxIsLargest
<1>3. Newest(f) = Max(S)
  BY DEF Newest
<1>4. ASSUME NEW r \in R PROVE f[r] <= Max(S)
  <2>1. CASE f[r] > 0
    BY <1>2, <2>1 DEF Present
  <2>2. CASE ~ (f[r] > 0)
    <3>1. 0 <= Max(S) /\ Max(S) \in 0..MaxStamp
      BY <1>1, <1>2
    <3> QED BY <1>1, <2>2, <3>1 DEF Gone
  <2> QED BY <2>1, <2>2
<1> QED BY <1>1, <1>2, <1>3, <1>4 DEF Stamps, Present

\* Counting gives a number.
LEMMA Counted ==
  /\ \A f : DOMAIN f = Entities => Cardinality(Present(f)) \in Nat
  /\ \A f : DOMAIN f = Edges => Cardinality(Present(f)) \in Nat
<1>1. IsFiniteSet(Entities) /\ IsFiniteSet(Edges)
  BY RowsAssumption, FS_Subset
<1>2. ASSUME NEW R, IsFiniteSet(R), NEW f, DOMAIN f = R PROVE Cardinality(Present(f)) \in Nat
  BY <1>2, FS_Subset, FS_CardinalityType DEF Present
<1> QED BY <1>1, <1>2

\* CacheInv holds at the start.
LEMMA InitCacheInv == CacheInit => CacheInv
<1> SUFFICES ASSUME CacheInit PROVE CacheInv
  OBVIOUS
<1>0. MaxStamp \in Nat
  BY LimitsAssumption
<1>1. PICK start \in Starts : db = Restrict(start, Entities) /\ links = Restrict(start, Edges)
  BY DEF CacheInit
<1>2. /\ DOMAIN db = Entities /\ DOMAIN links = Edges
      /\ \A e \in Entities : db[e] = start[e] /\ start[e] \in Stamps
      /\ \A x \in Edges : links[x] = start[x] /\ start[x] \in Stamps
  BY <1>1, StartsAssumption DEF Restrict, Stamps
<1>3. db \in [Entities -> Gone..MaxStamp] /\ links \in [Edges -> Gone..MaxStamp]
  <2>1. db = [e \in Entities |-> db[e]] /\ links = [x \in Edges |-> links[x]]
    BY <1>1 DEF Restrict
  <2>2. Stamps \subseteq Gone..MaxStamp
    BY <1>0 DEF Stamps, Gone
  <2> QED BY <1>2, <2>1, <2>2
<1>4. /\ clock \in Stamps
      /\ \A e \in Entities : db[e] <= clock
      /\ \A x \in Edges : links[x] <= clock
  <2> DEFINE S == {0} \cup UNION {Range(s) : s \in Starts}
  <2>1. S \in SUBSET (0..MaxStamp) /\ S # {}
    BY <1>0, StartsAssumption DEF Range
  <2>2. clock \in S /\ \A y \in S : y <= clock
    BY <1>0, <2>1, MaxIsLargest DEF CacheInit
  <2>3. \A r \in Entities \cup Edges : start[r] \in S
    BY <1>1, StartsAssumption DEF Range
  <2> QED BY <1>2, <2>1, <2>2, <2>3 DEF Stamps
<1>5. /\ waiting = {} /\ late = {} /\ raced = {} /\ quiet = FALSE /\ fresh = FALSE
      /\ ents = [e \in Entities |-> 0]
      /\ out = [x \in Edges |-> 0] /\ inn = [x \in Edges |-> 0]
      /\ sync = NoFigures /\ rd = Idle
  BY DEF CacheInit
<1>6. /\ sync \in [ec : Nat, xc : Nat, em : Stamps, xm : Stamps] /\ sync.em = 0 /\ sync.xm = 0
      /\ rd \in [stage : Stages, ec : Nat, xc : Nat, em : Stamps, xm : Stamps,
                 held : [Entities -> Stamps]]
      /\ rd.stage = "idle" /\ rd.em = 0 /\ rd.xm = 0
  BY <1>0, <1>5 DEF NoFigures, Idle, Stamps, Stages
<1>7. CacheTypes
  BY <1>0, <1>3, <1>4, <1>5, <1>6 DEF CacheTypes, CacheTypeOK, Stamps
<1>8. StampsApart
  BY <1>4, <1>5, <1>6 DEF StampsApart, Stamps
<1>9. EndsArePresent
  BY <1>2, EndsAssumption, StartsAssumption DEF EndsArePresent
<1>10. EntitiesAreCovered /\ EdgesAreCovered /\ EdgesAreListed
  BY <1>2, <1>5, <1>6 DEF EntitiesAreCovered, EdgesAreCovered, EdgesAreListed, Covers,
     ListedTimes, Stamps, Figured
<1> QED BY <1>7, <1>8, <1>9, <1>10 DEF CacheInv

-----------------------------------------------------------------------------
(* Each action keeps the invariant.                                        *)

\* A search, a refresh that is due.
LEMMA SearchKeeps ==
  ASSUME CacheInv, quiet' \in BOOLEAN, fresh' \in BOOLEAN,
         UNCHANGED <<db, links, clock, waiting, late, raced, ents, out, inn, sync, rd>>
  PROVE  CacheInv'
BY DEF CacheInv, CacheTypes, CacheTypeOK, StampsApart, EndsArePresent, EntitiesAreCovered,
       Covers, EdgesAreCovered, EdgesAreListed, ListedTimes

\* What concerns the cache, when the database is written.
LEMMA WriteKeeps ==
  ASSUME CacheInv, UNCHANGED <<cache, rd>>, CacheTypeOK', StampsApart', EndsArePresent',
         \A e \in Entities \ late' : db'[e] > 0 =>
           \/ e \notin late /\ db'[e] = db[e]
           \/ db'[e] > sync.em /\ db'[e] > rd.em,
         \A x \in Edges : links'[x] > 0 =>
           \/ links'[x] = links[x] /\ (x \in late <=> x \in late') /\ (x \in raced <=> x \in raced')
           \/ /\ links[x] = 0 /\ (rd.stage # "idle" => x \in raced')
              /\ x \notin late' => links'[x] > sync.xm /\ links'[x] > rd.xm,
         \A x \in Edges : links'[x] = 0 => links[x] = 0,
         raced \subseteq raced'
  PROVE  CacheInv'
<1> USE DEF cache
<1>1. CacheTypes'
  BY DEF CacheInv, CacheTypes
<1>2. /\ sync \in [ec : Nat, xc : Nat, em : Stamps, xm : Stamps]
      /\ rd.em \in Stamps /\ rd.xm \in Stamps
      /\ \A x \in Edges : out[x] \in Nat /\ inn[x] \in Nat
      /\ \A e \in Entities : db'[e] \in Int
      /\ \A x \in Edges : links'[x] \in Int
  BY <1>1, LimitsAssumption DEF CacheInv, CacheTypes, CacheTypeOK, Gone
<1>3. sync.em \in Int /\ sync.xm \in Int /\ rd.em \in Int /\ rd.xm \in Int
  BY <1>2, LimitsAssumption DEF Stamps
<1>4. ASSUME NEW es, NEW em \in {sync.em, rd.em}, Covers(es, em)
      PROVE  \A e \in Entities \ late' : db'[e] > 0 /\ db'[e] <= em => es[e] = db'[e]
  BY <1>2, <1>3, <1>4 DEF Covers
<1>5. EntitiesAreCovered'
  BY <1>4 DEF CacheInv, EntitiesAreCovered, Covers
<1>6. EdgesAreCovered'
  <2> SUFFICES ASSUME NEW x \in Edges \ late', links'[x] > 0
               PROVE  /\ links'[x] <= sync.xm => out[x] > 0 /\ inn[x] > 0
                      /\ rd.stage = "all_edges" /\ links'[x] <= rd.xm =>
                           rd.held[Ends[x].from] # 0 /\ rd.held[Ends[x].to] # 0
    BY DEF EdgesAreCovered
  <2>1. CASE links'[x] = links[x] /\ x \notin late
    BY <2>1 DEF CacheInv, EdgesAreCovered
  <2>2. CASE links'[x] > sync.xm /\ links'[x] > rd.xm
    <3>1. links'[x] \in Int
      BY <1>2
    <3>2. ~ (links'[x] <= sync.xm) /\ ~ (links'[x] <= rd.xm)
      BY <1>3, <2>2, <3>1
    <3> QED BY <3>2
  <2> QED BY <2>1, <2>2
<1>7. ASSUME NEW x \in Edges, NEW n \in Nat, ListedTimes(x, n) PROVE ListedTimes(x, n)'
  <2>1. CASE ~ (links'[x] > 0)
    BY <1>7, <2>1 DEF ListedTimes
  <2>2. CASE links'[x] > 0 /\ links'[x] = links[x] /\ (x \in raced <=> x \in raced')
    BY <1>7, <2>2 DEF ListedTimes
  <2>3. CASE links'[x] > 0 /\ links[x] = 0 /\ (rd.stage # "idle" => x \in raced')
    <3>1. n = 0 /\ (rd.stage \in Figured => x \in raced')
      BY <1>7, <2>3 DEF ListedTimes, Figured
    <3> QED BY <2>3, <3>1 DEF ListedTimes
  <2> QED BY <2>1, <2>2, <2>3
<1>8. EdgesAreListed'
  BY <1>2, <1>7 DEF CacheInv, EdgesAreListed, ListedTimes
<1> QED BY <1>1, <1>5, <1>6, <1>8 DEF CacheInv

\* A row gets its timestamp.
LEMMA StampKeeps == ASSUME CacheInv, NEW r \in Rows, Stamp(r) PROVE CacheInv'
<1>1. /\ clock < MaxStamp /\ clock' = clock + 1
      /\ waiting' = waiting \cup {[row |-> r, at |-> clock + 1]}
      /\ r \in Edges => links[r] = 0
      /\ r \notin {w.row : w \in waiting}
      /\ UNCHANGED <<db, links, late, raced, quiet, cache, rd>>
  BY DEF Stamp
<1>2. MaxStamp \in Nat /\ clock \in 0..MaxStamp
  BY LimitsAssumption DEF CacheInv, CacheTypes, CacheTypeOK
<1> DEFINE new == [row |-> r, at |-> clock + 1]
<1>3. new.row = r /\ new.at = clock + 1 /\ new \in [row : Rows, at : 1..MaxStamp]
  BY <1>1, <1>2
<1>4. CacheTypeOK'
  BY <1>1, <1>2, <1>3 DEF CacheInv, CacheTypes, CacheTypeOK, cache
<1>5. StampsApart'
  <2>1. \A w \in waiting : w.at <= clock /\ w.row # r /\ w.at \in Nat
    BY <1>1 DEF CacheInv, CacheTypes, CacheTypeOK, StampsApart
  <2>2. /\ {sync.em, sync.xm, rd.em, rd.xm} \subseteq 0..clock
        /\ \A e \in Entities : db[e] <= clock /\ db[e] \in Int
        /\ \A x \in Edges : links[x] <= clock /\ links[x] \in Int
    BY <1>2 DEF CacheInv, CacheTypes, CacheTypeOK, StampsApart, Gone
  <2>3. /\ new.at \notin {sync.em, sync.xm, rd.em, rd.xm} /\ new.at <= clock'
        /\ \A e \in Entities : db[e] # new.at
        /\ \A x \in Edges : links[x] # new.at
        /\ new.row \in Edges => links[new.row] = 0
    BY <1>1, <1>2, <1>3, <2>2
  <2>4. \A w \in waiting : w.at # new.at /\ w.row # new.row /\ w.at <= clock'
    BY <1>1, <1>2, <1>3, <2>1
  <2>5. /\ \A e \in Entities : db[e] <= clock'
        /\ \A x \in Edges : links[x] <= clock'
        /\ {sync.em, sync.xm, rd.em, rd.xm} \subseteq 0..clock'
    BY <1>1, <1>2, <2>2
  <2> HIDE DEF new
  <2>6. waiting' = waiting \cup {new}
    BY <1>1 DEF new
  <2> QED BY <1>1, <2>3, <2>4, <2>5, <2>6 DEF CacheInv, StampsApart, cache
<1>6. EndsArePresent'
  BY <1>1 DEF CacheInv, EndsArePresent
<1> QED BY <1>1, <1>4, <1>5, <1>6, WriteKeeps

\* A write is committed, late or not, unless it is of an edge that lacks an end.
LEMMA CommitKeeps == ASSUME CacheInv, NEW w \in waiting, Commit(w) PROVE CacheInv'
<1>0. MaxStamp \in Nat
  BY LimitsAssumption
<1>1. /\ waiting' = waiting \ {w} /\ quiet' = FALSE
      /\ UNCHANGED <<clock, cache, rd>>
  BY DEF Commit
<1>2. w.row \in Rows /\ w.at \in 1..MaxStamp
  BY DEF CacheInv, CacheTypes, CacheTypeOK
<1>3. /\ w.at <= clock /\ w.at \notin {sync.em, sync.xm, rd.em, rd.xm}
      /\ (w.row \in Edges => links[w.row] = 0)
      /\ \A v \in waiting' : v.at # w.at /\ v.row # w.row
  BY <1>1 DEF CacheInv, StampsApart
<1>4. /\ {sync.em, sync.xm, rd.em, rd.xm} \subseteq 0..MaxStamp
      /\ db \in [Entities -> Gone..MaxStamp] /\ links \in [Edges -> Gone..MaxStamp]
      /\ late \subseteq Rows /\ raced \subseteq Edges
  BY DEF CacheInv, CacheTypes, CacheTypeOK, Stamps
<1>5. ASSUME NEW n \in Stamps, NEW i \in {rd.em, rd.xm}, NEW j \in {sync.em, sync.xm},
             ~ (w.at < Max({n, i, j}))
      PROVE  w.at > i /\ w.at > j
  <2>1. {n, i, j} \in SUBSET (0..MaxStamp) /\ {n, i, j} # {}
    BY <1>4, <1>5 DEF Stamps
  <2>2. Max({n, i, j}) \in 0..MaxStamp /\ i <= Max({n, i, j}) /\ j <= Max({n, i, j})
    BY <1>0, <2>1, MaxIsLargest
  <2>3. w.at # i /\ w.at # j /\ w.at \in Nat /\ i \in Nat /\ j \in Nat
    BY <1>2, <1>3, <1>4, <1>5
  <2> QED BY <1>0, <1>5, <2>2, <2>3
<1>6. Newest(db) \in Stamps /\ Newest(links) \in Stamps
  BY <1>4, NewestIsNewest
<1>7. CASE /\ w.row \in Entities
           /\ db' = [db EXCEPT ![w.row] = w.at]
           /\ late' = (IF w.at < Max({Newest(db), rd.em, sync.em})
                       THEN late \cup {w.row} ELSE late \ {w.row})
           /\ UNCHANGED <<links, raced>>
  <2>1. CacheTypeOK'
    <3>1. db' \in [Entities -> Gone..MaxStamp]
      BY <1>0, <1>2, <1>4, <1>7 DEF Gone
    <3>2. late' \subseteq Rows
      BY <1>2, <1>4, <1>7
    <3> QED BY <1>1, <1>7, <3>1, <3>2 DEF CacheInv, CacheTypes, CacheTypeOK, cache
  <2>2. StampsApart'
    <3>1. \A e \in Entities : db'[e] \in {db[e], w.at}
      BY <1>4, <1>7
    <3> QED BY <1>1, <1>3, <1>7, <3>1 DEF CacheInv, StampsApart, cache
  <2>3. EndsArePresent'
    <3>1. \A e \in Entities : db[e] > 0 => db'[e] > 0
      BY <1>2, <1>4, <1>7
    <3> QED BY <1>7, <3>1, EndsAssumption DEF CacheInv, EndsArePresent
  <2>4. ASSUME NEW e \in Entities \ late'
        PROVE  \/ e \notin late /\ db'[e] = db[e]
               \/ db'[e] > sync.em /\ db'[e] > rd.em
    <3>1. CASE e # w.row
      BY <1>4, <1>7, <2>4, <3>1
    <3>2. CASE e = w.row
      <4>1. ~ (w.at < Max({Newest(db), rd.em, sync.em})) /\ db'[e] = w.at
        BY <1>4, <1>7, <2>4, <3>2
      <4> QED BY <1>5, <1>6, <4>1
    <3> QED BY <3>1, <3>2
  <2>5. \A x \in Edges : x \in late <=> x \in late'
    BY <1>7, RowsAssumption
  <2> QED BY <1>1, <1>7, <2>1, <2>2, <2>3, <2>4, <2>5, WriteKeeps
<1>8. CASE /\ w.row \in Edges
           /\ {Ends[w.row].from, Ends[w.row].to} \subseteq Present(db)
           /\ links' = [links EXCEPT ![w.row] = w.at]
           /\ late' = (IF w.at < Max({Newest(links), rd.xm, sync.xm})
                       THEN late \cup {w.row} ELSE late)
           /\ raced' = (IF rd.stage = "idle" THEN raced ELSE raced \cup {w.row})
           /\ UNCHANGED db
  <2>1. CacheTypeOK'
    <3>1. links' \in [Edges -> Gone..MaxStamp]
      BY <1>0, <1>2, <1>4, <1>8 DEF Gone
    <3>2. late' \subseteq Rows /\ raced' \subseteq Edges
      BY <1>2, <1>4, <1>8
    <3> QED BY <1>1, <1>8, <3>1, <3>2 DEF CacheInv, CacheTypes, CacheTypeOK, cache
  <2>2. StampsApart'
    <3>1. /\ \A x \in Edges : links'[x] \in {links[x], w.at}
          /\ \A x \in Edges \ {w.row} : links'[x] = links[x]
      BY <1>4, <1>8
    <3> QED BY <1>1, <1>3, <1>8, <3>1 DEF CacheInv, StampsApart, cache
  <2>3. EndsArePresent'
    <3>1. \A x \in Edges \ {w.row} : links'[x] = links[x]
      BY <1>4, <1>8
    <3>2. db[Ends[w.row].from] > 0 /\ db[Ends[w.row].to] > 0
      BY <1>4, <1>8 DEF Present
    <3> QED BY <1>8, <3>1, <3>2 DEF CacheInv, EndsArePresent
  <2>4. ASSUME NEW x \in Edges
        PROVE  \/ /\ links'[x] = links[x] /\ (x \in late <=> x \in late')
                  /\ (x \in raced <=> x \in raced')
               \/ /\ links[x] = 0 /\ (rd.stage # "idle" => x \in raced')
                  /\ x \notin late' => links'[x] > sync.xm /\ links'[x] > rd.xm
    <3>1. CASE x # w.row
      BY <1>4, <1>8, <3>1
    <3>2. CASE x = w.row
      <4>1. links[x] = 0 /\ links'[x] = w.at /\ (rd.stage # "idle" => x \in raced')
        BY <1>3, <1>4, <1>8, <3>2
      <4>2. x \notin late' => ~ (w.at < Max({Newest(links), rd.xm, sync.xm}))
        BY <1>8, <3>2
      <4> QED BY <1>5, <1>6, <4>1, <4>2
    <3> QED BY <3>1, <3>2
  <2>5. \A x \in Edges : links'[x] = 0 => links[x] = 0
    BY <1>2, <1>4, <1>8
  <2>6. \A e \in Entities : e \in late => e \in late'
    BY <1>8
  <2> QED BY <1>1, <1>8, <2>1, <2>2, <2>3, <2>4, <2>5, <2>6, WriteKeeps
<1>9. CASE UNCHANGED <<db, links, late, raced>>
  <2>1. CacheTypeOK'
    BY <1>1, <1>9 DEF CacheInv, CacheTypes, CacheTypeOK, cache
  <2>2. StampsApart'
    BY <1>1, <1>9 DEF CacheInv, StampsApart, cache
  <2>3. EndsArePresent'
    BY <1>9 DEF CacheInv, EndsArePresent
  <2> QED BY <1>1, <1>9, <2>1, <2>2, <2>3, WriteKeeps
<1> QED BY <1>7, <1>8, <1>9 DEF Commit

\* A row is deleted, an entity only once it has no edges.
LEMMA RemoveEdgeKeeps == ASSUME CacheInv, NEW x \in Edges, RemoveEdge(x) PROVE CacheInv'
<1>1. /\ links[x] > 0 /\ links' = [links EXCEPT ![x] = Gone] /\ quiet' = FALSE
      /\ UNCHANGED <<db, clock, waiting, late, raced, cache, rd>>
  BY DEF RemoveEdge
<1>2. links \in [Edges -> Gone..MaxStamp] /\ clock \in Nat /\ Gone = -1 /\ MaxStamp \in Nat
  BY LimitsAssumption DEF CacheInv, CacheTypes, CacheTypeOK, Gone
<1>3. /\ links' \in [Edges -> Gone..MaxStamp] /\ links'[x] = Gone
      /\ \A y \in Edges \ {x} : links'[y] = links[y]
  BY <1>1, <1>2
<1>4. CacheTypeOK'
  BY <1>1, <1>3 DEF CacheInv, CacheTypes, CacheTypeOK, cache
<1>5. StampsApart'
  <2>1. \A y \in Edges : links'[y] <= clock
    BY <1>2, <1>3 DEF CacheInv, StampsApart
  <2>2. \A w \in waiting : w.at \in 1..MaxStamp
    BY DEF CacheInv, CacheTypes, CacheTypeOK
  <2>3. \A w \in waiting : (\A y \in Edges : links'[y] # w.at) /\ w.row # x
    BY <1>1, <1>2, <1>3, <2>2 DEF CacheInv, StampsApart
  <2> QED BY <1>1, <1>3, <2>1, <2>3 DEF CacheInv, StampsApart, cache
<1>6. EndsArePresent'
  BY <1>1, <1>2, <1>3 DEF CacheInv, EndsArePresent
<1>7. \A y \in Edges : (links'[y] > 0 => links'[y] = links[y]) /\ (links'[y] # 0 \/ y # x)
  BY <1>2, <1>3
<1> QED BY <1>1, <1>2, <1>3, <1>4, <1>5, <1>6, <1>7, WriteKeeps

LEMMA DeleteEntityKeeps ==
  ASSUME CacheInv, NEW e \in Entities, DeleteEntity(e) PROVE CacheInv'
<1>1. /\ db[e] > 0 /\ db' = [db EXCEPT ![e] = Gone] /\ quiet' = FALSE
      /\ \A x \in Present(links) : e \notin {Ends[x].from, Ends[x].to}
      /\ UNCHANGED <<links, clock, waiting, late, raced, cache, rd>>
  BY DEF DeleteEntity
<1>2. db \in [Entities -> Gone..MaxStamp] /\ clock \in Nat /\ Gone = -1 /\ MaxStamp \in Nat
  BY LimitsAssumption DEF CacheInv, CacheTypes, CacheTypeOK, Gone
<1>3. /\ db' \in [Entities -> Gone..MaxStamp] /\ db'[e] = Gone
      /\ \A f \in Entities \ {e} : db'[f] = db[f]
  BY <1>1, <1>2
<1>4. CacheTypeOK'
  BY <1>1, <1>3 DEF CacheInv, CacheTypes, CacheTypeOK, cache
<1>5. StampsApart'
  <2>1. \A f \in Entities : db'[f] <= clock
    BY <1>2, <1>3 DEF CacheInv, StampsApart
  <2>2. \A w \in waiting : w.at \in 1..MaxStamp
    BY DEF CacheInv, CacheTypes, CacheTypeOK
  <2>3. \A w \in waiting : \A f \in Entities : db'[f] # w.at
    BY <1>1, <1>2, <1>3, <2>2 DEF CacheInv, StampsApart
  <2> QED BY <1>1, <2>1, <2>3 DEF CacheInv, StampsApart, cache
<1>6. EndsArePresent'
  <2>1. \A x \in Edges : links[x] > 0 => Ends[x].from # e /\ Ends[x].to # e
    BY <1>1 DEF Present, CacheInv, CacheTypes, CacheTypeOK
  <2> QED BY <1>1, <1>3, <2>1, EndsAssumption DEF CacheInv, EndsArePresent
<1>7. \A f \in Entities : db'[f] > 0 => db'[f] = db[f]
  BY <1>2, <1>3
<1> QED BY <1>1, <1>4, <1>5, <1>6, <1>7, WriteKeeps

\* What a refresh may have read.
Readings == [stage : Stages, ec : Nat, xc : Nat, em : Stamps, xm : Stamps,
             held : [Entities -> Stamps]]

LEMMA IdleIsAReading ==
  Idle \in Readings /\ Idle.stage = "idle" /\ Idle.em = 0 /\ Idle.xm = 0
<1>1. 0 \in Stamps /\ 0 \in Nat /\ "idle" \in Stages
  BY LimitsAssumption DEF Stamps, Stages
<1>2. [e \in Entities |-> 0] \in [Entities -> Stamps]
  BY <1>1
<1> QED BY <1>1, <1>2 DEF Idle, Readings

\* A refresh reads on, or is given up.
LEMMA ReadKeeps ==
  ASSUME CacheInv, UNCHANGED <<store, cache>>, rd' \in Readings,
         {rd'.em, rd'.xm} \subseteq {0, rd.em, rd.xm, Newest(db), Newest(links)},
         rd'.stage # "new_edges",
         rd'.stage = "all_edges" => Covers(rd'.held, rd'.em)
           /\ \A e \in Entities : db[e] > 0 => rd'.held[e] # 0,
         rd'.stage \in Figured =>
           \/ rd.stage \in Figured /\ rd'.xm = rd.xm
           \/ rd'.xm = Newest(links)
  PROVE  CacheInv'
<1> USE DEF cache, store
<1>0. MaxStamp \in Nat
  BY LimitsAssumption
<1>1. /\ db \in [Entities -> Gone..MaxStamp] /\ links \in [Edges -> Gone..MaxStamp]
  BY DEF CacheInv, CacheTypes, CacheTypeOK
<1>9. clock \in Nat /\ \A w \in waiting : w.at \in Nat /\ w.at # 0
  <2>1. clock \in 0..MaxStamp /\ \A w \in waiting : w.at \in 1..MaxStamp
    BY DEF CacheInv, CacheTypes, CacheTypeOK
  <2> QED BY <1>0, <2>1
<1>2. /\ \A x \in Edges : links[x] <= Newest(links)
      /\ Newest(db) = 0 \/ \E e \in Entities : Newest(db) = db[e]
      /\ Newest(links) = 0 \/ \E x \in Edges : Newest(links) = links[x]
      /\ Newest(db) \in Stamps /\ Newest(links) \in Stamps
  BY <1>1, NewestIsNewest
<1>3. CacheTypes'
  BY DEF CacheInv, CacheTypes, CacheTypeOK, Readings
<1>4. StampsApart'
  <2>1. ASSUME NEW m \in {0, rd.em, rd.xm, Newest(db), Newest(links)}
        PROVE  m \in 0..clock /\ \A w \in waiting : w.at # m
    <3>1. CASE m \in {rd.em, rd.xm}
      BY <3>1 DEF CacheInv, StampsApart
    <3>2. CASE m = 0
      <4>1. 0 \in 0..clock
        BY <1>9
      <4>2. \A w \in waiting : w.at # 0
        BY <1>9
      <4> QED BY <3>2, <4>1, <4>2
    <3>3. CASE m = Newest(db) /\ m # 0
      <4>1. PICK e \in Entities : m = db[e]
        BY <1>2, <3>3
      <4>2. m <= clock /\ \A w \in waiting : w.at # m
        BY <4>1 DEF CacheInv, StampsApart
      <4>3. m \in 0..MaxStamp
        BY <1>2, <3>3 DEF Stamps
      <4>4. m \in 0..clock
        BY <1>0, <1>9, <4>2, <4>3
      <4> QED BY <4>2, <4>4
    <3>4. CASE m = Newest(links) /\ m # 0
      <4>1. PICK x \in Edges : m = links[x]
        BY <1>2, <3>4
      <4>2. m <= clock /\ \A w \in waiting : w.at # m
        BY <4>1 DEF CacheInv, StampsApart
      <4>3. m \in 0..MaxStamp
        BY <1>2, <3>4 DEF Stamps
      <4>4. m \in 0..clock
        BY <1>0, <1>9, <4>2, <4>3
      <4> QED BY <4>2, <4>4
    <3> QED BY <2>1, <3>1, <3>2, <3>3, <3>4
  <2>2. {sync.em, sync.xm, rd'.em, rd'.xm} \subseteq 0..clock
    BY <2>1 DEF CacheInv, StampsApart
  <2>3. \A w \in waiting : w.at \notin {sync.em, sync.xm, rd'.em, rd'.xm}
    BY <2>1 DEF CacheInv, StampsApart
  <2> QED BY <2>2, <2>3 DEF CacheInv, StampsApart
<1>5. EndsArePresent'
  BY DEF CacheInv, EndsArePresent
<1>6. EntitiesAreCovered'
  BY DEF CacheInv, EntitiesAreCovered, Covers
<1>7. EdgesAreCovered'
  <2>1. rd'.stage = "all_edges" => \A x \in Edges : links[x] > 0 =>
          rd'.held[Ends[x].from] # 0 /\ rd'.held[Ends[x].to] # 0
    <3> SUFFICES ASSUME rd'.stage = "all_edges", NEW x \in Edges, links[x] > 0
                 PROVE  rd'.held[Ends[x].from] # 0 /\ rd'.held[Ends[x].to] # 0
      OBVIOUS
    <3>1. Ends[x].from \in Entities /\ Ends[x].to \in Entities
      BY EndsAssumption
    <3>2. db[Ends[x].from] > 0 /\ db[Ends[x].to] > 0
      BY DEF CacheInv, EndsArePresent
    <3> QED BY <3>1, <3>2
  <2> QED BY <2>1 DEF CacheInv, EdgesAreCovered
<1>8. EdgesAreListed'
  BY <1>2 DEF CacheInv, EdgesAreListed, ListedTimes
<1> QED BY <1>3, <1>4, <1>5, <1>6, <1>7, <1>8 DEF CacheInv

\* The four figures.
LEMMA FiguresKeep ==
  ASSUME CacheInv, CountEntities \/ CountEdges \/ NewestEntity \/ NewestEdge PROVE CacheInv'
<1>0. rd \in Readings /\ UNCHANGED <<store, cache>> /\ MaxStamp \in Nat
  BY LimitsAssumption
     DEF CacheInv, CacheTypes, Readings, CountEntities, CountEdges, NewestEntity, NewestEdge
<1>1. /\ DOMAIN db = Entities /\ DOMAIN links = Edges
      /\ Newest(db) \in Stamps /\ Newest(links) \in Stamps
  BY NewestIsNewest DEF CacheInv, CacheTypes, CacheTypeOK
<1>2. Cardinality(Present(db)) \in Nat /\ Cardinality(Present(links)) \in Nat
  BY <1>1, Counted
<1>3. Idle \in Readings /\ Idle.em = 0 /\ Idle.xm = 0
  BY IdleIsAReading
<1>4. CASE CountEntities
  <2>1. /\ rd' \in Readings /\ rd'.stage = "count_edges" /\ rd'.em = 0 /\ rd'.xm = 0
    BY <1>2, <1>3, <1>4 DEF CountEntities, Readings, Stages
  <2> QED BY <1>0, <2>1, ReadKeeps DEF Figured
<1>5. CASE CountEdges
  <2>1. /\ rd' \in Readings /\ rd'.stage = "newest_entity" /\ rd'.em = rd.em /\ rd'.xm = rd.xm
    BY <1>0, <1>2, <1>5 DEF CountEdges, Readings, Stages
  <2> QED BY <1>0, <2>1, ReadKeeps DEF Figured
<1>6. CASE NewestEntity
  <2>1. /\ rd' \in Readings /\ rd'.stage = "newest_edge" /\ rd'.em = Newest(db)
        /\ rd'.xm = rd.xm
    BY <1>0, <1>1, <1>6 DEF NewestEntity, Readings, Stages
  <2> QED BY <1>0, <2>1, ReadKeeps DEF Figured
<1>7. CASE NewestEdge
  <2>1. /\ rd' \in Readings /\ rd'.stage \in {"all_entities", "changed_entities"}
        /\ rd'.em = rd.em /\ rd'.xm = Newest(links)
    <3> DEFINE next == IF RequiresFullRebuild THEN "all_entities" ELSE "changed_entities"
    <3>1. next \in {"all_entities", "changed_entities"}
      OBVIOUS
    <3>2. rd' = [rd EXCEPT !.stage = next, !.xm = Newest(links)]
      BY <1>7 DEF NewestEdge
    <3> HIDE DEF next
    <3> QED BY <1>0, <1>1, <3>1, <3>2 DEF Readings, Stages
  <2> QED BY <1>0, <2>1, ReadKeeps
<1> QED BY <1>4, <1>5, <1>6, <1>7

\* The entities of a full rebuild.
LEMMA AllEntitiesKeeps == ASSUME CacheInv, AllEntities PROVE CacheInv'
<1> DEFINE held == [e \in Entities |-> Max({db[e], 0})]
<1>0. /\ rd \in Readings /\ UNCHANGED <<store, cache>> /\ rd.stage = "all_entities"
      /\ rd' = [rd EXCEPT !.stage = "all_edges", !.held = held] /\ MaxStamp \in Nat
  BY LimitsAssumption DEF CacheInv, CacheTypes, Readings, AllEntities
<1>1. ASSUME NEW i \in Int PROVE Max({i, 0}) = IF i > 0 THEN i ELSE 0
  <2>1. \E m \in {i, 0} : \A y \in {i, 0} : m >= y
    OBVIOUS
  <2> QED BY <2>1 DEF Max
<1>2. /\ held \in [Entities -> Stamps]
      /\ \A e \in Entities : db[e] > 0 => held[e] = db[e]
  <2>1. \A e \in Entities : db[e] \in Int /\ db[e] <= MaxStamp
    BY LimitsAssumption DEF CacheInv, CacheTypes, CacheTypeOK, Gone
  <2>2. \A e \in Entities : held[e] = IF db[e] > 0 THEN db[e] ELSE 0
    BY <1>1, <2>1
  <2> HIDE DEF held
  <2>3. \A e \in Entities : held[e] \in Stamps
    BY <1>0, <2>1, <2>2 DEF Stamps
  <2>4. held \in [Entities -> Stamps]
    BY <2>3 DEF held
  <2> QED BY <2>2, <2>4
<1> HIDE DEF held
<1>3. /\ rd' \in Readings /\ rd'.stage = "all_edges" /\ rd'.em = rd.em /\ rd'.xm = rd.xm
      /\ rd'.held = held
  BY <1>0, <1>2 DEF Readings, Stages
<1>4. \A e \in Entities : db[e] > 0 => rd'.held[e] = db[e] /\ rd'.held[e] # 0
  BY <1>2, <1>3
<1>5. Covers(rd'.held, rd'.em)
  BY <1>4 DEF Covers
<1> QED BY <1>0, <1>3, <1>4, <1>5, ReadKeeps DEF Figured

\* A refresh that fails.
LEMMA RefreshFailsKeeps == ASSUME CacheInv, RefreshFails PROVE CacheInv'
<1>1. UNCHANGED <<store, cache>> /\ rd' = Idle /\ MaxStamp \in Nat
  BY LimitsAssumption DEF RefreshFails
<1>2. rd' \in Readings /\ rd'.stage = "idle" /\ rd'.em = 0 /\ rd'.xm = 0
  BY <1>1, IdleIsAReading
<1> QED BY <1>1, <1>2, ReadKeeps DEF Figured

\* What a refresh keeps of the database, and what is in the cache once it ends.
LEMMA SyncedFigures ==
  ASSUME CacheInv, Synced
  PROVE  /\ sync' \in [ec : Nat, xc : Nat, em : Stamps, xm : Stamps]
         /\ sync'.em = rd.em /\ sync'.xm = rd.xm /\ fresh' \in BOOLEAN
         /\ rd' \in Readings /\ rd'.stage = "idle" /\ rd'.em = 0 /\ rd'.xm = 0
<1>1. rd' \in Readings /\ rd'.stage = "idle" /\ rd'.em = 0 /\ rd'.xm = 0
  BY IdleIsAReading DEF Synced
<1>2. rd.ec \in Nat /\ rd.xc \in Nat /\ rd.em \in Stamps /\ rd.xm \in Stamps
  BY DEF CacheInv, CacheTypes
<1> QED BY <1>1, <1>2 DEF Synced

\* The cache is changed and nothing else.
LEMMA SyncKeeps ==
  ASSUME CacheInv, UNCHANGED <<db, links, clock, waiting, late, quiet>>,
         ents' \in [Entities -> Stamps], out' \in [Edges -> Nat], inn' \in [Edges -> Nat],
         fresh' \in BOOLEAN, sync' \in [ec : Nat, xc : Nat, em : Stamps, xm : Stamps],
         rd' \in Readings, raced' \subseteq raced,
         {sync'.em, sync'.xm, rd'.em, rd'.xm} \subseteq {0, sync.em, sync.xm, rd.em, rd.xm},
         EntitiesAreCovered', EdgesAreCovered', EdgesAreListed'
  PROVE  CacheInv'
<1>1. CacheTypes'
  <2>1. ents' \in [Entities -> 0..MaxStamp] /\ DOMAIN out' = Edges /\ DOMAIN inn' = Edges
    BY DEF Stamps
  <2> QED BY <2>1 DEF CacheInv, CacheTypes, CacheTypeOK, Readings
<1>2. StampsApart'
  <2>1. clock \in Nat /\ \A w \in waiting : w.at \in 1..MaxStamp
    BY LimitsAssumption DEF CacheInv, CacheTypes, CacheTypeOK
  <2>2. {0, sync.em, sync.xm, rd.em, rd.xm} \subseteq 0..clock
    BY <2>1 DEF CacheInv, StampsApart
  <2>3. \A w \in waiting : w.at \notin {0, sync.em, sync.xm, rd.em, rd.xm}
    BY <2>1 DEF CacheInv, StampsApart
  <2>4. /\ {sync'.em, sync'.xm, rd'.em, rd'.xm} \subseteq 0..clock
        /\ \A w \in waiting : w.at \notin {sync'.em, sync'.xm, rd'.em, rd'.xm}
    BY <2>2, <2>3
  <2> QED BY <2>4 DEF CacheInv, StampsApart
<1>3. EndsArePresent'
  BY DEF CacheInv, EndsArePresent
<1> QED BY <1>1, <1>2, <1>3 DEF CacheInv

\* The new graph replaces the old.
LEMMA FullRebuildKeeps == ASSUME CacheInv, FullRebuild PROVE CacheInv'
<1>0. /\ rd.stage = "all_edges" /\ ents' = rd.held /\ Synced
      /\ UNCHANGED <<db, links, clock, waiting, late, quiet>>
      /\ raced' = {x \in raced : links[x] > rd.xm}
  BY DEF FullRebuild
<1>1. /\ sync' \in [ec : Nat, xc : Nat, em : Stamps, xm : Stamps]
      /\ sync'.em = rd.em /\ sync'.xm = rd.xm /\ fresh' \in BOOLEAN
      /\ rd' \in Readings /\ rd'.stage = "idle" /\ rd'.em = 0 /\ rd'.xm = 0
  BY <1>0, SyncedFigures
<1>2. ents' \in [Entities -> Stamps]
  BY <1>0 DEF CacheInv, CacheTypes
<1>3. /\ out' \in [Edges -> Nat] /\ inn' \in [Edges -> Nat]
      /\ \A x \in Edges : /\ out'[x] \in {0, 1} /\ inn'[x] \in {0, 1}
                          /\ out'[x] = 1 <=> links[x] > 0 /\ rd.held[Ends[x].from] # 0
                          /\ inn'[x] = 1 <=> links[x] > 0 /\ rd.held[Ends[x].to] # 0
  BY DEF FullRebuild
<1>4. EntitiesAreCovered'
  BY <1>0, <1>1 DEF CacheInv, EntitiesAreCovered, Covers
<1>5. EdgesAreCovered'
  <2>1. \A x \in Edges \ late : links[x] > 0 /\ links[x] <= rd.xm => out'[x] = 1 /\ inn'[x] = 1
    BY <1>0, <1>3 DEF CacheInv, EdgesAreCovered
  <2> QED BY <1>0, <1>1, <2>1 DEF EdgesAreCovered
<1>6. EdgesAreListed'
  <2>1. ASSUME NEW x \in Edges, NEW n \in {0, 1}, n = 1 => links[x] > 0
        PROVE  ListedTimes(x, n)'
    <3>1. CASE n = 0
      BY <1>0, <1>1, <3>1 DEF ListedTimes, Figured
    <3>2. CASE n = 1
      <4>1. links[x] > 0 /\ links[x] # 0
        BY <2>1, <3>2
      <4>2. x \notin raced' => links[x] <= rd.xm
        <5>1. links[x] \in Int /\ rd.xm \in Int
          BY LimitsAssumption DEF CacheInv, CacheTypes, CacheTypeOK, Stamps, Gone
        <5>2. x \notin raced => links[x] <= rd.xm
          BY <1>0, <4>1 DEF CacheInv, EdgesAreListed, ListedTimes, Figured
        <5> QED BY <1>0, <5>1, <5>2
      <4> QED BY <1>0, <1>1, <3>2, <4>1, <4>2 DEF ListedTimes, Figured
    <3> QED BY <2>1, <3>1, <3>2
  <2> QED BY <1>3, <2>1 DEF EdgesAreListed, ListedTimes
<1>7. raced' \subseteq raced
  BY <1>0
<1> QED BY <1>0, <1>1, <1>2, <1>3, <1>4, <1>5, <1>6, <1>7, SyncKeeps

\* Changed rows are brought.
LEMMA ChangedEntitiesKeeps == ASSUME CacheInv, ChangedEntities PROVE CacheInv'
<1>0. /\ rd.stage = "changed_entities"
      /\ UNCHANGED <<db, links, clock, waiting, late, raced, quiet, out, inn, sync, fresh>>
      /\ rd' = [rd EXCEPT !.stage = "new_edges"]
  BY DEF ChangedEntities, store
<1>1. rd \in Readings
  BY DEF CacheInv, CacheTypes, Readings
<1>2. /\ rd' \in Readings /\ rd'.stage = "new_edges" /\ rd'.em = rd.em /\ rd'.xm = rd.xm
  BY <1>0, <1>1 DEF Readings, Stages
<1>3. /\ MaxStamp \in Nat /\ sync.em \in Nat /\ rd.em \in Nat
      /\ \A e \in Entities : db[e] \in Int /\ db[e] <= MaxStamp /\ ents[e] \in Stamps
  BY LimitsAssumption DEF CacheInv, CacheTypes, CacheTypeOK, Stamps, Gone
<1>4. \A e \in Entities :
        ents'[e] = IF rd.em # 0 /\ db[e] > sync.em THEN db[e] ELSE ents[e]
  BY DEF ChangedEntities
<1>5. ents' \in [Entities -> Stamps]
  <2>1. \A e \in Entities : ents'[e] \in Stamps
    BY <1>3, <1>4 DEF Stamps
  <2> QED BY <2>1 DEF ChangedEntities
<1>6. EntitiesAreCovered'
  <2>1. Covers(ents, sync.em)
    BY DEF CacheInv, EntitiesAreCovered
  <2>2. ASSUME NEW e \in Entities \ late, db[e] > 0, db[e] <= sync.em PROVE ents'[e] = db[e]
    BY <1>3, <1>4, <2>1, <2>2 DEF Covers
  <2>3. ASSUME NEW e \in Entities \ late, db[e] > 0, db[e] <= rd.em PROVE ents'[e] = db[e]
    <3>1. CASE db[e] > sync.em
      BY <1>3, <1>4, <2>3, <3>1
    <3>2. CASE db[e] <= sync.em
      BY <2>2, <2>3, <3>2
    <3> QED BY <1>3, <3>1, <3>2
  <2> QED BY <1>0, <1>2, <2>2, <2>3 DEF EntitiesAreCovered, Covers
<1>7. EdgesAreCovered' /\ EdgesAreListed'
  BY <1>0, <1>2 DEF CacheInv, EdgesAreCovered, EdgesAreListed, ListedTimes, Figured
<1>8. /\ sync' \in [ec : Nat, xc : Nat, em : Stamps, xm : Stamps] /\ fresh' \in BOOLEAN
      /\ out' \in [Edges -> Nat] /\ inn' \in [Edges -> Nat]
  BY <1>0 DEF CacheInv, CacheTypes, CacheTypeOK
<1>9. {sync'.em, sync'.xm, rd'.em, rd'.xm} \subseteq {0, sync.em, sync.xm, rd.em, rd.xm}
  BY <1>0, <1>2
<1> QED BY <1>0, <1>2, <1>5, <1>6, <1>7, <1>8, <1>9, SyncKeeps

\* New edges are appended.
LEMMA IncrementalSyncKeeps == ASSUME CacheInv, IncrementalSync PROVE CacheInv'
<1> DEFINE new == IF rd.xm = 0 THEN {} ELSE {x \in Edges : links[x] > sync.xm}
<1>0. /\ rd.stage = "new_edges" /\ Synced
      /\ UNCHANGED <<db, links, clock, waiting, late, raced, quiet, ents>>
      /\ out' = [x \in Edges |-> IF x \in new THEN out[x] + 1 ELSE out[x]]
      /\ inn' = [x \in Edges |-> IF x \in new THEN inn[x] + 1 ELSE inn[x]]
  BY DEF IncrementalSync, store
<1>1. /\ sync' \in [ec : Nat, xc : Nat, em : Stamps, xm : Stamps]
      /\ sync'.em = rd.em /\ sync'.xm = rd.xm /\ fresh' \in BOOLEAN
      /\ rd' \in Readings /\ rd'.stage = "idle" /\ rd'.em = 0 /\ rd'.xm = 0
  BY <1>0, SyncedFigures
<1>2. /\ sync.xm \in Nat /\ rd.xm \in Nat
      /\ \A x \in Edges : links[x] \in Int /\ out[x] \in Nat /\ inn[x] \in Nat
  BY LimitsAssumption DEF CacheInv, CacheTypes, CacheTypeOK, Stamps, Gone
<1>3. /\ \A x \in new : x \in Edges /\ links[x] > sync.xm /\ links[x] > 0
      /\ \A x \in Edges \ new : links[x] > 0 /\ links[x] <= rd.xm => links[x] <= sync.xm
  BY <1>2
<1> HIDE DEF new
<1>4. /\ out' \in [Edges -> Nat] /\ inn' \in [Edges -> Nat]
      /\ \A x \in new : out'[x] = out[x] + 1 /\ inn'[x] = inn[x] + 1
      /\ \A x \in Edges \ new : out'[x] = out[x] /\ inn'[x] = inn[x]
  BY <1>0, <1>2, <1>3
<1>5. ents' \in [Entities -> Stamps]
  BY <1>0 DEF CacheInv, CacheTypes, CacheTypeOK, Stamps
<1>6. EntitiesAreCovered'
  BY <1>0, <1>1 DEF CacheInv, EntitiesAreCovered, Covers
<1>7. EdgesAreCovered'
  <2>1. ASSUME NEW x \in Edges \ late, links[x] > 0, links[x] <= rd.xm
        PROVE  out'[x] > 0 /\ inn'[x] > 0
    <3>1. CASE x \in new
      BY <1>2, <1>4, <3>1
    <3>2. CASE x \notin new
      <4>1. links[x] <= sync.xm
        BY <1>3, <2>1, <3>2
      <4>2. out[x] > 0 /\ inn[x] > 0
        BY <2>1, <4>1 DEF CacheInv, EdgesAreCovered
      <4> QED BY <1>4, <3>2, <4>2
    <3> QED BY <3>1, <3>2
  <2> QED BY <1>0, <1>1, <2>1 DEF EdgesAreCovered
<1>8. EdgesAreListed'
  <2>1. ASSUME NEW x \in Edges, NEW n \in Nat, NEW m \in Nat, ListedTimes(x, n),
               x \in new => m = n + 1, x \notin new => m = n
        PROVE  /\ m <= IF x \in raced THEN 2 ELSE 1
               /\ links[x] = 0 => m = 0
               /\ links[x] > 0 /\ ((x \notin raced /\ m > 0) \/ m > 1) => links[x] <= rd.xm
    <3>1. CASE x \in new
      <4>1. links[x] > 0 /\ links[x] # 0 /\ ~ (links[x] <= sync.xm)
        BY <1>2, <1>3, <3>1
      <4>2. ~ (n > 1) /\ (x \notin raced => ~ (n > 0))
        BY <2>1, <4>1 DEF ListedTimes
      <4>3. n > 0 \/ x \notin raced => links[x] <= rd.xm
        BY <1>0, <2>1, <4>1 DEF ListedTimes, Figured
      <4>4. /\ m <= IF x \in raced THEN 2 ELSE 1
            /\ m > 1 => n > 0
        BY <2>1, <3>1, <4>2
      <4> QED BY <4>1, <4>3, <4>4
    <3>2. CASE x \notin new
      <4>1. m = n
        BY <2>1, <3>2
      <4>2. n <= (IF x \in raced THEN 2 ELSE 1) /\ (links[x] = 0 => n = 0)
        BY <2>1 DEF ListedTimes
      <4>3. links[x] > 0 /\ n > 0 => links[x] <= rd.xm
        BY <1>0, <2>1 DEF ListedTimes, Figured
      <4>4. n > 1 => n > 0
        OBVIOUS
      <4> QED BY <4>1, <4>2, <4>3, <4>4
    <3> QED BY <3>1, <3>2
  <2>2. \A x \in Edges : ListedTimes(x, out[x]) /\ ListedTimes(x, inn[x])
    BY DEF CacheInv, EdgesAreListed
  <2>3. /\ out' \in [Edges -> Nat] /\ inn' \in [Edges -> Nat]
        /\ UNCHANGED <<links, raced>> /\ sync'.xm = rd.xm /\ rd'.stage \notin Figured
    BY <1>0, <1>1, <1>4 DEF Figured
  <2>4. ASSUME NEW x \in Edges PROVE ListedTimes(x, out[x])'
    <3>1. /\ out'[x] <= IF x \in raced THEN 2 ELSE 1
          /\ links[x] = 0 => out'[x] = 0
          /\ links[x] > 0 /\ ((x \notin raced /\ out'[x] > 0) \/ out'[x] > 1)
               => links[x] <= rd.xm
      BY <1>2, <1>4, <2>1, <2>2, <2>3
    <3> QED BY <2>3, <3>1 DEF ListedTimes
  <2>5. ASSUME NEW x \in Edges PROVE ListedTimes(x, inn[x])'
    <3>1. /\ inn'[x] <= IF x \in raced THEN 2 ELSE 1
          /\ links[x] = 0 => inn'[x] = 0
          /\ links[x] > 0 /\ ((x \notin raced /\ inn'[x] > 0) \/ inn'[x] > 1)
               => links[x] <= rd.xm
      BY <1>2, <1>4, <2>1, <2>2, <2>3
    <3> QED BY <2>3, <3>1 DEF ListedTimes
  <2> QED BY <2>4, <2>5 DEF EdgesAreListed
<1>9. {sync'.em, sync'.xm, rd'.em, rd'.xm} \subseteq {0, sync.em, sync.xm, rd.em, rd.xm}
  BY <1>1
<1> QED BY <1>0, <1>1, <1>4, <1>5, <1>6, <1>7, <1>8, <1>9, SyncKeeps

-----------------------------------------------------------------------------
\* Every step keeps CacheInv.
LEMMA CacheStep == CacheInv /\ [CacheNext]_cacheVars => CacheInv'
<1> SUFFICES ASSUME CacheInv, [CacheNext]_cacheVars PROVE CacheInv'
  OBVIOUS
<1>1. CASE Write
  BY <1>1, StampKeeps, CommitKeeps, RemoveEdgeKeeps, DeleteEntityKeeps DEF Write
<1>2. CASE Refresh
  BY <1>2, FiguresKeep, AllEntitiesKeeps, FullRebuildKeeps, ChangedEntitiesKeeps,
     IncrementalSyncKeeps DEF Refresh
<1>3. CASE RefreshFails
  BY <1>3, RefreshFailsKeeps
<1>4. CASE TimesOut \/ Asks \/ Search \/ ProviderFails \/ Close \/ UNCHANGED cacheVars
  <2>1. quiet \in BOOLEAN /\ fresh \in BOOLEAN
    BY DEF CacheInv, CacheTypes, CacheTypeOK
  <2>2. /\ quiet' \in BOOLEAN /\ fresh' \in BOOLEAN
        /\ UNCHANGED <<db, links, clock, waiting, late, raced, ents, out, inn, sync, rd>>
    <3> USE DEF store, cache
    <3>1. CASE TimesOut \/ UNCHANGED cacheVars
      BY <2>1, <3>1 DEF TimesOut, cacheVars
    <3>2. CASE Asks
      BY <2>1, <3>2 DEF Asks, Ask
    <3>3. CASE Search \/ ProviderFails \/ Close
      <4>1. UNCHANGED <<store, cache, rd>>
        BY <3>3 DEF Search, Candidates, Connections, Vectors, EdgesOfSeeds, EntityMap,
                    Answer, Nodes, Rank, ProviderFails, Close
      <4> QED BY <2>1, <4>1
    <3> QED BY <1>4, <3>1, <3>2, <3>3
  <2> QED BY <2>2, SearchKeeps
<1> QED BY <1>1, <1>2, <1>3, <1>4 DEF CacheNext

\* For any number of rows and writers, whatever order they commit in: the cache
\* differs from the database by late rows, deleted rows and raced edges alone,
\* however refreshes, failures and writes alternate.
THEOREM CacheStaysTrue == CacheSpec => []CacheMatchesDatabase
<1>1. CacheSpec => []CacheInv
  BY InitCacheInv, CacheStep, PTL DEF CacheSpec
<1> QED BY <1>1, CacheInvSuffices, PTL

-----------------------------------------------------------------------------
(* Counting up, and what a recursive function over an interval comes to.    *)

\* What holds at 0 and from each number to the next holds of all up to n.
LEMMA CountingUp ==
  ASSUME NEW n \in Nat, NEW S, 0 \in S, \A i \in 0..(n - 1) : i \in S => i + 1 \in S
  PROVE  \A i \in 0..n : i \in S
<1> DEFINE Worse == {i \in 0..n : i \notin S}
<1>1. SUFFICES ASSUME Worse # {} PROVE FALSE
  OBVIOUS
<1>2. Worse \subseteq Nat
  OBVIOUS
<1>3. PICK i \in Worse : \A j \in Worse : ~ (j < i)
  <2> HIDE DEF Worse
  <2>1. \E i \in Worse : \A j \in Worse : ~ (<<j, i>> \in OpToRel(<, Nat))
    BY <1>1, <1>2, NatLessThanWellFounded, WFMin
  <2> QED BY <1>2, <2>1 DEF OpToRel
<1>4. i \in 0..n /\ i \notin S /\ i # 0 /\ i - 1 \in 0..(n - 1)
  OBVIOUS
<1>5. i - 1 \notin Worse
  BY <1>3, <1>4
<1>6. i - 1 \in S /\ (i - 1) + 1 = i
  BY <1>4, <1>5
<1> QED BY <1>4, <1>6

\* One step after another leads from x0 to a value for each number up to n.
Leading(n, x0, F, g) == g[0] = x0 /\ \A i \in 1..n : g[i] = F[<<i, g[i - 1]>>]
LEMMA StepsLead ==
  ASSUME NEW n \in Nat, NEW X, NEW x0 \in X, NEW F \in [(1..n) \X X -> X]
  PROVE  \E g \in [0..n -> X] : Leading(n, x0, F, g)
<1> DEFINE Leads(m, g) == g[0] = x0 /\ \A i \in 1..m : g[i] = F[<<i, g[i - 1]>>]
           S == {m \in 0..n : \E g \in [0..m -> X] : Leads(m, g)}
<1>1. 0 \in S
  <2>1. [i \in 0..0 |-> x0] \in [0..0 -> X] /\ Leads(0, [i \in 0..0 |-> x0])
    OBVIOUS
  <2> HIDE DEF Leads
  <2> QED BY <2>1
<1>2. ASSUME NEW m \in 0..(n - 1), m \in S PROVE m + 1 \in S
  <2>1. PICK g \in [0..m -> X] : Leads(m, g)
    BY <1>2
  <2> DEFINE h == [i \in 0..(m + 1) |-> IF i = m + 1 THEN F[<<m + 1, g[m]>>] ELSE g[i]]
  <2>2. m + 1 \in 1..n /\ g[m] \in X /\ <<m + 1, g[m]>> \in (1..n) \X X
    BY <1>2
  <2>3. F[<<m + 1, g[m]>>] \in X
    BY <2>2
  <2>4. \A i \in 0..(m + 1) : i # m + 1 => i \in 0..m
    BY <1>2
  <2>5. h \in [0..(m + 1) -> X]
    BY <2>3, <2>4
  <2>6. /\ h[0] = g[0] /\ h[m + 1] = F[<<m + 1, g[m]>>]
        /\ \A i \in 0..m : h[i] = g[i]
    BY <1>2
  <2>7. Leads(m + 1, h)
    <3> HIDE DEF h
    <3>1. ASSUME NEW i \in 1..(m + 1) PROVE h[i] = F[<<i, h[i - 1]>>]
      <4>1. CASE i = m + 1
        <5>1. i - 1 = m /\ m \in 0..m
          BY <1>2, <4>1
        <5> QED BY <2>6, <4>1, <5>1
      <4>2. CASE i # m + 1
        <5>1. i \in 1..m /\ i \in 0..m /\ i - 1 \in 0..m
          BY <1>2, <4>2
        <5> QED BY <2>1, <2>6, <5>1
      <4> QED BY <4>1, <4>2
    <3> QED BY <2>1, <2>6, <3>1
  <2> HIDE DEF h, Leads
  <2> QED BY <1>2, <2>5, <2>7
<1>3. n \in S
  <2> HIDE DEF S
  <2>1. \A i \in 0..n : i \in S
    BY <1>1, <1>2, CountingUp
  <2> QED BY <2>1
<1>4. PICK g \in [0..n -> X] : Leads(n, g)
  BY <1>3
<1> QED BY <1>4 DEF Leading

-----------------------------------------------------------------------------
(* The elements of a finite set, one after the other.                      *)

\* SetToSeq lists each element once.
LEMMA ListsEachOnce ==
  ASSUME NEW S, IsFiniteSet(S)
  PROVE  /\ SetToSeq(S) \in [1..Cardinality(S) -> S] /\ IsInjective(SetToSeq(S))
         /\ SetToSeq(S) \in Seq(S) /\ Len(SetToSeq(S)) = Cardinality(S)
         /\ ToSet(SetToSeq(S)) = S
<1> DEFINE s == SetToSeq(S)
<1>1. Cardinality(S) \in Nat /\ ExistsBijection(1..Cardinality(S), S)
  BY FS_CardinalityType
<1>2. s \in [1..Cardinality(S) -> S] /\ IsInjective(s)
  BY <1>1 DEF SetToSeq, ExistsBijection, Bijection, Injection
<1> HIDE DEF s
<1>3. s \in Seq(S) /\ Len(s) = Cardinality(S)
  BY <1>1, <1>2, SeqDef
<1>4. s \in Surjection(1..Cardinality(S), S)
  <2>1. s \in Injection(1..Cardinality(S), S)
    BY <1>2 DEF Injection
  <2>2. Cardinality(1..Cardinality(S)) = Cardinality(S)
    BY <1>1, FS_Interval
  <2> QED BY <2>1, <2>2, FS_Injection
<1>5. ToSet(s) = S
  BY <1>2, <1>4 DEF ToSet, Surjection
<1> QED BY <1>2, <1>3, <1>5 DEF s
\* The image of a finite set is finite, and no larger.
LEMMA ImageIsFinite ==
  ASSUME NEW S, IsFiniteSet(S), NEW f
  PROVE  /\ IsFiniteSet({f[x] : x \in S})
         /\ Cardinality({f[x] : x \in S}) <= Cardinality(S)
<1> DEFINE T == {f[x] : x \in S}
           g == [x \in S |-> f[x]]
<1>1. g \in Surjection(S, T)
  BY DEF Surjection
<1> QED BY <1>1, FS_Surjection

-----------------------------------------------------------------------------
(* Traversal: what is listed beside an entity.                             *)

Relations == [next : Entities, edge : Edges, copy : Nat]
Pairs == Entities \X Nat
Searches == [queue : Seq(Pairs), visited : SUBSET Entities, nodes : Seq(Pairs),
             steps : Seq(Edges), full : BOOLEAN]

\* The lists of both ends, and who stands beside an entity in them.
ListsAreCounted == out \in [Edges -> Nat] /\ inn \in [Edges -> Nat]
Nexts(e, dir) == {rel.next : rel \in ToSet(Listing(e, dir))}
IsNext(e, dir, f) ==
  \E x \in Edges : \/ dir # "incoming" /\ out[x] > 0 /\ Ends[x] = [from |-> e, to |-> f]
                   \/ dir # "outgoing" /\ inn[x] > 0 /\ Ends[x] = [from |-> f, to |-> e]

\* The copies of edges in one list are finitely many.
Copied(xs, times, next) ==
  UNION {{[next |-> next[x], edge |-> x, copy |-> i] : i \in 1..times[x]} : x \in xs}
LEMMA CopiesAreFinite ==
  ASSUME NEW xs \in SUBSET Edges, NEW times \in [Edges -> Nat], NEW next \in [Edges -> Entities]
  PROVE  /\ IsFiniteSet(Copied(xs, times, next))
         /\ Copied(xs, times, next) \subseteq Relations
         /\ \A rel \in Copied(xs, times, next) :
              rel.edge \in xs /\ times[rel.edge] > 0 /\ rel.next = next[rel.edge]
         /\ \A x \in xs : times[x] > 0 =>
              \E rel \in Copied(xs, times, next) : rel.edge = x /\ rel.next = next[x]
<1> DEFINE C(x) == {[next |-> next[x], edge |-> x, copy |-> i] : i \in 1..times[x]}
           c == [x \in xs |-> C(x)]
<1>1. IsFiniteSet(xs)
  <2>1. xs \in SUBSET (Entities \cup Edges)
    OBVIOUS
  <2> QED BY <2>1, FS_Subset, RowsAssumption
<1>2. ASSUME NEW x \in xs PROVE IsFiniteSet(C(x))
  <2> DEFINE f == [i \in 1..times[x] |-> [next |-> next[x], edge |-> x, copy |-> i]]
  <2>1. IsFiniteSet(1..times[x])
    BY FS_Interval
  <2>2. IsFiniteSet({f[i] : i \in 1..times[x]})
    <3> HIDE DEF f
    <3> QED BY <2>1, ImageIsFinite
  <2>3. {f[i] : i \in 1..times[x]} = C(x)
    OBVIOUS
  <2> QED BY <2>2, <2>3
<1>3. IsFiniteSet({c[x] : x \in xs})
  <2> HIDE DEF c
  <2> QED BY <1>1, ImageIsFinite
<1>4. \A T \in {c[x] : x \in xs} : IsFiniteSet(T)
  BY <1>2
<1>5. Copied(xs, times, next) = UNION {c[x] : x \in xs}
  BY DEF Copied
<1>6. IsFiniteSet(Copied(xs, times, next))
  <2> HIDE DEF c
  <2> QED BY <1>3, <1>4, <1>5, FS_UNION
<1>7. ASSUME NEW rel \in Copied(xs, times, next)
      PROVE  /\ rel \in Relations /\ rel.edge \in xs /\ times[rel.edge] > 0
             /\ rel.next = next[rel.edge]
  <2>1. PICK x \in xs : rel \in C(x)
    BY DEF Copied
  <2>2. PICK i \in 1..times[x] : rel = [next |-> next[x], edge |-> x, copy |-> i]
    BY <2>1
  <2> QED BY <2>2 DEF Relations
<1>8. ASSUME NEW x \in xs, times[x] > 0
      PROVE  \E rel \in Copied(xs, times, next) : rel.edge = x /\ rel.next = next[x]
  <2>1. 1 \in 1..times[x]
    BY <1>8
  <2>3. [next |-> next[x], edge |-> x, copy |-> 1] \in C(x)
    BY <2>1
  <2>2. [next |-> next[x], edge |-> x, copy |-> 1] \in Copied(xs, times, next)
    BY <2>3 DEF Copied
  <2> QED BY <2>2
<1> QED BY <1>6, <1>7, <1>8

\* Listing brings the entities beside one, over its edges, in the direction asked for.
LEMMA ListingIsNext ==
  ASSUME ListsAreCounted, NEW e \in Entities, NEW dir
  PROVE  /\ Listing(e, dir) \in Seq(Relations)
         /\ Nexts(e, dir) \subseteq Entities
         /\ \A f : f \in Nexts(e, dir) <=> IsNext(e, dir, f)
<1> DEFINE to == [x \in Edges |-> Ends[x].to]
           fro == [x \in Edges |-> Ends[x].from]
           outs == {x \in Edges : Ends[x].from = e}
           ins  == {x \in Edges : Ends[x].to = e}
           A == IF dir = "incoming" THEN {} ELSE Copied(outs, out, to)
           B == IF dir = "outgoing" THEN {} ELSE Copied(ins, inn, fro)
<1>1. /\ to \in [Edges -> Entities] /\ fro \in [Edges -> Entities]
      /\ outs \in SUBSET Edges /\ ins \in SUBSET Edges
      /\ \A x \in Edges : Ends[x] = [from |-> fro[x], to |-> to[x]]
  BY EndsAssumption
<1>2. Listing(e, dir) = SetToSeq(A) \o SetToSeq(B)
  <2>1. /\ Copied(outs, out, to) =
             UNION {{[next |-> Ends[x].to, edge |-> x, copy |-> i] : i \in 1..out[x]} : x \in outs}
        /\ Copied(ins, inn, fro) =
             UNION {{[next |-> Ends[x].from, edge |-> x, copy |-> i] : i \in 1..inn[x]} : x \in ins}
    BY DEF Copied
  <2> QED BY <2>1 DEF Listing
<1> HIDE DEF to, fro
<1>3. /\ IsFiniteSet(A) /\ A \subseteq Relations /\ IsFiniteSet(B) /\ B \subseteq Relations
      /\ \A rel \in A : /\ dir # "incoming" /\ rel.edge \in outs /\ out[rel.edge] > 0
                        /\ rel.next = to[rel.edge]
      /\ \A rel \in B : /\ dir # "outgoing" /\ rel.edge \in ins /\ inn[rel.edge] > 0
                        /\ rel.next = fro[rel.edge]
      /\ \A x \in outs : dir # "incoming" /\ out[x] > 0 => \E rel \in A : rel.next = to[x]
      /\ \A x \in ins : dir # "outgoing" /\ inn[x] > 0 => \E rel \in B : rel.next = fro[x]
  <2> DEFINE C == Copied(outs, out, to)
             D == Copied(ins, inn, fro)
  <2>1. /\ IsFiniteSet(C) /\ C \subseteq Relations
        /\ \A rel \in C : rel.edge \in outs /\ out[rel.edge] > 0 /\ rel.next = to[rel.edge]
        /\ \A x \in outs : out[x] > 0 => \E rel \in C : rel.next = to[x]
    <3> HIDE DEF outs
    <3>1. out \in [Edges -> Nat]
      BY DEF ListsAreCounted
    <3> QED BY <1>1, <3>1, CopiesAreFinite
  <2>2. /\ IsFiniteSet(D) /\ D \subseteq Relations
        /\ \A rel \in D : rel.edge \in ins /\ inn[rel.edge] > 0 /\ rel.next = fro[rel.edge]
        /\ \A x \in ins : inn[x] > 0 => \E rel \in D : rel.next = fro[x]
    <3> HIDE DEF ins
    <3>1. inn \in [Edges -> Nat]
      BY DEF ListsAreCounted
    <3> QED BY <1>1, <3>1, CopiesAreFinite
  <2> HIDE DEF C, D, outs, ins
  <2>3. A = (IF dir = "incoming" THEN {} ELSE C) /\ B = (IF dir = "outgoing" THEN {} ELSE D)
    BY DEF C, D
  <2>4. /\ IsFiniteSet(A) /\ A \subseteq Relations
        /\ \A rel \in A : /\ dir # "incoming" /\ rel.edge \in outs /\ out[rel.edge] > 0
                          /\ rel.next = to[rel.edge]
        /\ \A x \in outs : dir # "incoming" /\ out[x] > 0 => \E rel \in A : rel.next = to[x]
    <3>1. CASE dir = "incoming"
      BY <2>3, <3>1, FS_EmptySet
    <3>2. CASE dir # "incoming"
      <4>1. A = C
        BY <2>3, <3>2
      <4> HIDE DEF A
      <4> QED BY <2>1, <3>2, <4>1
    <3> QED BY <3>1, <3>2
  <2>5. /\ IsFiniteSet(B) /\ B \subseteq Relations
        /\ \A rel \in B : /\ dir # "outgoing" /\ rel.edge \in ins /\ inn[rel.edge] > 0
                          /\ rel.next = fro[rel.edge]
        /\ \A x \in ins : dir # "outgoing" /\ inn[x] > 0 => \E rel \in B : rel.next = fro[x]
    <3>1. CASE dir = "outgoing"
      BY <2>3, <3>1, FS_EmptySet
    <3>2. CASE dir # "outgoing"
      <4>1. B = D
        BY <2>3, <3>2
      <4> HIDE DEF B
      <4> QED BY <2>2, <3>2, <4>1
    <3> QED BY <3>1, <3>2
  <2> HIDE DEF A, B
  <2> QED BY <2>4, <2>5
<1> HIDE DEF A, B
<1> DEFINE s == SetToSeq(A)
           t == SetToSeq(B)
<1>4. /\ s \in Seq(Relations) /\ t \in Seq(Relations) /\ ToSet(s) = A /\ ToSet(t) = B
  BY <1>3, ListsEachOnce, SeqMonotonic
<1> HIDE DEF s, t
<1>5. s \o t \in Seq(Relations) /\ ToSet(s \o t) = A \cup B
  <2>1. /\ s \o t \in Seq(Relations)
        /\ Len(s \o t) = Len(s) + Len(t) /\ Len(s) \in Nat /\ Len(t) \in Nat
        /\ \A i \in 1..(Len(s) + Len(t)) :
             (s \o t)[i] = IF i <= Len(s) THEN s[i] ELSE t[i - Len(s)]
        /\ DOMAIN s = 1..Len(s) /\ DOMAIN t = 1..Len(t)
        /\ DOMAIN (s \o t) = 1..(Len(s) + Len(t))
    BY <1>4, ConcatProperties, LenProperties
  <2>2. ASSUME NEW i \in DOMAIN (s \o t) PROVE (s \o t)[i] \in ToSet(s) \cup ToSet(t)
    <3>1. CASE i <= Len(s)
      BY <2>1, <3>1 DEF ToSet
    <3>2. CASE i > Len(s)
      <4>1. i - Len(s) \in 1..Len(t) /\ (s \o t)[i] = t[i - Len(s)]
        BY <2>1, <3>2
      <4> QED BY <2>1, <4>1 DEF ToSet
    <3> QED BY <2>1, <3>1, <3>2
  <2>3. ASSUME NEW rel \in ToSet(s) PROVE rel \in ToSet(s \o t)
    <3>1. PICK i \in 1..Len(s) : rel = s[i]
      BY <2>1 DEF ToSet
    <3>2. i \in 1..(Len(s) + Len(t)) /\ (s \o t)[i] = rel
      BY <2>1, <3>1
    <3> QED BY <2>1, <3>2 DEF ToSet
  <2>4. ASSUME NEW rel \in ToSet(t) PROVE rel \in ToSet(s \o t)
    <3>1. PICK i \in 1..Len(t) : rel = t[i]
      BY <2>1 DEF ToSet
    <3>2. i + Len(s) \in 1..(Len(s) + Len(t)) /\ (s \o t)[i + Len(s)] = rel
      BY <2>1, <3>1
    <3> QED BY <2>1, <3>2 DEF ToSet
  <2>5. ToSet(s \o t) \subseteq ToSet(s) \cup ToSet(t)
    BY <2>2 DEF ToSet
  <2> QED BY <1>4, <2>1, <2>3, <2>4, <2>5
<1>6. Nexts(e, dir) = {rel.next : rel \in A \cup B} /\ Listing(e, dir) \in Seq(Relations)
  BY <1>2, <1>5 DEF Nexts, s, t
<1>7. ASSUME NEW f, f \in Nexts(e, dir) PROVE f \in Entities /\ IsNext(e, dir, f)
  <2>1. PICK rel \in A \cup B : f = rel.next
    BY <1>6, <1>7
  <2>2. CASE rel \in A
    <3>3. rel.edge \in outs /\ f = to[rel.edge]
      BY <1>3, <2>1, <2>2
    <3>4. PICK x \in outs : x = rel.edge
      BY <3>3
    <3>5. x \in Edges /\ Ends[x].from = e /\ f = to[x]
      BY <3>3, <3>4
    <3>6. Ends[x] = [from |-> fro[x], to |-> to[x]]
      BY <1>1, <3>5
    <3>1. Ends[x] = [from |-> e, to |-> f]
      BY <3>5, <3>6
    <3>7. f \in Entities /\ dir # "incoming" /\ out[x] > 0
      BY <1>1, <1>3, <2>1, <2>2, <3>4, <3>5
    <3> QED BY <3>1, <3>5, <3>7 DEF IsNext
  <2>3. CASE rel \in B
    <3>3. rel.edge \in ins /\ f = fro[rel.edge]
      BY <1>3, <2>1, <2>3
    <3>4. PICK x \in ins : x = rel.edge
      BY <3>3
    <3>5. x \in Edges /\ Ends[x].to = e /\ f = fro[x]
      BY <3>3, <3>4
    <3>6. Ends[x] = [from |-> fro[x], to |-> to[x]]
      BY <1>1, <3>5
    <3>1. Ends[x] = [from |-> f, to |-> e]
      BY <3>5, <3>6
    <3>7. f \in Entities /\ dir # "outgoing" /\ inn[x] > 0
      BY <1>1, <1>3, <2>1, <2>3, <3>4, <3>5
    <3> QED BY <3>1, <3>5, <3>7 DEF IsNext
  <2> QED BY <2>1, <2>2, <2>3
<1>8. ASSUME NEW f, IsNext(e, dir, f) PROVE f \in Nexts(e, dir)
  <2>1. PICK x \in Edges :
          \/ dir # "incoming" /\ out[x] > 0 /\ Ends[x] = [from |-> e, to |-> f]
          \/ dir # "outgoing" /\ inn[x] > 0 /\ Ends[x] = [from |-> f, to |-> e]
    BY <1>8 DEF IsNext
  <2>2. CASE dir # "incoming" /\ out[x] > 0 /\ Ends[x] = [from |-> e, to |-> f]
    <3>1. x \in outs /\ to[x] = f
      BY <2>2 DEF to
    <3> QED BY <1>3, <1>6, <2>2, <3>1
  <2>3. CASE dir # "outgoing" /\ inn[x] > 0 /\ Ends[x] = [from |-> f, to |-> e]
    <3>1. x \in ins /\ fro[x] = f
      BY <2>3 DEF fro
    <3> QED BY <1>3, <1>6, <2>3, <3>1
  <2> QED BY <2>1, <2>2, <2>3
<1> QED BY <1>6, <1>7, <1>8

\* The entities within each number of hops of one, as a function of the number.
Balls(e, dir, n) ==
  {g \in [0..n -> SUBSET Entities] :
     /\ g[0] = {e}
     /\ \A d \in 1..n : g[d] = g[d - 1] \cup UNION {Nexts(f, dir) : f \in g[d - 1]}}
IsAt(g, f, d) == f \in g[d] /\ (d # 0 => f \notin g[d - 1])

\* WithinReach takes them from such a function.
LEMMA ReachIsInBalls ==
  ASSUME ListsAreCounted, NEW e \in Entities, NEW dir, NEW n \in Nat
  PROVE  \E g \in Balls(e, dir, n) :
           WithinReach(e, n, dir) = {p \in Entities \X (0..n) : IsAt(g, p[1], p[2])}
<1> DEFINE Hop(S) == S \cup {rel.next : rel \in UNION {ToSet(Listing(f, dir)) : f \in S}}
           X == SUBSET Entities
           F == [p \in (1..n) \X X |-> Hop(p[2])]
           IsBall(g) == g = [d \in 0..n |-> IF d = 0 THEN {e} ELSE Hop(g[d - 1])]
           ball == CHOOSE g : IsBall(g)
           Within(g) == UNION {{<<f, d>> : f \in g[d] \ (IF d = 0 THEN {} ELSE g[d - 1])} :
                                 d \in 0..n}
<1>1. WithinReach(e, n, dir) = Within(ball)
  BY DEF WithinReach
<1>2. \A S : Hop(S) = S \cup UNION {Nexts(f, dir) : f \in S}
  BY DEF Nexts
<1>3. \A S \in X : Hop(S) \in X
  BY <1>2, ListingIsNext
<1> HIDE DEF Hop
<1>4. F \in [(1..n) \X X -> X]
  BY <1>3
<1>5. \E g : IsBall(g)
  <2>1. {e} \in X
    OBVIOUS
  <2>2. PICK g \in [0..n -> X] : g[0] = {e} /\ \A i \in 1..n : g[i] = F[<<i, g[i - 1]>>]
    <3> HIDE DEF F, X
    <3>1. \E g \in [0..n -> X] : Leading(n, {e}, F, g)
      BY <1>4, <2>1, StepsLead
    <3> QED BY <3>1 DEF Leading
  <2>3. ASSUME NEW i \in 0..n, i # 0 PROVE g[i] = Hop(g[i - 1])
    <3>1. i \in 1..n /\ i - 1 \in 0..n
      BY <2>3
    <3>2. g[i - 1] \in X
      BY <3>1
    <3>3. <<i, g[i - 1]>> \in (1..n) \X X /\ <<i, g[i - 1]>>[2] = g[i - 1]
      BY <3>1, <3>2
    <3> HIDE DEF X
    <3> QED BY <2>2, <3>1, <3>3
  <2>4. g = [i \in 0..n |-> IF i = 0 THEN {e} ELSE Hop(g[i - 1])]
    BY <2>2, <2>3
  <2> QED BY <2>4
<1>6. IsBall(ball)
  <2> HIDE DEF IsBall
  <2> QED BY <1>5
<1> HIDE DEF ball
<1>7. ball[0] = {e} /\ DOMAIN ball = 0..n
  BY <1>6
<1>8. ASSUME NEW d \in 1..n PROVE ball[d] = Hop(ball[d - 1])
  <2>1. d \in 0..n /\ d # 0
    OBVIOUS
  <2> QED BY <1>6, <2>1
<1>9. \A d \in 0..n : ball[d] \in X
  <2> DEFINE S == {d \in 0..n : ball[d] \in X}
  <2>1. 0 \in S
    BY <1>7
  <2>2. \A d \in 0..(n - 1) : d \in S => d + 1 \in S
    <3>1. SUFFICES ASSUME NEW d \in 0..(n - 1), ball[d] \in X PROVE ball[d + 1] \in X
      OBVIOUS
    <3>2. d + 1 \in 1..n /\ (d + 1) - 1 = d
      OBVIOUS
    <3> QED BY <1>3, <1>8, <3>1, <3>2
  <2> HIDE DEF S
  <2>3. \A d \in 0..n : d \in S
    BY <2>1, <2>2, CountingUp
  <2> QED BY <2>3 DEF S
<1>10. ball \in [0..n -> X]
  <2>1. \A d \in 0..n : ball[d] = IF d = 0 THEN {e} ELSE Hop(ball[d - 1])
    BY <1>6
  <2>2. ball = [d \in 0..n |-> ball[d]]
    BY <1>6, <2>1
  <2> HIDE DEF X
  <2> QED BY <1>9, <2>2
<1>11. ball \in Balls(e, dir, n)
  BY <1>2, <1>7, <1>8, <1>10 DEF Balls
<1>12. Within(ball) = {p \in Entities \X (0..n) : IsAt(ball, p[1], p[2])}
  BY <1>10 DEF IsAt
<1> QED BY <1>1, <1>11, <1>12

\* Each of these sets is in those further out; what is next to one of an id
\* is in the one after.
LEMMA BallsGrow ==
  ASSUME NEW e, NEW dir, NEW n \in Nat, NEW g \in Balls(e, dir, n)
  PROVE  /\ e \in g[0] /\ \A d \in 0..n : g[d] \subseteq Entities
         /\ \A d \in 1..n : g[d - 1] \subseteq g[d]
         /\ \A d \in 1..n : \A f \in g[d - 1] : Nexts(f, dir) \subseteq g[d]
         /\ \A c, d \in 0..n : c <= d => g[c] \subseteq g[d]
<1>1. /\ g[0] = {e} /\ \A d \in 0..n : g[d] \subseteq Entities
      /\ \A d \in 1..n : g[d] = g[d - 1] \cup UNION {Nexts(f, dir) : f \in g[d - 1]}
  BY DEF Balls
<1>2. ASSUME NEW c \in 0..n PROVE \A d \in 0..n : c <= d => g[c] \subseteq g[d]
  <2> DEFINE S == {d \in 0..n : c <= d => g[c] \subseteq g[d]}
  <2>1. 0 \in S
    BY <1>2
  <2>2. ASSUME NEW d \in 0..(n - 1), d \in S PROVE d + 1 \in S
    <3>1. d + 1 \in 1..n /\ d + 1 \in 0..n /\ (d + 1) - 1 = d
      BY <2>2
    <3>2. g[d] \subseteq g[d + 1]
      BY <1>1, <3>1
    <3>3. CASE c <= d
      BY <2>2, <3>1, <3>2, <3>3
    <3>4. CASE c > d
      <4>1. c <= d + 1 => c = d + 1
        BY <1>2, <2>2, <3>4
      <4> QED BY <3>1, <4>1
    <3> QED BY <1>2, <2>2, <3>3, <3>4
  <2> HIDE DEF S
  <2>3. \A d \in 0..n : d \in S
    BY <2>1, <2>2, CountingUp
  <2> QED BY <2>3 DEF S
<1> QED BY <1>1, <1>2

-----------------------------------------------------------------------------
(* Traversal: the search, breadth first.                                   *)

Firsts(s) == {s[i][1] : i \in DOMAIN s}

\* A queue of pairs when one is appended, and when one is taken.
LEMMA QueueGrows ==
  ASSUME NEW s \in Seq(Pairs), NEW p \in Pairs
  PROVE  /\ Append(s, p) \in Seq(Pairs) /\ Len(Append(s, p)) = Len(s) + 1
         /\ DOMAIN s = 1..Len(s) /\ Len(s) \in Nat /\ DOMAIN Append(s, p) = 1..(Len(s) + 1)
         /\ \A i \in 1..Len(s) : Append(s, p)[i] = s[i]
         /\ Append(s, p)[Len(s) + 1] = p
         /\ Firsts(Append(s, p)) = Firsts(s) \cup {p[1]}
<1>1. /\ Append(s, p) \in Seq(Pairs) /\ Len(Append(s, p)) = Len(s) + 1
      /\ DOMAIN s = 1..Len(s) /\ Len(s) \in Nat /\ DOMAIN Append(s, p) = 1..(Len(s) + 1)
      /\ \A i \in 1..Len(s) : Append(s, p)[i] = s[i]
      /\ Append(s, p)[Len(s) + 1] = p
  BY AppendProperties, LenProperties
<1> DEFINE a == Append(s, p)
<1> HIDE DEF a
<1>2. /\ DOMAIN a = 1..(Len(s) + 1) /\ a[Len(s) + 1] = p /\ \A i \in 1..Len(s) : a[i] = s[i]
  BY <1>1 DEF a
<1>3. ASSUME NEW i \in DOMAIN a PROVE a[i][1] \in Firsts(s) \cup {p[1]}
  <2>1. i = Len(s) + 1 \/ i \in 1..Len(s)
    BY <1>1, <1>2
  <2> QED BY <1>1, <1>2, <2>1 DEF Firsts
<1>4. ASSUME NEW f \in Firsts(s) \cup {p[1]} PROVE \E i \in DOMAIN a : a[i][1] = f
  <2>1. Len(s) + 1 \in DOMAIN a /\ \A i \in DOMAIN s : i \in DOMAIN a
    BY <1>1, <1>2
  <2> QED BY <1>1, <1>2, <2>1 DEF Firsts
<1>5. Firsts(a) = Firsts(s) \cup {p[1]}
  BY <1>3, <1>4 DEF Firsts
<1> QED BY <1>1, <1>5 DEF a

\* A queue without its head is in order still.
LEMMA QueueShrinks ==
  ASSUME NEW s \in Seq(Pairs), s # <<>>
  PROVE  /\ Head(s) \in Pairs /\ Head(s) = s[1] /\ 1 \in DOMAIN s
         /\ Tail(s) \in Seq(Pairs) /\ Len(Tail(s)) \in Nat /\ Len(s) = Len(Tail(s)) + 1
         /\ DOMAIN s = 1..Len(s) /\ DOMAIN Tail(s) = 1..Len(Tail(s))
         /\ \A i \in 1..Len(Tail(s)) : i + 1 \in 1..Len(s) /\ Tail(s)[i] = s[i + 1]
         /\ Firsts(s) = Firsts(Tail(s)) \cup {Head(s)[1]}
<1>1. /\ Head(s) \in Pairs /\ Head(s) = s[1]
      /\ Tail(s) \in Seq(Pairs) /\ Len(Tail(s)) = Len(s) - 1 /\ Len(s) \in Nat /\ Len(s) # 0
      /\ DOMAIN s = 1..Len(s) /\ DOMAIN Tail(s) = 1..Len(Tail(s))
      /\ \A i \in 1..Len(Tail(s)) : Tail(s)[i] = s[i + 1]
  BY HeadTailProperties, LenProperties, EmptySeq
<1> DEFINE q == Tail(s)
<1> HIDE DEF q
<1>2. /\ DOMAIN q = 1..Len(q) /\ Len(q) \in Nat /\ Len(s) = Len(q) + 1
      /\ \A i \in 1..Len(q) : i + 1 \in 1..Len(s) /\ q[i] = s[i + 1]
  BY <1>1 DEF q
<1>3. ASSUME NEW i \in DOMAIN s PROVE s[i][1] \in Firsts(q) \cup {s[1][1]}
  <2>1. CASE i = 1
    BY <2>1
  <2>2. CASE i # 1
    <3>1. i - 1 \in DOMAIN q /\ q[i - 1] = s[i]
      BY <1>1, <1>2, <2>2
    <3> QED BY <3>1 DEF Firsts
  <2> QED BY <2>1, <2>2
<1>4. 1 \in DOMAIN s
  BY <1>1
<1>5. ASSUME NEW f \in Firsts(q) \cup {s[1][1]} PROVE \E i \in DOMAIN s : s[i][1] = f
  <2>1. CASE f = s[1][1]
    BY <1>4, <2>1
  <2>2. CASE f \in Firsts(q)
    <3>1. PICK i \in DOMAIN q : q[i][1] = f
      BY <2>2 DEF Firsts
    <3>2. i + 1 \in DOMAIN s /\ s[i + 1] = q[i]
      BY <1>1, <1>2
    <3> QED BY <3>1, <3>2
  <2> QED BY <2>1, <2>2
<1>6. Firsts(s) = Firsts(q) \cup {s[1][1]}
  BY <1>3, <1>5 DEF Firsts
<1> QED BY <1>1, <1>2, <1>4, <1>6 DEF q

\* What holds of a search t for the ids within most hops, whose balls are g,
\* when all but the busy ones of the nodes listed have been followed.
Placed(s, g, most, visited) ==
  \A i \in DOMAIN s : /\ s[i][2] \in 0..most /\ IsAt(g, s[i][1], s[i][2])
                      /\ s[i][1] \in visited
Apart(s) == \A i, j \in DOMAIN s : s[i][1] = s[j][1] => i = j
InOrder(s) ==
  \A i, j \in DOMAIN s : i < j => s[i][2] <= s[j][2] /\ s[j][2] <= s[i][2] + 1
SearchOK(t, g, most, dir, cap, busy) ==
  /\ t \in Searches /\ g[0] \subseteq t.visited
  /\ Placed(t.nodes, g, most, t.visited) /\ Placed(t.queue, g, most, t.visited)
  /\ Apart(t.nodes) /\ Apart(t.queue) /\ Firsts(t.nodes) \cap Firsts(t.queue) = {}
  /\ InOrder(t.queue)
  /\ t.full => Cardinality(t.visited) >= cap
  /\ ~ t.full =>
       /\ t.visited \subseteq Firsts(t.nodes) \cup Firsts(t.queue)
       /\ \A i \in DOMAIN t.nodes : t.nodes[i][2] < most /\ t.nodes[i][1] \notin busy =>
            Nexts(t.nodes[i][1], dir) \subseteq t.visited

\* An id is at one distance only.
LEMMA AtOneDistance ==
  ASSUME NEW e, NEW dir, NEW n \in Nat, NEW g \in Balls(e, dir, n),
         NEW f, NEW c \in 0..n, NEW d \in 0..n
  PROVE  /\ IsAt(g, f, c) /\ f \in g[d] => c <= d
         /\ IsAt(g, f, c) /\ IsAt(g, f, d) => c = d
<1>1. ASSUME NEW i \in 0..n, NEW j \in 0..n, IsAt(g, f, i), f \in g[j] PROVE i <= j
  <2>1. SUFFICES ASSUME j < i PROVE FALSE
    OBVIOUS
  <2>2. i # 0 /\ i - 1 \in 0..n /\ j <= i - 1
    BY <2>1
  <2>3. f \in g[i - 1]
    BY <1>1, <2>2, BallsGrow
  <2> QED BY <1>1, <2>2, <2>3 DEF IsAt
<1> QED BY <1>1 DEF IsAt

\* Unless the search is full, what is no further than all of the queue has
\* been visited.
LEMMA NearIsVisited ==
  ASSUME NEW e, NEW dir, NEW n \in Nat, NEW g \in Balls(e, dir, n),
         NEW t, NEW cap, SearchOK(t, g, n, dir, cap, {}), ~ t.full,
         NEW d \in 0..n, \A i \in DOMAIN t.queue : d <= t.queue[i][2]
  PROVE  g[d] \subseteq t.visited
<1> DEFINE S == {k \in 0..d : g[k] \subseteq t.visited}
<1>1. 0 \in S
  BY DEF SearchOK
<1>2. ASSUME NEW k \in 0..(d - 1), k \in S PROVE k + 1 \in S
  <2>1. k \in 0..n /\ k + 1 \in 1..n /\ (k + 1) - 1 = k /\ k + 1 \in 0..d
    BY <1>2
  <2>2. ASSUME NEW f \in g[k] PROVE Nexts(f, dir) \subseteq t.visited
    <3>1. f \in Firsts(t.nodes) \cup Firsts(t.queue)
      BY <1>2 DEF SearchOK
    <3>2. f \notin Firsts(t.queue)
      <4>1. SUFFICES ASSUME NEW i \in DOMAIN t.queue, f = t.queue[i][1] PROVE FALSE
        BY DEF Firsts
      <4>2. t.queue[i][2] \in 0..n /\ IsAt(g, f, t.queue[i][2]) /\ d <= t.queue[i][2]
        BY <4>1 DEF SearchOK, Placed
      <4>3. t.queue[i][2] <= k
        BY <2>1, <4>2, AtOneDistance
      <4> QED BY <1>2, <4>2, <4>3
    <3>3. PICK i \in DOMAIN t.nodes : f = t.nodes[i][1]
      BY <3>1, <3>2 DEF Firsts
    <3>4. t.nodes[i][2] \in 0..n /\ IsAt(g, f, t.nodes[i][2])
      BY <3>3 DEF SearchOK, Placed
    <3>5. t.nodes[i][2] <= k
      BY <2>1, <3>4, AtOneDistance
    <3>6. t.nodes[i][2] < n
      BY <2>1, <3>4, <3>5
    <3> QED BY <3>3, <3>6 DEF SearchOK
  <2>3. g[k + 1] = g[k] \cup UNION {Nexts(f, dir) : f \in g[k]}
    BY <2>1 DEF Balls
  <2>4. g[k + 1] \subseteq t.visited
    BY <1>2, <2>2, <2>3
  <2> QED BY <2>1, <2>4
<1> HIDE DEF S
<1>3. \A k \in 0..d : k \in S
  BY <1>1, <1>2, CountingUp
<1> QED BY <1>3 DEF S

\* While an id e at distance d is followed: what is as near as e is visited,
\* the queue holds ids at d and then at one more.
Following(t, g, most, dir, cap, e, d) ==
  /\ SearchOK(t, g, most, dir, cap, {e})
  /\ \A i \in DOMAIN t.queue : t.queue[i][2] \in {d, d + 1}
  /\ g[d] \subseteq t.visited

\* A visit keeps the search in order.
LEMMA VisitKeepsSearch ==
  ASSUME NEW o, NEW dir, NEW n \in Nat, NEW g \in Balls(o, dir, n), NEW cap \in Nat,
         NEW e, NEW d \in 0..(n - 1), e \in g[d], NEW t, Following(t, g, n, dir, cap, e, d),
         NEW rel \in Relations, rel.next \in Nexts(e, dir)
  PROVE  LET u == Visit(t, rel, d + 1, cap)
         IN  /\ Following(u, g, n, dir, cap, e, d)
             /\ u.nodes = t.nodes /\ t.visited \subseteq u.visited
             /\ ~ u.full => ~ t.full /\ rel.next \in u.visited
<1> DEFINE u == Visit(t, rel, d + 1, cap)
           f == rel.next
<1>0. SUFFICES /\ Following(u, g, n, dir, cap, e, d)
               /\ u.nodes = t.nodes /\ t.visited \subseteq u.visited
               /\ ~ u.full => ~ t.full /\ f \in u.visited
  OBVIOUS
<1>1. CASE t.full
  BY <1>1 DEF Visit
<1>2. CASE ~ t.full /\ f \in t.visited
  <2>1. u = [t EXCEPT !.steps = Append(@, rel.edge)]
    BY <1>2 DEF Visit
  <2>2. t \in Searches
    BY DEF Following, SearchOK
  <2>3. /\ u.queue = t.queue /\ u.visited = t.visited /\ u.nodes = t.nodes /\ u.full = t.full
        /\ u \in Searches
    <3>1. Append(t.steps, rel.edge) \in Seq(Edges)
      BY <2>2, AppendProperties DEF Searches, Relations
    <3> HIDE DEF u
    <3> QED BY <2>1, <2>2, <3>1 DEF Searches
  <2> HIDE DEF u
  <2> QED BY <1>2, <2>3 DEF Following, SearchOK
<1>3. CASE ~ t.full /\ f \notin t.visited
  <2> DEFINE v == t.visited \cup {f}
             full == Cardinality(v) >= cap
             q == IF full THEN t.queue ELSE Append(t.queue, <<f, d + 1>>)
  <2>1. u = [t EXCEPT !.steps = Append(@, rel.edge), !.visited = v, !.full = full, !.queue = q]
    BY <1>3 DEF Visit
  <2>2. t \in Searches /\ f \in Entities /\ <<f, d + 1>> \in Pairs
    BY DEF Following, SearchOK, Relations, Pairs
  <2>3. /\ u.queue = q /\ u.visited = v /\ u.nodes = t.nodes /\ u.full = full
        /\ u \in Searches
    <3>1. Append(t.steps, rel.edge) \in Seq(Edges)
      BY <2>2, AppendProperties DEF Searches, Relations
    <3>2. t.queue \in Seq(Pairs) /\ q \in Seq(Pairs)
      BY <2>2, QueueGrows DEF Searches
    <3>3. v \in SUBSET Entities /\ full \in BOOLEAN
      BY <2>2 DEF Searches
    <3> HIDE DEF u, v, full, q
    <3> QED BY <2>1, <2>2, <3>1, <3>2, <3>3 DEF Searches
  <2>4. IsAt(g, f, d + 1) /\ d + 1 \in 0..n
    <3>1. d + 1 \in 1..n /\ (d + 1) - 1 = d
      OBVIOUS
    <3>2. f \in g[d + 1]
      BY <3>1, BallsGrow
    <3>3. f \notin g[d]
      BY <1>3 DEF Following
    <3> QED BY <3>1, <3>2, <3>3 DEF IsAt
  <2>5. t.nodes \in Seq(Pairs) /\ t.queue \in Seq(Pairs)
    BY <2>2 DEF Searches
  <2>6. f \notin Firsts(t.nodes) /\ f \notin Firsts(t.queue)
    BY <1>3 DEF Following, SearchOK, Placed, Firsts
  <2> HIDE DEF u, f, v
  <2>7. g[0] \subseteq v /\ g[d] \subseteq v /\ t.visited \subseteq v /\ f \in v
    BY DEF v, Following, SearchOK
  <2>8. Placed(t.nodes, g, n, v) /\ Placed(t.queue, g, n, v)
    BY <2>7 DEF Following, SearchOK, Placed
  <2>9. CASE full
    <3>1. q = t.queue
      BY <2>9
    <3> HIDE DEF q
    <3> QED BY <1>3, <2>3, <2>7, <2>8, <2>9, <3>1 DEF Following, SearchOK
  <2>10. CASE ~ full
    <3>1. q = Append(t.queue, <<f, d + 1>>)
      BY <2>10
    <3>2. /\ DOMAIN t.queue = 1..Len(t.queue) /\ Len(t.queue) \in Nat
          /\ DOMAIN q = 1..(Len(t.queue) + 1)
          /\ \A i \in 1..Len(t.queue) : q[i] = t.queue[i]
          /\ q[Len(t.queue) + 1] = <<f, d + 1>>
          /\ Firsts(q) = Firsts(t.queue) \cup {f}
      <4> DEFINE p == <<f, d + 1>>
      <4>1. t.queue \in Seq(Pairs) /\ p \in Pairs /\ p[1] = f /\ q = Append(t.queue, p)
        BY <2>2, <2>5, <3>1
      <4> HIDE DEF q, p
      <4>2. /\ DOMAIN t.queue = 1..Len(t.queue) /\ Len(t.queue) \in Nat
            /\ DOMAIN q = 1..(Len(t.queue) + 1)
            /\ \A i \in 1..Len(t.queue) : q[i] = t.queue[i]
            /\ q[Len(t.queue) + 1] = p
            /\ Firsts(q) = Firsts(t.queue) \cup {p[1]}
        BY <4>1, QueueGrows
      <4> QED BY <4>1, <4>2 DEF p
    <3> HIDE DEF q, full
    <3>3. \A i \in DOMAIN q : i = Len(t.queue) + 1 \/ i \in DOMAIN t.queue
      BY <3>2
    <3>4. Placed(q, g, n, v)
      BY <2>4, <2>7, <2>8, <3>2, <3>3 DEF Placed
    <3>5. Apart(q)
      <4>1. \A i \in DOMAIN t.queue : q[i][1] # f
        BY <2>6, <3>2 DEF Firsts
      <4>2. Apart(t.queue)
        BY DEF Following, SearchOK
      <4>3. SUFFICES ASSUME NEW i \in DOMAIN q, NEW j \in DOMAIN q, q[i][1] = q[j][1]
                     PROVE  i = j
        BY DEF Apart
      <4>4. q[Len(t.queue) + 1][1] = f
        BY <3>2
      <4> QED BY <3>2, <3>3, <4>1, <4>2, <4>3, <4>4 DEF Apart
    <3>6. Firsts(t.nodes) \cap Firsts(q) = {}
      BY <2>6, <3>2 DEF Following, SearchOK
    <3>7. \A i \in DOMAIN q : q[i][2] \in {d, d + 1}
      BY <3>2, <3>3 DEF Following
    <3>8. InOrder(q)
      <4>1. SUFFICES ASSUME NEW i \in DOMAIN q, NEW j \in DOMAIN q, i < j
                     PROVE  q[i][2] <= q[j][2] /\ q[j][2] <= q[i][2] + 1
        BY DEF InOrder
      <4>2. CASE j \in DOMAIN t.queue
        <5>1. i \in DOMAIN t.queue
          BY <3>2, <4>1, <4>2
        <5> QED BY <3>2, <4>1, <4>2, <5>1 DEF Following, SearchOK, InOrder
      <4>3. CASE j = Len(t.queue) + 1
        BY <3>2, <3>7, <4>3
      <4> QED BY <3>3, <4>2, <4>3
    <3>9. v \subseteq Firsts(t.nodes) \cup Firsts(q)
      BY <1>3, <3>2 DEF v, Following, SearchOK
    <3> QED BY <1>3, <2>3, <2>7, <2>8, <2>10, <3>4, <3>5, <3>6, <3>7, <3>8, <3>9
            DEF Following, SearchOK
  <2> QED BY <2>9, <2>10
<1> QED BY <1>1, <1>2, <1>3

\* A visit leads from a search to a search.
LEMMA VisitIsSearch ==
  ASSUME NEW t \in Searches, NEW rel \in Relations, NEW depth \in Nat, NEW cap
  PROVE  Visit(t, rel, depth, cap) \in Searches
<1>1. /\ t.queue \in Seq(Pairs) /\ t.steps \in Seq(Edges) /\ t.visited \in SUBSET Entities
      /\ rel.edge \in Edges /\ rel.next \in Entities /\ <<rel.next, depth>> \in Pairs
  BY DEF Searches, Relations, Pairs
<1>2. Append(t.steps, rel.edge) \in Seq(Edges) /\ Append(t.queue, <<rel.next, depth>>) \in Seq(Pairs)
  BY <1>1, AppendProperties
<1>3. CASE t.full
  BY <1>3 DEF Visit
<1>4. CASE ~ t.full /\ rel.next \in t.visited
  BY <1>2, <1>4 DEF Visit, Searches
<1>5. CASE ~ t.full /\ rel.next \notin t.visited
  <2> DEFINE v == t.visited \cup {rel.next}
             full == Cardinality(v) >= cap
             q == IF full THEN t.queue ELSE Append(t.queue, <<rel.next, depth>>)
  <2>1. Visit(t, rel, depth, cap) =
          [t EXCEPT !.steps = Append(@, rel.edge), !.visited = v, !.full = full, !.queue = q]
    BY <1>5 DEF Visit
  <2>2. v \in SUBSET Entities /\ full \in BOOLEAN /\ q \in Seq(Pairs)
    BY <1>1, <1>2
  <2> HIDE DEF v, full, q
  <2> QED BY <1>2, <2>1, <2>2 DEF Searches
<1> QED BY <1>3, <1>4, <1>5

\* Visiting all of a list is visiting one after the other.
Visits(h, t, rels, depth, cap) ==
  /\ h[0] = t
  /\ \A i \in 1..Len(rels) : h[i] = Visit(h[i - 1], rels[i], depth, cap)
  /\ VisitAll(t, rels, depth, cap) = h[Len(rels)]
LEMMA VisitsLead ==
  ASSUME NEW t \in Searches, NEW rels \in Seq(Relations), NEW depth \in Nat, NEW cap
  PROVE  \E h \in [0..Len(rels) -> Searches] : Visits(h, t, rels, depth, cap)
<1> DEFINE n == Len(rels)
           IsAfter(h) == h = [i \in 0..n |->
                                IF i = 0 THEN t ELSE Visit(h[i - 1], rels[i], depth, cap)]
           after == CHOOSE h : IsAfter(h)
           F == [p \in (1..n) \X Searches |-> Visit(p[2], rels[p[1]], depth, cap)]
<1>1. VisitAll(t, rels, depth, cap) = after[n]
  BY DEF VisitAll
<1>2. n \in Nat /\ \A i \in 1..n : rels[i] \in Relations
  BY LenProperties, ElementOfSeq
<1> HIDE DEF n
<1>3. \A i \in 1..n, s \in Searches : Visit(s, rels[i], depth, cap) \in Searches
  BY <1>2, VisitIsSearch
<1>4. F \in [(1..n) \X Searches -> Searches]
  BY <1>3
<1>5. PICK h \in [0..n -> Searches] : Leading(n, t, F, h)
  <2> HIDE DEF F
  <2> QED BY <1>2, <1>4, StepsLead
<1>6. ASSUME NEW i \in 1..n PROVE h[i] = Visit(h[i - 1], rels[i], depth, cap)
  <2>1. i - 1 \in 0..n
    BY <1>2
  <2>2. <<i, h[i - 1]>> \in (1..n) \X Searches
    BY <2>1
  <2>3. F[<<i, h[i - 1]>>] = Visit(h[i - 1], rels[i], depth, cap)
    BY <2>2
  <2> QED BY <1>5, <2>3 DEF Leading
<1>7. h[0] = t /\ \A i \in 0..n : i # 0 => i \in 1..n
  BY <1>2, <1>5 DEF Leading
<1>8. IsAfter(h)
  <2>1. \A i \in 0..n : h[i] = IF i = 0 THEN t ELSE Visit(h[i - 1], rels[i], depth, cap)
    BY <1>6, <1>7
  <2> QED BY <2>1
<1>9. IsAfter(after)
  <2> HIDE DEF IsAfter
  <2> QED BY <1>8
<1>10. after = h
  <2> HIDE DEF after, F
  <2> DEFINE S == {i \in 0..n : after[i] = h[i]}
  <2>1. 0 \in S
    BY <1>2, <1>7, <1>9
  <2>2. ASSUME NEW i \in 0..(n - 1), i \in S PROVE i + 1 \in S
    <3>1. i + 1 \in 1..n /\ i + 1 \in 0..n /\ i + 1 # 0 /\ (i + 1) - 1 = i
      BY <1>2, <2>2
    <3>2. after[i + 1] = Visit(after[i], rels[i + 1], depth, cap)
      BY <1>9, <3>1
    <3>3. h[i + 1] = Visit(h[i], rels[i + 1], depth, cap)
      BY <1>6, <3>1
    <3> QED BY <2>2, <3>1, <3>2, <3>3
  <2> HIDE DEF S
  <2>3. \A i \in 0..n : i \in S
    BY <1>2, <2>1, <2>2, CountingUp
  <2>4. \A i \in 0..n : after[i] = h[i]
    BY <2>3 DEF S
  <2> QED BY <1>9, <2>4
<1>11. h[n] = VisitAll(t, rels, depth, cap)
  BY <1>1, <1>10
<1> QED BY <1>6, <1>7, <1>11 DEF n, Visits

\* Following an id: all of its list is visited, unless the search is full.
LEMMA FollowingAll ==
  ASSUME ListsAreCounted, NEW o, NEW dir, NEW n \in Nat, NEW g \in Balls(o, dir, n),
         NEW cap \in Nat, NEW e \in Entities, NEW d \in 0..(n - 1), e \in g[d],
         NEW t, Following(t, g, n, dir, cap, e, d)
  PROVE  LET u == VisitAll(t, Listing(e, dir), d + 1, cap)
         IN  SearchOK(u, g, n, dir, cap, {}) /\ u.nodes = t.nodes
<1> DEFINE rels == Listing(e, dir)
           m == Len(rels)
           Visited(u, k) == /\ Following(u, g, n, dir, cap, e, d) /\ u.nodes = t.nodes
                            /\ ~ u.full => \A i \in 1..k : rels[i].next \in u.visited
<1>1. /\ rels \in Seq(Relations) /\ m \in Nat /\ \A i \in 1..m : rels[i] \in Relations
      /\ \A i \in 1..m : rels[i].next \in Nexts(e, dir)
      /\ \A f \in Nexts(e, dir) : \E i \in 1..m : rels[i].next = f
  <2>1. rels \in Seq(Relations)
    BY ListingIsNext
  <2>2. DOMAIN rels = 1..m /\ m \in Nat /\ \A i \in 1..m : rels[i] \in Relations
    BY <2>1, LenProperties, ElementOfSeq
  <2> QED BY <2>1, <2>2 DEF Nexts, ToSet
<1> HIDE DEF rels
<1>2. t \in Searches /\ d + 1 \in Nat
  BY DEF Following, SearchOK
<1>3. PICK h \in [0..m -> Searches] :
        /\ h[0] = t
        /\ \A i \in 1..m : h[i] = Visit(h[i - 1], rels[i], d + 1, cap)
        /\ VisitAll(t, rels, d + 1, cap) = h[m]
  <2>1. \E h \in [0..Len(rels) -> Searches] : Visits(h, t, rels, d + 1, cap)
    BY <1>1, <1>2, VisitsLead
  <2> QED BY <2>1 DEF Visits
<1> HIDE DEF m
<1> DEFINE S == {k \in 0..m : Visited(h[k], k)}
<1>4. 0 \in S
  BY <1>1, <1>3
<1>5. ASSUME NEW k \in 0..(m - 1), k \in S PROVE k + 1 \in S
  <2>1. k + 1 \in 1..m /\ k + 1 \in 0..m /\ (k + 1) - 1 = k /\ Visited(h[k], k)
    BY <1>1, <1>5
  <2> DEFINE s == h[k]
             u == h[k + 1]
  <2>2. u = Visit(s, rels[k + 1], d + 1, cap) /\ rels[k + 1] \in Relations
        /\ rels[k + 1].next \in Nexts(e, dir) /\ Following(s, g, n, dir, cap, e, d)
    BY <1>1, <1>3, <2>1
  <2> HIDE DEF s, u
  <2>3. /\ Following(u, g, n, dir, cap, e, d) /\ u.nodes = s.nodes /\ s.visited \subseteq u.visited
        /\ ~ u.full => ~ s.full /\ rels[k + 1].next \in u.visited
    BY <2>2, VisitKeepsSearch
  <2>4. \A i \in 1..(k + 1) : i = k + 1 \/ i \in 1..k
    BY <1>5
  <2>5. Visited(u, k + 1)
    BY <2>1, <2>3, <2>4 DEF s
  <2> QED BY <2>1, <2>5 DEF u
<1>6. Visited(h[m], m)
  <2> HIDE DEF S
  <2>1. \A k \in 0..m : k \in S
    BY <1>1, <1>4, <1>5, CountingUp
  <2>2. m \in S
    BY <1>1, <2>1
  <2> QED BY <2>2 DEF S
<1> DEFINE u == h[m]
<1> HIDE DEF u, S
<1>7. Visited(u, m) /\ u = VisitAll(t, Listing(e, dir), d + 1, cap)
  BY <1>3, <1>6 DEF u, rels
<1>8. ~ u.full => Nexts(e, dir) \subseteq u.visited
  BY <1>1, <1>7
<1>9. SearchOK(u, g, n, dir, cap, {})
  BY <1>7, <1>8 DEF Following, SearchOK
<1> QED BY <1>7, <1>9

Stuck(t, cap) == t.queue = <<>> \/ Cardinality(t.visited) >= cap

\* Taking an id off the queue keeps all of this, and lists one more.
LEMMA TakeKeepsSearch ==
  ASSUME ListsAreCounted, NEW o, NEW dir, NEW n \in Nat, NEW g \in Balls(o, dir, n),
         NEW cap \in Nat, NEW t, SearchOK(t, g, n, dir, cap, {})
  PROVE  LET u == Take(t, n, dir, cap)
         IN  /\ SearchOK(u, g, n, dir, cap, {})
             /\ Stuck(t, cap) => u = t
             /\ ~ Stuck(t, cap) => Len(u.nodes) = Len(t.nodes) + 1
<1> DEFINE u == Take(t, n, dir, cap)
<1>1. CASE Stuck(t, cap)
  BY <1>1 DEF Take, Stuck
<1>2. CASE ~ Stuck(t, cap)
  <2> DEFINE e == Head(t.queue)[1]
             d == Head(t.queue)[2]
             q == Tail(t.queue)
             ns == Append(t.nodes, <<e, d>>)
             taken == [t EXCEPT !.queue = q, !.nodes = ns]
  <2>1. t.queue # <<>> /\ ~ t.full
    BY <1>2 DEF Stuck, SearchOK
  <2>2. u = IF d >= n THEN taken ELSE VisitAll(taken, Listing(e, dir), d + 1, cap)
    BY <1>2 DEF Take, Stuck
  <2>3. t \in Searches /\ t.queue \in Seq(Pairs) /\ t.nodes \in Seq(Pairs)
    BY DEF SearchOK, Searches
  <2>4. /\ Head(t.queue) \in Pairs /\ Head(t.queue) = t.queue[1] /\ 1 \in DOMAIN t.queue
        /\ q \in Seq(Pairs) /\ Len(q) \in Nat /\ Len(t.queue) = Len(q) + 1
        /\ DOMAIN t.queue = 1..Len(t.queue) /\ DOMAIN q = 1..Len(q)
        /\ \A i \in 1..Len(q) : i + 1 \in 1..Len(t.queue) /\ q[i] = t.queue[i + 1]
        /\ Firsts(t.queue) = Firsts(q) \cup {Head(t.queue)[1]}
    BY <2>1, <2>3, QueueShrinks
  <2>5. /\ e \in Entities /\ d \in 0..n /\ <<e, d>> \in Pairs /\ <<e, d>> = t.queue[1]
        /\ IsAt(g, e, d) /\ e \in t.visited
    BY <2>4 DEF Pairs, SearchOK, Placed
  <2>6. /\ ns \in Seq(Pairs) /\ Len(ns) = Len(t.nodes) + 1 /\ Len(t.nodes) \in Nat
        /\ DOMAIN t.nodes = 1..Len(t.nodes) /\ DOMAIN ns = 1..(Len(t.nodes) + 1)
        /\ \A i \in 1..Len(t.nodes) : ns[i] = t.nodes[i]
        /\ ns[Len(t.nodes) + 1] = <<e, d>> /\ Firsts(ns) = Firsts(t.nodes) \cup {e}
    BY <2>3, <2>5, QueueGrows
  <2>7. /\ taken \in Searches /\ taken.queue = q /\ taken.nodes = ns
        /\ taken.visited = t.visited /\ taken.full = t.full
    <3> HIDE DEF q, ns, e, d
    <3> QED BY <2>3, <2>4, <2>6 DEF Searches
  <2> HIDE DEF u, taken, q, ns, e, d
  <2>8. \A i \in 1..Len(q) : d <= q[i][2] /\ q[i][2] <= d + 1 /\ q[i][2] \in Nat
    <3>1. SUFFICES ASSUME NEW i \in 1..Len(q) PROVE d <= q[i][2] /\ q[i][2] <= d + 1 /\ q[i][2] \in Nat
      OBVIOUS
    <3>2. i + 1 \in DOMAIN t.queue /\ q[i] = t.queue[i + 1] /\ 1 < i + 1 /\ t.queue[1][2] = d
      BY <2>4, <2>5
    <3>3. /\ t.queue[1][2] <= t.queue[i + 1][2]
          /\ t.queue[i + 1][2] <= t.queue[1][2] + 1
      BY <2>4, <3>2 DEF SearchOK, InOrder
    <3>4. t.queue[i + 1][2] \in Nat
      BY <3>2 DEF SearchOK, Placed
    <3> QED BY <3>2, <3>3, <3>4
  <2>9. g[d] \subseteq t.visited
    <3>1. ASSUME NEW i \in DOMAIN t.queue PROVE d <= t.queue[i][2]
      <4>1. t.queue[1][2] = d /\ d \in Nat
        BY <2>5
      <4>2. CASE i = 1
        BY <4>1, <4>2
      <4>3. CASE i # 1
        <5>1. 1 < i
          BY <2>4, <3>1, <4>3
        <5> QED BY <2>4, <4>1, <5>1 DEF SearchOK, InOrder
      <4> QED BY <4>2, <4>3
    <3> QED BY <2>1, <2>5, <3>1, NearIsVisited
  <2>10. SearchOK(taken, g, n, dir, cap, {e})
    <3>1. Placed(q, g, n, t.visited) /\ Apart(q) /\ InOrder(q)
      <4>1. Placed(t.queue, g, n, t.visited) /\ Apart(t.queue) /\ InOrder(t.queue)
        BY DEF SearchOK
      <4>2. Placed(q, g, n, t.visited)
        BY <2>4, <4>1 DEF Placed
      <4>3. Apart(q)
        <5>1. SUFFICES ASSUME NEW i \in 1..Len(q), NEW j \in 1..Len(q), q[i][1] = q[j][1]
                       PROVE  i = j
          BY <2>4 DEF Apart
        <5>2. /\ i + 1 \in DOMAIN t.queue /\ j + 1 \in DOMAIN t.queue
              /\ t.queue[i + 1][1] = t.queue[j + 1][1]
          BY <2>4, <5>1
        <5>3. i + 1 = j + 1
          BY <4>1, <5>2 DEF Apart
        <5> QED BY <5>3
      <4>4. InOrder(q)
        <5>1. SUFFICES ASSUME NEW i \in 1..Len(q), NEW j \in 1..Len(q), i < j
                       PROVE  q[i][2] <= q[j][2] /\ q[j][2] <= q[i][2] + 1
          BY <2>4 DEF InOrder
        <5>2. /\ i + 1 \in DOMAIN t.queue /\ j + 1 \in DOMAIN t.queue /\ i + 1 < j + 1
              /\ q[i] = t.queue[i + 1] /\ q[j] = t.queue[j + 1]
          BY <2>4, <5>1
        <5>3. /\ t.queue[i + 1][2] <= t.queue[j + 1][2]
              /\ t.queue[j + 1][2] <= t.queue[i + 1][2] + 1
          BY <4>1, <5>2 DEF InOrder
        <5> QED BY <5>2, <5>3
      <4> QED BY <4>2, <4>3, <4>4
    <3>2. \A i \in DOMAIN ns : i = Len(t.nodes) + 1 \/ i \in DOMAIN t.nodes
      BY <2>6
    <3>3. Placed(ns, g, n, t.visited)
      BY <2>5, <2>6, <3>2 DEF SearchOK, Placed
    <3>4. e \notin Firsts(t.nodes) /\ e \in Firsts(t.queue)
      BY <2>4 DEF SearchOK, e
    <3>5. Apart(ns)
      <4>1. SUFFICES ASSUME NEW i \in DOMAIN ns, NEW j \in DOMAIN ns, ns[i][1] = ns[j][1]
                     PROVE  i = j
        BY DEF Apart
      <4>2. \A k \in DOMAIN t.nodes : ns[k][1] # e
        BY <2>6, <3>4 DEF Firsts
      <4>3. Apart(t.nodes) /\ ns[Len(t.nodes) + 1][1] = e
        BY <2>6 DEF SearchOK
      <4> QED BY <2>6, <3>2, <4>1, <4>2, <4>3 DEF Apart
    <3>6. Firsts(ns) \cap Firsts(q) = {}
      <4>1. \A i \in DOMAIN q : q[i][1] # e
        <5>1. SUFFICES ASSUME NEW i \in DOMAIN q, q[i][1] = e PROVE FALSE
          OBVIOUS
        <5>2. i + 1 \in DOMAIN t.queue /\ t.queue[i + 1][1] = t.queue[1][1] /\ i + 1 # 1
          BY <2>4, <2>5, <5>1
        <5> QED BY <2>4, <5>2 DEF SearchOK, Apart
      <4>2. e \notin Firsts(q)
        BY <4>1 DEF Firsts
      <4> QED BY <2>4, <2>6, <4>2 DEF SearchOK
    <3>7. t.visited \subseteq Firsts(ns) \cup Firsts(q)
      BY <2>1, <2>4, <2>6 DEF SearchOK, e
    <3>8. \A i \in DOMAIN ns : ns[i][2] < n /\ ns[i][1] \notin {e} =>
            Nexts(ns[i][1], dir) \subseteq t.visited
      BY <2>1, <2>6, <3>2 DEF SearchOK
    <3> QED BY <2>1, <2>7, <3>1, <3>3, <3>5, <3>6, <3>7, <3>8 DEF SearchOK
  <2>11. Len(taken.nodes) = Len(t.nodes) + 1
    BY <2>6, <2>7
  <2>12. CASE d >= n
    <3>1. u = taken
      BY <2>2, <2>12
    <3>2. \A i \in DOMAIN taken.nodes : taken.nodes[i][2] < n => taken.nodes[i][1] # e
      <4>1. SUFFICES ASSUME NEW i \in DOMAIN ns, ns[i][2] < n, ns[i][1] = e PROVE FALSE
        BY <2>7
      <4>2. IsAt(g, e, ns[i][2]) /\ ns[i][2] \in 0..n
        BY <2>7, <2>10, <4>1 DEF SearchOK, Placed
      <4>3. ns[i][2] = d
        BY <2>5, <4>2, AtOneDistance
      <4> QED BY <2>5, <2>12, <4>1, <4>3
    <3>3. SearchOK(taken, g, n, dir, cap, {})
      BY <2>10, <3>2 DEF SearchOK
    <3> QED BY <1>2, <2>11, <3>1, <3>3 DEF u
  <2>13. CASE ~ (d >= n)
    <3>1. d \in 0..(n - 1) /\ e \in g[d]
      BY <2>5, <2>13 DEF IsAt
    <3>2. Following(taken, g, n, dir, cap, e, d)
      <4>1. \A i \in DOMAIN q : q[i][2] \in {d, d + 1}
        <5>1. \A x \in Nat : d <= x /\ x <= d + 1 => x \in {d, d + 1}
          BY <2>5
        <5> QED BY <2>4, <2>8, <5>1
      <4> QED BY <2>7, <2>9, <2>10, <4>1 DEF Following
    <3>3. SearchOK(u, g, n, dir, cap, {}) /\ u.nodes = taken.nodes
      BY <2>2, <2>5, <2>13, <3>1, <3>2, FollowingAll
    <3> QED BY <1>2, <2>11, <3>3 DEF u
  <2> QED BY <2>5, <2>12, <2>13
<1> QED BY <1>1, <1>2

\* Searching ends: each step lists one more id, and cap are visited by then.
LEMMA SearchEnds ==
  ASSUME ListsAreCounted, NEW o, NEW dir, NEW n \in Nat, NEW g \in Balls(o, dir, n),
         NEW cap \in Nat, NEW t, SearchOK(t, g, n, dir, cap, {}), t.nodes = <<>>
  PROVE  LET u == Searched(t, n, dir, cap)
         IN  SearchOK(u, g, n, dir, cap, {}) /\ Stuck(u, cap)
<1> DEFINE X == {s \in Searches : SearchOK(s, g, n, dir, cap, {})}
           IsAfter(h) == h = [i \in 0..cap |-> IF i = 0 THEN t ELSE Take(h[i - 1], n, dir, cap)]
           after == CHOOSE h : IsAfter(h)
           F == [p \in (1..cap) \X X |-> Take(p[2], n, dir, cap)]
<1>1. Searched(t, n, dir, cap) = after[cap]
  BY DEF Searched
<1>2. ASSUME NEW s \in X PROVE Take(s, n, dir, cap) \in X
  <2>1. SearchOK(Take(s, n, dir, cap), g, n, dir, cap, {})
    BY <1>2, TakeKeepsSearch
  <2> QED BY <2>1 DEF SearchOK
<1>3. t \in X
  BY DEF SearchOK
<1> HIDE DEF X
<1>4. F \in [(1..cap) \X X -> X]
  BY <1>2
<1>5. PICK h \in [0..cap -> X] : Leading(cap, t, F, h)
  <2> HIDE DEF F
  <2> QED BY <1>3, <1>4, StepsLead
<1>6. ASSUME NEW i \in 1..cap PROVE h[i] = Take(h[i - 1], n, dir, cap)
  <2>1. <<i, h[i - 1]>> \in (1..cap) \X X
    BY <1>6
  <2>2. F[<<i, h[i - 1]>>] = Take(h[i - 1], n, dir, cap)
    BY <2>1
  <2> QED BY <1>5, <2>2 DEF Leading
<1>7. h[0] = t /\ \A i \in 0..cap : i # 0 => i \in 1..cap
  BY <1>5 DEF Leading
<1>8. IsAfter(h)
  <2>1. \A i \in 0..cap : h[i] = IF i = 0 THEN t ELSE Take(h[i - 1], n, dir, cap)
    BY <1>6, <1>7
  <2> QED BY <2>1
<1>9. IsAfter(after)
  <2> HIDE DEF IsAfter
  <2> QED BY <1>8
<1> DEFINE a == after
<1>10. /\ a[0] = t /\ \A i \in 1..cap : a[i] = Take(a[i - 1], n, dir, cap)
  <2>1. ASSUME NEW i \in 1..cap PROVE a[i] = Take(a[i - 1], n, dir, cap)
    <3>1. i \in 0..cap /\ i # 0
      OBVIOUS
    <3> QED BY <1>9, <3>1
  <2>2. 0 \in 0..cap
    OBVIOUS
  <2> QED BY <1>9, <2>1, <2>2
<1> HIDE DEF a, after, IsAfter, F
<1> DEFINE S == {i \in 0..cap : a[i] \in X /\ (Stuck(a[i], cap) \/ Len(a[i].nodes) = i)}
<1>11. 0 \in S
  BY <1>3, <1>10
<1>12. ASSUME NEW i \in 0..(cap - 1), i \in S PROVE i + 1 \in S
  <2>1. i + 1 \in 1..cap /\ i + 1 \in 0..cap /\ (i + 1) - 1 = i
    BY <1>12
  <2> DEFINE s == a[i]
             u == a[i + 1]
  <2>2. u = Take(s, n, dir, cap) /\ s \in X /\ (Stuck(s, cap) \/ Len(s.nodes) = i)
    BY <1>10, <1>12, <2>1
  <2> HIDE DEF s, u
  <2>3. /\ u \in X /\ (Stuck(s, cap) => u = s)
        /\ ~ Stuck(s, cap) => Len(u.nodes) = Len(s.nodes) + 1
    <3>1. SearchOK(s, g, n, dir, cap, {})
      BY <2>2 DEF X
    <3> QED BY <1>2, <2>2, <3>1, TakeKeepsSearch
  <2>4. Stuck(u, cap) \/ Len(u.nodes) = i + 1
    BY <2>2, <2>3
  <2> QED BY <2>1, <2>3, <2>4 DEF u
<1>13. a[cap] \in X /\ (Stuck(a[cap], cap) \/ Len(a[cap].nodes) = cap)
  <2> HIDE DEF S
  <2>1. \A i \in 0..cap : i \in S
    BY <1>11, <1>12, CountingUp
  <2>2. cap \in S
    BY <2>1
  <2> QED BY <2>2 DEF S
<1> DEFINE u == a[cap]
<1> HIDE DEF u, S
<1>14. SearchOK(u, g, n, dir, cap, {}) /\ (Stuck(u, cap) \/ Len(u.nodes) = cap)
  BY <1>13 DEF X, u
<1>15. ASSUME Len(u.nodes) = cap PROVE Cardinality(u.visited) >= cap
  <2> DEFINE f == [i \in 1..cap |-> u.nodes[i][1]]
  <2>1. DOMAIN u.nodes = 1..cap
    <3>1. u.nodes \in Seq(Pairs)
      BY <1>14 DEF SearchOK, Searches
    <3> QED BY <1>15, <3>1, LenProperties
  <2>2. f \in Injection(1..cap, u.visited)
    BY <1>14, <2>1 DEF SearchOK, Placed, Apart, Injection, IsInjective
  <2>3. IsFiniteSet(u.visited)
    <3>1. u.visited \in SUBSET (Entities \cup Edges)
      BY <1>14 DEF SearchOK, Searches
    <3> QED BY <3>1, FS_Subset, RowsAssumption
  <2>4. Cardinality(1..cap) = cap /\ Cardinality(u.visited) \in Nat
    <3>1. Cardinality(1..cap) = IF 1 > cap THEN 0 ELSE cap - 1 + 1
      BY FS_Interval
    <3>2. Cardinality(u.visited) \in Nat
      BY <2>3, FS_CardinalityType
    <3> QED BY <3>1, <3>2
  <2> HIDE DEF f
  <2>5. Cardinality(1..cap) <= Cardinality(u.visited)
    BY <2>2, <2>3, FS_Injection
  <2> QED BY <2>4, <2>5
<1>16. Stuck(u, cap)
  BY <1>14, <1>15 DEF Stuck
<1>17. u = Searched(t, n, dir, cap)
  BY <1>1 DEF u, a
<1> QED BY <1>14, <1>16, <1>17

\* What traverse lists: each id once, at its distance, and all unless it is
\* truncated.
LEMMA TraverseLists ==
  ASSUME ListsAreCounted, NEW e \in Entities, NEW dir, NEW n \in Nat, NEW cap \in Nat \ {0},
         NEW g \in Balls(e, dir, n)
  PROVE  LET t == Traverse(e, n, dir, cap)
             reach == {p \in Entities \X (0..n) : IsAt(g, p[1], p[2])}
         IN  /\ IsInjective(t.nodes)
             /\ ToSet(t.nodes) \subseteq reach
             /\ ~ t.truncated => ToSet(t.nodes) = reach
<1> DEFINE s == [queue |-> <<<<e, 0>>>>, visited |-> {e}, nodes |-> <<>>,
                 steps |-> <<>>, full |-> FALSE]
           u == Searched(s, n, dir, cap)
           t == Traverse(e, n, dir, cap)
           reach == {p \in Entities \X (0..n) : IsAt(g, p[1], p[2])}
<1>1. t.nodes = u.nodes /\ (t.truncated <=> Cardinality(u.visited) >= cap)
  BY DEF Traverse
<1>2. SearchOK(s, g, n, dir, cap, {})
  <2>1. <<e, 0>> \in Pairs /\ <<<<e, 0>>>> \in Seq(Pairs)
    BY DEF Pairs
  <2>2. s \in Searches
    BY <2>1 DEF Searches
  <2>3. g[0] = {e} /\ IsAt(g, e, 0)
    BY DEF Balls, IsAt
  <2>4. /\ DOMAIN s.queue = {1} /\ s.queue[1] = <<e, 0>> /\ DOMAIN s.nodes = {}
        /\ s.visited = {e} /\ s.full = FALSE
    OBVIOUS
  <2> HIDE DEF s
  <2>5. Firsts(s.queue) = {e} /\ Firsts(s.nodes) = {}
    BY <2>4 DEF Firsts
  <2> QED BY <2>2, <2>3, <2>4, <2>5 DEF SearchOK, Placed, Apart, InOrder
<1>3. s.nodes = <<>>
  OBVIOUS
<1> HIDE DEF s
<1>4. SearchOK(u, g, n, dir, cap, {}) /\ Stuck(u, cap)
  BY <1>2, <1>3, SearchEnds
<1> HIDE DEF u, t
<1>5. u.nodes \in Seq(Pairs) /\ DOMAIN u.nodes = 1..Len(u.nodes)
      /\ \A i \in DOMAIN u.nodes : u.nodes[i] \in Pairs
  <2>1. u.nodes \in Seq(Pairs)
    BY <1>4 DEF SearchOK, Searches
  <2> QED BY <2>1, LenProperties, ElementOfSeq
<1>6. IsInjective(u.nodes)
  BY <1>4 DEF SearchOK, Apart, IsInjective
<1>7. ASSUME NEW i \in DOMAIN u.nodes PROVE u.nodes[i] \in reach
  <2>1. /\ u.nodes[i] \in Entities \X Nat
        /\ u.nodes[i][2] \in 0..n /\ IsAt(g, u.nodes[i][1], u.nodes[i][2])
    BY <1>4, <1>5 DEF SearchOK, Placed, Pairs
  <2> DEFINE p == u.nodes[i]
  <2> HIDE DEF p
  <2>2. p \in Entities \X Nat /\ p[2] \in 0..n /\ IsAt(g, p[1], p[2])
    BY <2>1 DEF p
  <2>3. p \in Entities \X (0..n)
    BY <2>2
  <2> QED BY <2>2, <2>3 DEF p
<1>8. ASSUME Cardinality(u.visited) < cap, NEW p \in reach PROVE p \in ToSet(u.nodes)
  <2>1. Cardinality(u.visited) \in Nat
    <3>1. u.visited \in SUBSET (Entities \cup Edges)
      BY <1>4 DEF SearchOK, Searches
    <3> QED BY <3>1, FS_Subset, FS_CardinalityType, RowsAssumption
  <2>2. u.queue = <<>> /\ ~ u.full
    BY <1>4, <1>8, <2>1 DEF Stuck, SearchOK
  <2>3. DOMAIN u.queue = {}
    BY <2>2
  <2>4. g[n] \subseteq u.visited
    <3>1. n \in 0..n
      OBVIOUS
    <3> QED BY <1>4, <2>2, <2>3, <3>1, NearIsVisited
  <2>5. p[1] \in Entities /\ p[2] \in 0..n /\ IsAt(g, p[1], p[2]) /\ p = <<p[1], p[2]>>
    OBVIOUS
  <2>6. p[1] \in g[n]
    BY <2>5, BallsGrow DEF IsAt
  <2>7. p[1] \in Firsts(u.nodes)
    BY <1>4, <2>2, <2>3, <2>4, <2>6 DEF SearchOK, Firsts
  <2>8. PICK i \in DOMAIN u.nodes : u.nodes[i][1] = p[1]
    BY <2>7 DEF Firsts
  <2>9. IsAt(g, p[1], u.nodes[i][2]) /\ u.nodes[i][2] \in 0..n /\ u.nodes[i] \in Entities \X Nat
    BY <1>4, <1>5, <2>8 DEF SearchOK, Placed, Pairs
  <2>10. u.nodes[i][2] = p[2]
    BY <2>5, <2>9, AtOneDistance
  <2>11. u.nodes[i] = <<u.nodes[i][1], u.nodes[i][2]>>
    BY <2>9
  <2>12. u.nodes[i] = p
    BY <2>5, <2>8, <2>10, <2>11
  <2> QED BY <2>12 DEF ToSet
<1>9. Cardinality(u.visited) \in Nat
  <2>1. u.visited \in SUBSET (Entities \cup Edges)
    BY <1>4 DEF SearchOK, Searches
  <2> QED BY <2>1, FS_Subset, FS_CardinalityType, RowsAssumption
<1>10. ToSet(u.nodes) \subseteq reach
  BY <1>7 DEF ToSet
<1>11. ~ t.truncated => reach \subseteq ToSet(u.nodes)
  <2>1. ~ t.truncated => Cardinality(u.visited) < cap
    BY <1>1, <1>9
  <2> HIDE DEF reach
  <2> QED BY <1>8, <2>1
<1> HIDE DEF reach
<1>12. IsInjective(t.nodes) /\ ToSet(t.nodes) \subseteq reach
       /\ (~ t.truncated => ToSet(t.nodes) = reach)
  BY <1>1, <1>6, <1>10, <1>11
<1> QED BY <1>12 DEF t, reach

\* Who is within some number of hops is at one distance.
LEMMA ReachIsBall ==
  ASSUME NEW e, NEW dir, NEW n \in Nat, NEW g \in Balls(e, dir, n)
  PROVE  {p[1] : p \in {q \in Entities \X (0..n) : IsAt(g, q[1], q[2])}} = g[n]
<1> DEFINE reach == {q \in Entities \X (0..n) : IsAt(g, q[1], q[2])}
           S == {d \in 0..n : \A f \in g[d] : \E c \in 0..d : IsAt(g, f, c)}
<1>1. 0 \in S
  BY DEF IsAt
<1>2. ASSUME NEW d \in 0..(n - 1), d \in S PROVE d + 1 \in S
  <2>1. d + 1 \in 0..n /\ (d + 1) - 1 = d /\ \A c \in 0..d : c \in 0..(d + 1)
    BY <1>2
  <2>2. ASSUME NEW f \in g[d + 1] PROVE \E c \in 0..(d + 1) : IsAt(g, f, c)
    <3>1. CASE f \in g[d]
      BY <1>2, <2>1, <3>1
    <3>2. CASE f \notin g[d]
      <4>1. IsAt(g, f, d + 1) /\ d + 1 \in 0..(d + 1)
        BY <1>2, <2>1, <2>2, <3>2 DEF IsAt
      <4> QED BY <4>1
    <3> QED BY <3>1, <3>2
  <2> QED BY <2>1, <2>2
<1> HIDE DEF S
<1>3. \A d \in 0..n : d \in S
  BY <1>1, <1>2, CountingUp
<1>4. n \in 0..n
  OBVIOUS
<1>5. ASSUME NEW f \in g[n] PROVE \E p \in reach : p[1] = f
  <2>1. PICK c \in 0..n : IsAt(g, f, c)
    BY <1>3, <1>4 DEF S
  <2>2. f \in Entities
    BY <1>4, BallsGrow
  <2>3. <<f, c>> \in reach
    BY <2>1, <2>2
  <2>4. <<f, c>>[1] = f
    OBVIOUS
  <2> HIDE DEF reach
  <2> QED BY <2>3, <2>4
<1>6. ASSUME NEW p \in reach PROVE p[1] \in g[n]
  <2>1. p[2] \in 0..n /\ p[1] \in g[p[2]]
    BY DEF IsAt
  <2> QED BY <1>4, <2>1, BallsGrow
<1> HIDE DEF reach
<1>7. {p[1] : p \in reach} = g[n]
  BY <1>5, <1>6
<1> QED BY <1>7 DEF reach

\* Where the cache is in step with the database, those beside an id in the
\* lists are those get_entity finds.
Beyond(S) == {Ends[x].to : x \in {y \in Present(links) : Ends[y].from \in S}}
               \cup {Ends[x].from : x \in {y \in Present(links) : Ends[y].to \in S}}
LEMMA NextsAreBeyond ==
  ASSUME ListsAreCounted, InStep, DOMAIN links = Edges, NEW S \in SUBSET Entities
  PROVE  UNION {Nexts(f, "both") : f \in S} = Beyond(S)
<1>1. ASSUME NEW x \in Edges
      PROVE  (out[x] > 0 <=> links[x] > 0) /\ (inn[x] > 0 <=> links[x] > 0)
  <2>1. {out[x], inn[x]} = {IF links[x] > 0 THEN 1 ELSE 0}
    BY DEF InStep
  <2>2. out[x] = (IF links[x] > 0 THEN 1 ELSE 0) /\ inn[x] = (IF links[x] > 0 THEN 1 ELSE 0)
    BY <2>1
  <2> QED BY <2>2
<1>2. ASSUME NEW f \in S, NEW h
      PROVE  h \in Nexts(f, "both") <=>
               \E x \in Present(links) : Ends[x] = [from |-> f, to |-> h] \/ Ends[x] = [from |-> h, to |-> f]
  <2>1. h \in Nexts(f, "both") <=> IsNext(f, "both", h)
    BY ListingIsNext
  <2>2. \A x : x \in Present(links) <=> x \in Edges /\ links[x] > 0
    BY DEF Present
  <2> QED BY <1>1, <2>1, <2>2 DEF IsNext
<1>3. \A x \in Edges : /\ Ends[x] \in [from : Entities, to : Entities]
                       /\ Ends[x] = [from |-> Ends[x].from, to |-> Ends[x].to]
  BY EndsAssumption
<1>4. \A x \in Present(links) : x \in Edges
  BY DEF Present
<1>5. ASSUME NEW h, NEW f \in S, h \in Nexts(f, "both") PROVE h \in Beyond(S)
  <2>1. PICK x \in Present(links) :
          Ends[x] = [from |-> f, to |-> h] \/ Ends[x] = [from |-> h, to |-> f]
    BY <1>2, <1>5
  <2>2. (Ends[x].from \in S /\ Ends[x].to = h) \/ (Ends[x].to \in S /\ Ends[x].from = h)
    BY <2>1
  <2> QED BY <2>2 DEF Beyond
<1>6. ASSUME NEW h \in Beyond(S) PROVE \E f \in S : h \in Nexts(f, "both")
  <2>1. PICK x \in Present(links) :
          (Ends[x].from \in S /\ Ends[x].to = h) \/ (Ends[x].to \in S /\ Ends[x].from = h)
    BY DEF Beyond
  <2>2. Ends[x] = [from |-> Ends[x].from, to |-> Ends[x].to]
    BY <1>3, <1>4
  <2> QED BY <1>2, <2>1, <2>2
<1> QED BY <1>5, <1>6

\* Neighbors, at one hop and at two.
LEMMA NeighborsAreBeyond ==
  ASSUME NEW e
  PROVE  /\ Neighbors(e, 1) \cup {e} = {e} \cup Beyond({e})
         /\ Neighbors(e, 2) \cup {e} = {e} \cup Beyond({e}) \cup Beyond(Beyond({e}))
BY DEF Neighbors, Beyond

\* traverse, walk and get_entity say what the lists say.
LEMMA ListsAreFollowed ==
  ASSUME ListsAreCounted, DOMAIN links = Edges, NEW e \in Entities, NEW n \in Nat \ {0},
         NEW cap \in Nat \ {0}, NEW dir
  PROVE  ListsWhatIsWithinReach(e, n, dir, cap)
<1>1. PICK g \in Balls(e, dir, n) :
        WithinReach(e, n, dir) = {p \in Entities \X (0..n) : IsAt(g, p[1], p[2])}
  BY ReachIsInBalls
<1> DEFINE t == Traverse(e, n, dir, cap)
           reach == WithinReach(e, n, dir)
<1>2. /\ IsInjective(t.nodes) /\ ToSet(t.nodes) \subseteq reach
      /\ ~ t.truncated => ToSet(t.nodes) = reach
  BY <1>1, TraverseLists
<1>3. {p[1] : p \in reach} = g[n]
  BY <1>1, ReachIsBall
<1>4. /\ g[0] = {e} /\ \A d \in 0..n : g[d] \subseteq Entities
      /\ \A d \in 1..n : g[d] = g[d - 1] \cup UNION {Nexts(f, dir) : f \in g[d - 1]}
  BY DEF Balls
<1>5. g[1] = {e} \cup Nexts(e, dir)
  <2>1. 1 \in 1..n /\ 1 - 1 = 0
    OBVIOUS
  <2>2. g[1] = g[0] \cup UNION {Nexts(f, dir) : f \in g[0]}
    BY <1>4, <2>1
  <2> QED BY <1>4, <2>2
<1>6. Hops({e}, dir) = {f \in (g[1] \ {e}) : ents[f] # 0}
  <2>1. Hops({e}, dir) = {f \in Entities \ {e} : ents[f] # 0 /\ f \in Nexts(e, dir)}
    BY DEF Hops, Nexts
  <2>2. g[1] \subseteq Entities
    BY <1>4
  <2> QED BY <1>5, <2>1, <2>2
<1>7. ASSUME dir = "both", n <= 2, InStep PROVE g[n] = Neighbors(e, n) \cup {e}
  <2>1. g[1] = {e} \cup Beyond({e})
    <3>1. UNION {Nexts(f, "both") : f \in {e}} = Beyond({e})
      BY <1>7, NextsAreBeyond
    <3> QED BY <1>5, <1>7, <3>1
  <2>2. n \in {1, 2}
    BY <1>7
  <2>3. CASE n = 1
    <3>1. Neighbors(e, n) \cup {e} = {e} \cup Beyond({e})
      BY <2>2, <2>3, NeighborsAreBeyond
    <3>2. g[n] = g[1]
      BY <2>3
    <3> QED BY <2>1, <3>1, <3>2
  <2>4. CASE n = 2
    <3>1. 2 \in 1..n /\ 2 - 1 = 1 /\ 1 \in 0..n
      BY <2>4
    <3>2. g[2] = g[1] \cup UNION {Nexts(f, dir) : f \in g[1]} /\ g[1] \subseteq Entities
      BY <1>4, <3>1
    <3>3. UNION {Nexts(f, dir) : f \in g[1]} = Beyond(g[1])
      BY <1>7, <3>2, NextsAreBeyond
    <3>4. Beyond(g[1]) = Beyond({e}) \cup Beyond(Beyond({e}))
      BY <2>1 DEF Beyond
    <3>5. g[2] = {e} \cup Beyond({e}) \cup Beyond(Beyond({e}))
      BY <2>1, <3>2, <3>3, <3>4
    <3>6. Neighbors(e, n) \cup {e} = {e} \cup Beyond({e}) \cup Beyond(Beyond({e}))
      BY <2>2, <2>4, NeighborsAreBeyond
    <3>7. g[n] = g[2]
      BY <2>4
    <3> QED BY <3>5, <3>6, <3>7
  <2> QED BY <2>2, <2>3, <2>4
<1> HIDE DEF t, reach
<1>8. /\ IsInjective(t.nodes) /\ ToSet(t.nodes) \subseteq reach
      /\ ~ t.truncated => ToSet(t.nodes) = reach
      /\ n = 1 => Hops({e}, dir) = {f \in {p[1] : p \in reach} \ {e} : ents[f] # 0}
      /\ dir = "both" /\ n <= 2 /\ InStep =>
           {p[1] : p \in reach} = Neighbors(e, n) \cup {e}
  BY <1>2, <1>3, <1>6, <1>7
<1> QED BY <1>8 DEF t, reach, ListsWhatIsWithinReach

\* The property.
LEMMA ExactWhereCounted == CacheTypeOK /\ ListsAreCounted => TraversalIsExact
<1> SUFFICES ASSUME CacheTypeOK, ListsAreCounted,
                    NEW e \in Entities, NEW depth \in 1..MaxDepth, NEW cap \in Caps, NEW dir
             PROVE  ListsWhatIsWithinReach(e, depth, dir, cap)
  BY DEF TraversalIsExact
<1>1. cap \in Nat \ {0} /\ depth \in Nat \ {0} /\ DOMAIN links = Edges
  BY LimitsAssumption DEF CacheTypeOK
<1> QED BY <1>1, ListsAreFollowed

\* For any graph, depth and cap: between refreshes a traversal lists each id
\* within reach once, at its distance, whatever the order and the repetitions of
\* the cached lists; what it leaves out it says is truncated; and where cache and
\* database agree it lists what get_entity finds.
THEOREM TraversalsStayExact == CacheSpec => []TraversalIsExact
<1>1. CacheSpec => []CacheInv
  BY InitCacheInv, CacheStep, PTL DEF CacheSpec
<1>2. CacheInv => TraversalIsExact
  <2>1. CacheInv => CacheTypeOK /\ ListsAreCounted
    BY DEF CacheInv, CacheTypes, ListsAreCounted
  <2> QED BY <2>1, ExactWhereCounted
<1> QED BY <1>1, <1>2, PTL

-----------------------------------------------------------------------------
(* Ordering: a finite set has an order that puts none before one that        *)
(* belongs before it.                                                      *)

IsOrder(S, R) ==
  /\ \A x \in S : <<x, x>> \notin R
  /\ \A x, y, z \in S : <<x, y>> \in R /\ <<y, z>> \in R => <<x, z>> \in R
Ordered(seq, R) == \A i, j \in DOMAIN seq : i < j => <<seq[j], seq[i]>> \notin R

\* Some element belongs before no other: the one most others belong before.
LEMMA SomeIsLast ==
  ASSUME NEW S, IsFiniteSet(S), S # {}, NEW R, IsOrder(S, R)
  PROVE  \E x \in S : \A y \in S : <<x, y>> \notin R
<1> DEFINE B(x) == {y \in S : <<y, x>> \in R}
           n == Cardinality(S)
           C == {Cardinality(B(x)) : x \in S}
<1>1. n \in Nat /\ \A x \in S : IsFiniteSet(B(x)) /\ Cardinality(B(x)) \in 0..n
  <2>1. n \in Nat
    BY FS_CardinalityType
  <2>2. ASSUME NEW x \in S PROVE IsFiniteSet(B(x)) /\ Cardinality(B(x)) \in 0..n
    <3>1. B(x) \in SUBSET S
      OBVIOUS
    <3> HIDE DEF B
    <3>2. IsFiniteSet(B(x)) /\ Cardinality(B(x)) <= n
      BY <3>1, FS_Subset
    <3>3. Cardinality(B(x)) \in Nat
      BY <3>2, FS_CardinalityType
    <3> QED BY <2>1, <3>2, <3>3
  <2> QED BY <2>1, <2>2
<1>2. C \in SUBSET (0..n) /\ C # {}
  <2> HIDE DEF B, n
  <2> QED BY <1>1
<1>3. PICK x \in S : \A y \in S : Cardinality(B(y)) <= Cardinality(B(x))
  <2>1. Max(C) \in C /\ \A k \in C : k <= Max(C)
    <3> HIDE DEF C, n
    <3> QED BY <1>1, <1>2, MaxIsLargest
  <2> HIDE DEF B
  <2> QED BY <2>1
<1>4. SUFFICES ASSUME NEW y \in S, <<x, y>> \in R PROVE FALSE
  OBVIOUS
<1>5. B(x) \cup {x} \subseteq B(y) /\ x \notin B(x)
  BY <1>4 DEF IsOrder
<1> HIDE DEF B
<1>6. Cardinality(B(x) \cup {x}) = Cardinality(B(x)) + 1
  BY <1>1, <1>5, FS_AddElement
<1>7. Cardinality(B(x) \cup {x}) <= Cardinality(B(y))
  BY <1>1, <1>5, FS_Subset
<1> QED BY <1>1, <1>3, <1>6, <1>7

\* So a finite set can be put in order: last elements are taken off one by one.
LEMMA OrderExists ==
  ASSUME NEW S, IsFiniteSet(S), NEW R, IsOrder(S, R)
  PROVE  \E seq \in [1..Cardinality(S) -> S] : IsInjective(seq) /\ Ordered(seq, R)
<1> DEFINE n == Cardinality(S)
           Has(T, k) == \E seq \in [1..k -> T] : IsInjective(seq) /\ Ordered(seq, R)
           Q == {k \in 0..n : \A T \in SUBSET S : Cardinality(T) = k => Has(T, k)}
<1>1. n \in Nat
  BY FS_CardinalityType
<1>2. \A T \in SUBSET S : IsFiniteSet(T)
  BY FS_Subset
<1>3. 0 \in Q
  <2>1. \A T : [i \in 1..0 |-> i] \in [1..0 -> T]
    OBVIOUS
  <2>2. IsInjective([i \in 1..0 |-> i]) /\ Ordered([i \in 1..0 |-> i], R)
    BY DEF IsInjective, Ordered
  <2>3. ASSUME NEW T PROVE Has(T, 0)
    <3> DEFINE none == [i \in 1..0 |-> i]
    <3>1. none \in [1..0 -> T] /\ IsInjective(none) /\ Ordered(none, R)
      BY <2>1, <2>2
    <3> HIDE DEF none
    <3> QED BY <3>1
  <2> HIDE DEF Has
  <2> QED BY <1>1, <2>3
<1>4. ASSUME NEW k \in 0..(n - 1), k \in Q PROVE k + 1 \in Q
  <2>1. SUFFICES ASSUME NEW T \in SUBSET S, Cardinality(T) = k + 1 PROVE Has(T, k + 1)
    <3>1. k + 1 \in 0..n
      BY <1>1
    <3> HIDE DEF Has, n
    <3> QED BY <3>1
  <2>2. T # {}
    <3>1. k \in Nat
      BY <1>1
    <3>2. Cardinality({}) = 0
      BY FS_EmptySet
    <3> HIDE DEF Q, Has
    <3> QED BY <2>1, <3>1, <3>2
  <2>3. PICK x \in T : \A y \in T : <<x, y>> \notin R
    <3>1. IsOrder(T, R)
      BY DEF IsOrder
    <3> QED BY <1>2, <2>2, <3>1, SomeIsLast
  <2> DEFINE U == T \ {x}
  <2>4. Cardinality(U) = k /\ U \in SUBSET S
    <3>1. Cardinality(T \ {x}) = Cardinality(T) - 1
      BY <1>2, FS_RemoveElement
    <3> QED BY <1>4, <2>1, <3>1
  <2>5. PICK seq \in [1..k -> U] : IsInjective(seq) /\ Ordered(seq, R)
    BY <1>4, <2>4
  <2> DEFINE s == [i \in 1..(k + 1) |-> IF i = k + 1 THEN x ELSE seq[i]]
  <2>6. \A i \in 1..(k + 1) : i = k + 1 \/ (i \in 1..k /\ i # k + 1)
    BY <1>4
  <2>7. s[k + 1] = x /\ (\A i \in 1..k : s[i] = seq[i]) /\ s \in [1..(k + 1) -> T]
    BY <1>4, <2>6
  <2>8. DOMAIN s = 1..(k + 1)
    OBVIOUS
  <2> HIDE DEF s
  <2>9. IsInjective(s)
    <3>1. SUFFICES ASSUME NEW i \in 1..(k + 1), NEW j \in 1..(k + 1), s[i] = s[j] PROVE i = j
      BY <2>8 DEF IsInjective
    <3>2. \A m \in 1..k : s[m] \in U
      BY <2>7
    <3> QED BY <2>5, <2>6, <2>7, <3>1, <3>2 DEF IsInjective
  <2>10. Ordered(s, R)
    <3>1. SUFFICES ASSUME NEW i \in 1..(k + 1), NEW j \in 1..(k + 1), i < j
                   PROVE  <<s[j], s[i]>> \notin R
      BY <2>8 DEF Ordered
    <3>2. CASE j = k + 1
      BY <2>3, <2>7, <3>2
    <3>3. CASE j # k + 1
      <4>1. i \in 1..k /\ j \in 1..k
        BY <1>4, <3>1, <3>3
      <4> QED BY <2>5, <2>7, <3>1, <4>1 DEF Ordered
    <3> QED BY <3>2, <3>3
  <2> QED BY <2>7, <2>9, <2>10
<1>5. n \in Q
  <2> HIDE DEF Q, n
  <2>1. \A k \in 0..n : k \in Q
    BY <1>1, <1>3, <1>4, CountingUp
  <2> QED BY <1>1, <2>1
<1> QED BY <1>5

\* The first n of the elements, one after the other.
Selects(list, S, n) ==
  /\ list \in Seq(S) /\ IsInjective(list) /\ Len(list) = Least(n, Cardinality(S))
  /\ Cardinality(S) <= n => ToSet(list) = S
LEMMA FirstOfAll ==
  ASSUME NEW S, IsFiniteSet(S), NEW n \in Nat,
         NEW seq \in [1..Cardinality(S) -> S], IsInjective(seq)
  PROVE  Selects(First(n, seq), S, n)
<1> DEFINE k == Cardinality(S)
           m == Least(n, k)
           f == First(n, seq)
<1>1. k \in Nat
  BY FS_CardinalityType
<1> HIDE DEF k
<1>2. m \in 0..k /\ (k <= n => m = k)
  BY <1>1 DEF Least
<1>3. seq \in Seq(S) /\ Len(seq) = k
  BY <1>1, SeqDef DEF k
<1>4. f = SubSeq(seq, 1, m)
  BY <1>3 DEF First
<1> HIDE DEF f, m
<1>5. /\ f \in Seq(S) /\ Len(f) = m /\ DOMAIN f = 1..m /\ \A i \in 1..m : f[i] = seq[i]
  <2>1. \A i \in 1..m : seq[i] \in S
    BY <1>1, <1>2 DEF k
  <2>2. /\ SubSeq(seq, 1, m) \in Seq(S)
        /\ Len(SubSeq(seq, 1, m)) = (IF 1 <= m THEN m - 1 + 1 ELSE 0)
        /\ \A i \in 1..(m - 1 + 1) : SubSeq(seq, 1, m)[i] = seq[1 + i - 1]
    BY <1>1, <1>2, <2>1, SubSeqProperties
  <2>3. f \in Seq(S) /\ Len(f) = m
    BY <1>1, <1>2, <1>4, <2>2
  <2>4. \A i \in 1..m : f[i] = seq[i]
    BY <1>1, <1>2, <1>4, <2>2
  <2> QED BY <2>3, <2>4, LenProperties
<1>6. IsInjective(f)
  BY <1>1, <1>2, <1>5 DEF IsInjective, k
<1>7. ASSUME k <= n PROVE ToSet(f) = S
  <2>1. m = k
    BY <1>2, <1>7
  <2>2. seq \in Surjection(1..k, S)
    <3>1. seq \in Injection(1..k, S)
      BY DEF Injection, k
    <3>2. Cardinality(1..k) = k
      <4>1. Cardinality(1..k) = IF 1 > k THEN 0 ELSE k - 1 + 1
        BY <1>1, FS_Interval
      <4> QED BY <1>1, <4>1
    <3> QED BY <3>1, <3>2, FS_Injection DEF k
  <2> QED BY <1>5, <2>1, <2>2 DEF ToSet, Surjection
<1> QED BY <1>5, <1>6, <1>7 DEF Selects, f, m, k

\* The orders asked for are orders, so that a list can be put in them and cut off:
\* by importance,
LEMMA ImportanceSorts ==
  ASSUME NEW S, IsFiniteSet(S), \A r \in S : r.weight \in Int /\ r.at \in Int, NEW n \in Nat
  PROVE  Selects(First(n, Sorted(S, MoreImportant)), S, n)
<1> DEFINE R == {p \in S \X S : MoreImportant(p[1], p[2])}
           P(seq) == /\ IsInjective(seq)
                     /\ \A i, j \in DOMAIN seq : i < j => ~ MoreImportant(seq[j], seq[i])
           X == [1..Cardinality(S) -> S]
<1>1. \A x, y \in S : <<x, y>> \in R <=> MoreImportant(x, y)
  OBVIOUS
<1> HIDE DEF R
<1>2. IsOrder(S, R)
  <2>1. ASSUME NEW x \in S PROVE ~ MoreImportant(x, x)
    BY DEF MoreImportant
  <2>2. ASSUME NEW x \in S, NEW y \in S, NEW z \in S, MoreImportant(x, y), MoreImportant(y, z)
        PROVE  MoreImportant(x, z)
    BY <2>2 DEF MoreImportant
  <2> QED BY <1>1, <2>1, <2>2 DEF IsOrder
<1>3. PICK seq \in X : IsInjective(seq) /\ Ordered(seq, R)
  BY <1>2, OrderExists
<1>4. P(seq)
  BY <1>1, <1>3 DEF Ordered
<1>5. Sorted(S, MoreImportant) = CHOOSE s \in X : P(s)
  BY DEF Sorted
<1>6. Sorted(S, MoreImportant) \in X /\ P(Sorted(S, MoreImportant))
  <2> HIDE DEF P, X
  <2> QED BY <1>4, <1>5
<1> QED BY <1>6, FirstOfAll

\* by score, importance and title,
LEMMA BetterSorts ==
  ASSUME NEW S, IsFiniteSet(S), \A r \in S : r.score \in Int /\ r.weight \in Int /\ r.title \in Int, NEW n \in Nat
  PROVE  Selects(First(n, Sorted(S, Better)), S, n)
<1> DEFINE R == {p \in S \X S : Better(p[1], p[2])}
           P(seq) == /\ IsInjective(seq)
                     /\ \A i, j \in DOMAIN seq : i < j => ~ Better(seq[j], seq[i])
           X == [1..Cardinality(S) -> S]
<1>1. \A x, y \in S : <<x, y>> \in R <=> Better(x, y)
  OBVIOUS
<1> HIDE DEF R
<1>2. IsOrder(S, R)
  <2>1. ASSUME NEW x \in S PROVE ~ Better(x, x)
    BY DEF Better
  <2>2. ASSUME NEW x \in S, NEW y \in S, NEW z \in S, Better(x, y), Better(y, z)
        PROVE  Better(x, z)
    BY <2>2 DEF Better
  <2> QED BY <1>1, <2>1, <2>2 DEF IsOrder
<1>3. PICK seq \in X : IsInjective(seq) /\ Ordered(seq, R)
  BY <1>2, OrderExists
<1>4. P(seq)
  BY <1>1, <1>3 DEF Ordered
<1>5. Sorted(S, Better) = CHOOSE s \in X : P(s)
  BY DEF Sorted
<1>6. Sorted(S, Better) \in X /\ P(Sorted(S, Better))
  <2> HIDE DEF P, X
  <2> QED BY <1>4, <1>5
<1> QED BY <1>6, FirstOfAll

\* by score, degree and title,
LEMMA TitleSorts ==
  ASSUME NEW S, IsFiniteSet(S), \A r \in S : r.score \in Int /\ r.degree \in Int /\ r.title \in Int, NEW n \in Nat
  PROVE  Selects(First(n, Sorted(S, TitleBefore)), S, n)
<1> DEFINE R == {p \in S \X S : TitleBefore(p[1], p[2])}
           P(seq) == /\ IsInjective(seq)
                     /\ \A i, j \in DOMAIN seq : i < j => ~ TitleBefore(seq[j], seq[i])
           X == [1..Cardinality(S) -> S]
<1>1. \A x, y \in S : <<x, y>> \in R <=> TitleBefore(x, y)
  OBVIOUS
<1> HIDE DEF R
<1>2. IsOrder(S, R)
  <2>1. ASSUME NEW x \in S PROVE ~ TitleBefore(x, x)
    BY DEF TitleBefore
  <2>2. ASSUME NEW x \in S, NEW y \in S, NEW z \in S, TitleBefore(x, y), TitleBefore(y, z)
        PROVE  TitleBefore(x, z)
    BY <2>2 DEF TitleBefore
  <2> QED BY <1>1, <2>1, <2>2 DEF IsOrder
<1>3. PICK seq \in X : IsInjective(seq) /\ Ordered(seq, R)
  BY <1>2, OrderExists
<1>4. P(seq)
  BY <1>1, <1>3 DEF Ordered
<1>5. Sorted(S, TitleBefore) = CHOOSE s \in X : P(s)
  BY DEF Sorted
<1>6. Sorted(S, TitleBefore) \in X /\ P(Sorted(S, TitleBefore))
  <2> HIDE DEF P, X
  <2> QED BY <1>4, <1>5
<1> QED BY <1>6, FirstOfAll

\* and by score, number of methods and title.
LEMMA FusedSorts ==
  ASSUME NEW S, IsFiniteSet(S), \A r \in S : r.score \in Int /\ r.methods \in Int /\ r.title \in Int, NEW n \in Nat
  PROVE  Selects(First(n, Sorted(S, FusedBefore)), S, n)
<1> DEFINE R == {p \in S \X S : FusedBefore(p[1], p[2])}
           P(seq) == /\ IsInjective(seq)
                     /\ \A i, j \in DOMAIN seq : i < j => ~ FusedBefore(seq[j], seq[i])
           X == [1..Cardinality(S) -> S]
<1>1. \A x, y \in S : <<x, y>> \in R <=> FusedBefore(x, y)
  OBVIOUS
<1> HIDE DEF R
<1>2. IsOrder(S, R)
  <2>1. ASSUME NEW x \in S PROVE ~ FusedBefore(x, x)
    BY DEF FusedBefore
  <2>2. ASSUME NEW x \in S, NEW y \in S, NEW z \in S, FusedBefore(x, y), FusedBefore(y, z)
        PROVE  FusedBefore(x, z)
    BY <2>2 DEF FusedBefore
  <2> QED BY <1>1, <2>1, <2>2 DEF IsOrder
<1>3. PICK seq \in X : IsInjective(seq) /\ Ordered(seq, R)
  BY <1>2, OrderExists
<1>4. P(seq)
  BY <1>1, <1>3 DEF Ordered
<1>5. Sorted(S, FusedBefore) = CHOOSE s \in X : P(s)
  BY DEF Sorted
<1>6. Sorted(S, FusedBefore) \in X /\ P(Sorted(S, FusedBefore))
  <2> HIDE DEF P, X
  <2> QED BY <1>4, <1>5
<1> QED BY <1>6, FirstOfAll

-----------------------------------------------------------------------------
(* Lists: what each of them takes from what there is.                      *)

Distinct(S) == \A r, s \in S : r.id = s.id => r = s
IdsOf(S) == {r.id : r \in S}

\* list takes the first n of base, each of them once.
Takes(list, base, n) ==
  /\ IsFiniteSet(base) /\ Ids(list) \subseteq base
  /\ Len(list) = Least(n, Cardinality(base)) /\ Cardinality(Ids(list)) = Len(list)

\* Such rows are as many as their ids.
LEMMA IdsCount ==
  ASSUME NEW S, IsFiniteSet(S), Distinct(S)
  PROVE  IsFiniteSet(IdsOf(S)) /\ Cardinality(IdsOf(S)) = Cardinality(S)
<1> DEFINE g == [r \in S |-> r.id]
<1>1. g \in Surjection(S, IdsOf(S))
  BY DEF Surjection, IdsOf
<1>2. g \in Injection(S, IdsOf(S))
  BY DEF Injection, IsInjective, IdsOf, Distinct
<1> HIDE DEF g
<1> QED BY <1>1, <1>2, FS_Surjection

\* A list of rows that stand for entities of their own.
LEMMA SelectedTakes ==
  ASSUME NEW S, IsFiniteSet(S), Distinct(S), NEW n \in Nat, NEW list, Selects(list, S, n)
  PROVE  /\ Takes(list, IdsOf(S), n)
         /\ \A i, j \in DOMAIN list : list[i].id = list[j].id => i = j
<1>1. /\ list \in Seq(S) /\ DOMAIN list = 1..Len(list) /\ Len(list) \in Nat
      /\ \A i \in 1..Len(list) : list[i] \in S
  <2>1. list \in Seq(S)
    BY DEF Selects
  <2> QED BY <2>1, LenProperties, ElementOfSeq
<1>2. \A i, j \in DOMAIN list : list[i].id = list[j].id => i = j
  BY <1>1 DEF Selects, Distinct, IsInjective
<1>3. Ids(list) \subseteq IdsOf(S)
  BY <1>1 DEF Ids, IdsOf
<1>4. Cardinality(Ids(list)) = Len(list)
  <2> DEFINE g == [i \in 1..Len(list) |-> list[i].id]
  <2>1. g \in Surjection(1..Len(list), Ids(list))
    BY <1>1 DEF Surjection, Ids
  <2>2. g \in Injection(1..Len(list), Ids(list))
    BY <1>1, <1>2 DEF Injection, IsInjective, Ids
  <2>3. IsFiniteSet(1..Len(list)) /\ Cardinality(1..Len(list)) = Len(list)
    <3>0. 1 \in Int /\ Len(list) \in Int
      BY <1>1
    <3>1. /\ IsFiniteSet(1..Len(list))
          /\ Cardinality(1..Len(list)) = IF 1 > Len(list) THEN 0 ELSE Len(list) - 1 + 1
      BY <3>0, FS_Interval
    <3> QED BY <1>1, <3>1
  <2> HIDE DEF g
  <2> QED BY <2>1, <2>2, <2>3, FS_Surjection
<1> QED BY <1>2, <1>3, <1>4, IdsCount DEF Takes, Selects

\* If no more than n are there, it takes all.
LEMMA TakesAll ==
  ASSUME NEW list, NEW base, NEW n \in Nat, Takes(list, base, n)
  PROVE  /\ Cardinality(base) \in Nat /\ Len(list) \in Nat /\ Len(list) <= n
         /\ Cardinality(base) <= n => Ids(list) = base
         /\ Cardinality(base) > n => Len(list) = n
<1>1. Cardinality(base) \in Nat
  BY FS_CardinalityType DEF Takes
<1>2. Len(list) = Least(n, Cardinality(base)) /\ Len(list) \in Nat
  BY <1>1 DEF Takes, Least
<1>3. ASSUME Cardinality(base) <= n PROVE Ids(list) = base
  <2>1. Cardinality(Ids(list)) = Cardinality(base)
    BY <1>1, <1>2, <1>3 DEF Least, Takes
  <2>2. Ids(list) \in SUBSET base /\ IsFiniteSet(base)
    BY DEF Takes
  <2> QED BY <2>1, <2>2, FS_Subset
<1> QED BY <1>1, <1>2, <1>3 DEF Least

\* Rows as they are read, and what a list holds of each.
SomeRows(rows) ==
  /\ IsFiniteSet(rows) /\ Distinct(rows)
  /\ \A r \in rows : /\ r.id \in Entities /\ r.at \in Int /\ r.weight \in Int
                     /\ r.match \in Int /\ r.near \in Int /\ r.title \in Int
Hits == [id : Entities, at : Int, weight : Int, title : Int, score : Int]
IsListing(list) ==
  /\ list \in Seq(Hits)
  /\ \A i, j \in DOMAIN list : list[i].id = list[j].id => i = j

\* A part of the rows is rows.
LEMMA FewerRows ==
  ASSUME NEW rows, SomeRows(rows), NEW few \in SUBSET rows
  PROVE  SomeRows(few)
BY FS_Subset DEF SomeRows, Distinct

\* The window is of the rows there are.
LEMMA WindowRows ==
  ASSUME NEW rows, SomeRows(rows)
  PROVE  Window(rows) \subseteq rows /\ SomeRows(Window(rows))
<1>1. Selects(First(MaxCandidates, Sorted(rows, MoreImportant)), rows, MaxCandidates)
  BY ImportanceSorts, MaxCandidatesAssumption DEF SomeRows
<1>2. Window(rows) \subseteq rows
  <2> DEFINE f == First(MaxCandidates, Sorted(rows, MoreImportant))
  <2>1. f \in Seq(rows)
    BY <1>1 DEF Selects
  <2> HIDE DEF f
  <2>2. \A i \in DOMAIN f : f[i] \in rows
    BY <2>1
  <2>3. ToSet(f) \subseteq rows
    BY <2>2 DEF ToSet
  <2> QED BY <2>3 DEF Window, f
<1> QED BY <1>2, FewerRows

\* What a method lists of scored rows.
Scored(rows, score) ==
  {[id |-> r.id, at |-> r.at, weight |-> r.weight, title |-> r.title, score |-> score[r]] : r \in rows}
LEMMA ListedTakes ==
  ASSUME NEW rows, SomeRows(rows), NEW score \in [rows -> Int], NEW n \in Nat
  PROVE  LET list == First(n, Sorted(Scored(rows, score), Better))
         IN  IsListing(list) /\ Takes(list, IdsOf(rows), n)
<1> DEFINE S == Scored(rows, score)
           hit == [r \in rows |-> [id |-> r.id, at |-> r.at, weight |-> r.weight,
                                   title |-> r.title, score |-> score[r]]]
           list == First(n, Sorted(S, Better))
<1>1. S = {hit[r] : r \in rows}
  BY DEF Scored
<1>2. IsFiniteSet(S)
  <2> HIDE DEF S, hit
  <2> QED BY <1>1, ImageIsFinite DEF SomeRows
<1>3. \A r \in rows : hit[r] \in Hits /\ hit[r].id = r.id
  BY DEF Hits, SomeRows
<1> HIDE DEF S, hit
<1>4. S \subseteq Hits /\ Distinct(S) /\ IdsOf(S) = IdsOf(rows)
  <2>1. S \subseteq Hits
    BY <1>1, <1>3
  <2>2. Distinct(S)
    BY <1>1, <1>3 DEF SomeRows, Distinct
  <2>3. IdsOf(S) = IdsOf(rows)
    BY <1>1, <1>3 DEF IdsOf
  <2> QED BY <2>1, <2>2, <2>3
<1>5. Selects(list, S, n)
  <2>1. \A r \in S : r.score \in Int /\ r.weight \in Int /\ r.title \in Int
    BY <1>4 DEF Hits
  <2> QED BY <1>2, <2>1, BetterSorts
<1> HIDE DEF list
<1>6. Takes(list, IdsOf(S), n) /\ \A i, j \in DOMAIN list : list[i].id = list[j].id => i = j
  BY <1>2, <1>4, <1>5, SelectedTakes
<1>7. list \in Seq(Hits)
  <2>1. list \in Seq(S)
    BY <1>5 DEF Selects
  <2> QED BY <1>4, <2>1, SeqMonotonic
<1> QED BY <1>4, <1>6, <1>7 DEF IsListing, list, S

\* Connections are counted.
LEMMA DegreeIsCounted ==
  ASSUME NEW e, NEW xs, IsFiniteSet(xs)
  PROVE  Degree(e, xs) \in Nat
<1>1. IsFiniteSet({x \in xs : x.from = e}) /\ IsFiniteSet({x \in xs : x.to = e})
  BY FS_Subset
<1>2. Cardinality({x \in xs : x.from = e}) \in Nat /\ Cardinality({x \in xs : x.to = e}) \in Nat
  BY <1>1, FS_CardinalityType
<1> QED BY <1>2 DEF Degree

Matches(window) == {r \in window : r.match > 0}
\* Lexical search takes of the rows that match.
LEMMA LexicalTakes ==
  ASSUME NEW window, SomeRows(window), NEW xs, IsFiniteSet(xs), NEW n \in Nat
  PROVE  IsListing(Lexical(window, xs, n)) /\ Takes(Lexical(window, xs, n), IdsOf(Matches(window)), n)
<1> DEFINE rows == Matches(window)
           score == [r \in rows |-> r.match + 5000 * Least(Degree(r.id, xs), 10)]
<1>1. SomeRows(rows)
  BY FewerRows DEF Matches
<1>2. score \in [rows -> Int]
  <2>1. ASSUME NEW r \in rows PROVE r.match + 5000 * Least(Degree(r.id, xs), 10) \in Int
    <3>1. r.match \in Int /\ Degree(r.id, xs) \in Nat
      BY <1>1, DegreeIsCounted DEF SomeRows
    <3>2. Least(Degree(r.id, xs), 10) \in Nat
      BY <3>1 DEF Least
    <3> QED BY <3>1, <3>2
  <2> QED BY <2>1
<1>3. Lexical(window, xs, n) = First(n, Sorted(Scored(rows, score), Better))
  <2>1. Scored(rows, score) =
          {[id |-> r.id, at |-> r.at, weight |-> r.weight, title |-> r.title,
            score |-> r.match + 5000 * Least(Degree(r.id, xs), 10)] : r \in rows}
    BY DEF Scored
  <2> HIDE DEF score
  <2> QED BY <2>1 DEF Lexical, Listed, Matches
<1> HIDE DEF rows, score
<1>4. IsListing(Lexical(window, xs, n)) /\ Takes(Lexical(window, xs, n), IdsOf(rows), n)
  BY <1>1, <1>2, <1>3, ListedTakes
<1> QED BY <1>4 DEF rows

Near(rows) == {r \in Window({s \in rows : s.near >= 0}) : r.near > 0}
\* Semantic search takes of the rows whose vectors are near.
LEMMA SemanticTakes ==
  ASSUME NEW rows, SomeRows(rows), NEW n \in Nat
  PROVE  IsListing(Semantic(rows, n)) /\ Takes(Semantic(rows, n), IdsOf(Near(rows)), n)
<1> DEFINE near == Near(rows)
           score == [r \in near |-> r.near]
<1>1. SomeRows(near)
  <2>1. SomeRows({s \in rows : s.near >= 0})
    BY FewerRows
  <2>2. SomeRows(Window({s \in rows : s.near >= 0}))
    BY <2>1, WindowRows
  <2> QED BY <2>2, FewerRows DEF Near
<1>2. score \in [near -> Int]
  BY <1>1 DEF SomeRows
<1>3. Semantic(rows, n) = First(n, Sorted(Scored(near, score), Better))
  <2>1. Scored(near, score) =
          {[id |-> r.id, at |-> r.at, weight |-> r.weight, title |-> r.title,
            score |-> r.near] : r \in near}
    BY DEF Scored
  <2> HIDE DEF score
  <2> QED BY <2>1 DEF Semantic, Listed, Near
<1> HIDE DEF near, score
<1>4. IsListing(Semantic(rows, n)) /\ Takes(Semantic(rows, n), IdsOf(near), n)
  BY <1>1, <1>2, <1>3, ListedTakes
<1> QED BY <1>4 DEF near

\* The search box takes of the rows that match.
LEMMA TitlesTake ==
  ASSUME NEW window, SomeRows(window), NEW xs, IsFiniteSet(xs), NEW n \in Nat
  PROVE  Takes(TitleSearch(window, xs, n), IdsOf(Matches(window)), n)
<1> DEFINE rows == Matches(window)
           hit == [r \in rows |-> [id |-> r.id, at |-> r.at, title |-> r.title,
                                   score |-> r.match, degree |-> Degree(r.id, xs)]]
           S == {hit[r] : r \in rows}
           list == First(n, Sorted(S, TitleBefore))
<1>1. SomeRows(rows)
  BY FewerRows DEF Matches
<1>2. TitleSearch(window, xs, n) = list
  <2>1. S = {[id |-> r.id, at |-> r.at, title |-> r.title, score |-> r.match,
              degree |-> Degree(r.id, xs)] : r \in rows}
    OBVIOUS
  <2> HIDE DEF S
  <2> QED BY <2>1 DEF TitleSearch, Matches
<1>3. IsFiniteSet(S)
  <2> HIDE DEF hit
  <2> QED BY <1>1, ImageIsFinite DEF SomeRows
<1>4. \A r \in rows : /\ hit[r].id = r.id /\ hit[r].title \in Int /\ hit[r].score \in Int
                      /\ hit[r].degree \in Int
  BY <1>1, DegreeIsCounted DEF SomeRows
<1> HIDE DEF hit
<1>5. Distinct(S) /\ IdsOf(S) = IdsOf(rows)
  <2>1. Distinct(S)
    BY <1>1, <1>4 DEF SomeRows, Distinct
  <2>2. IdsOf(S) = IdsOf(rows)
    BY <1>4 DEF IdsOf
  <2> QED BY <2>1, <2>2
<1>6. \A r \in S : r.score \in Int /\ r.degree \in Int /\ r.title \in Int
  BY <1>4
<1> HIDE DEF S
<1>7. Selects(list, S, n)
  BY <1>3, <1>6, TitleSorts
<1> HIDE DEF list
<1>8. Takes(list, IdsOf(S), n)
  BY <1>3, <1>5, <1>7, SelectedTakes
<1> QED BY <1>2, <1>5, <1>8 DEF rows

\* The best of some scores is one of them.
LEMMA BestIsOne ==
  ASSUME NEW S \in SUBSET Int, IsFiniteSet(S), S # {}
  PROVE  Max(S) \in S
<1> DEFINE R == {p \in S \X S : p[1] < p[2]}
<1>1. \A x, y \in S : <<x, y>> \in R <=> x < y
  OBVIOUS
<1>2. IsOrder(S, R)
  BY <1>1 DEF IsOrder
<1> HIDE DEF R
<1>3. PICK x \in S : \A y \in S : <<x, y>> \notin R
  BY <1>2, SomeIsLast
<1>4. ASSUME NEW y \in S PROVE x >= y
  <2>1. ~ (x < y) /\ x \in Int /\ y \in Int
    BY <1>1, <1>3
  <2> QED BY <2>1
<1> QED BY <1>4 DEF Max

\* A row has finitely many scores in graph search, and they are numbers.
LEMMA GraphScoresAreScores ==
  ASSUME NEW e, NEW seeds, IsListing(seeds), NEW xs
  PROVE  IsFiniteSet(GraphScores(e, seeds, xs)) /\ GraphScores(e, seeds, xs) \in SUBSET Int
<1> DEFINE T == ToSet(seeds)
           own == {t \in T : t.id = e}
           beside == {t \in T : Beside(t.id, e, xs)}
           f == [s \in T |-> (72 * s.score) \div 100]
           h == [s \in T |-> (86 * s.score) \div 100]
<1>1. seeds \in Seq(Hits) /\ DOMAIN seeds = 1..Len(seeds) /\ Len(seeds) \in Nat
  BY LenProperties DEF IsListing
<1>2. T \subseteq Hits /\ IsFiniteSet(T)
  <2>1. T = {seeds[i] : i \in 1..Len(seeds)}
    BY <1>1 DEF ToSet
  <2>2. IsFiniteSet(1..Len(seeds))
    BY <1>1, FS_Interval
  <2>3. \A i \in 1..Len(seeds) : seeds[i] \in Hits
    BY <1>1, ElementOfSeq
  <2> HIDE DEF T
  <2>4. IsFiniteSet({seeds[i] : i \in 1..Len(seeds)})
    BY <2>2, ImageIsFinite
  <2> QED BY <2>1, <2>3, <2>4
<1> HIDE DEF T
<1>3. \A s \in T : s.score \in Int
  BY <1>2 DEF Hits
<1>4. \A s \in T : f[s] \in Int /\ h[s] \in Int
  BY <1>3
<1>5. IsFiniteSet(own) /\ IsFiniteSet(beside) /\ own \subseteq T /\ beside \subseteq T
  BY <1>2, FS_Subset
<1>6. GraphScores(e, seeds, xs) = {f[s] : s \in own} \cup {h[s] : s \in beside}
  <2>1. /\ {f[s] : s \in own} = {(72 * s.score) \div 100 : s \in own}
        /\ {h[s] : s \in beside} = {(86 * s.score) \div 100 : s \in beside}
    BY <1>5
  <2> HIDE DEF f, h
  <2> QED BY <2>1 DEF GraphScores, T
<1> HIDE DEF f, h, own, beside
<1>7. IsFiniteSet({f[s] : s \in own}) /\ IsFiniteSet({h[s] : s \in beside})
  BY <1>5, ImageIsFinite
<1> QED BY <1>4, <1>5, <1>6, <1>7, FS_Union

Met(window, seeds, xs) == {r \in window : GraphScores(r.id, seeds, xs) # {}}
\* Graph search takes of the rows that have a score.
LEMMA GraphTakes ==
  ASSUME NEW window, SomeRows(window), NEW seeds, IsListing(seeds), NEW xs, NEW n \in Nat
  PROVE  /\ IsListing(Graph(seeds, xs, window, n))
         /\ Takes(Graph(seeds, xs, window, n), IdsOf(Met(window, seeds, xs)), n)
<1> DEFINE rows == Met(window, seeds, xs)
           score == [r \in rows |-> Max(GraphScores(r.id, seeds, xs))]
<1>1. SomeRows(rows)
  BY FewerRows DEF Met
<1>2. score \in [rows -> Int]
  <2>1. ASSUME NEW r \in rows PROVE Max(GraphScores(r.id, seeds, xs)) \in Int
    <3> DEFINE scores == GraphScores(r.id, seeds, xs)
    <3>1. scores # {} /\ IsFiniteSet(scores) /\ scores \in SUBSET Int
      BY GraphScoresAreScores DEF Met
    <3> HIDE DEF scores
    <3>2. Max(scores) \in scores
      BY <3>1, BestIsOne
    <3> QED BY <3>1, <3>2 DEF scores
  <2> QED BY <2>1
<1>3. Graph(seeds, xs, window, n) = First(n, Sorted(Scored(rows, score), Better))
  <2>1. Scored(rows, score) =
          {[id |-> r.id, at |-> r.at, weight |-> r.weight, title |-> r.title,
            score |-> Max(GraphScores(r.id, seeds, xs))] : r \in rows}
    BY DEF Scored
  <2> HIDE DEF score
  <2> QED BY <2>1 DEF Graph, Listed, Met
<1> HIDE DEF rows, score
<1>4. /\ IsListing(Graph(seeds, xs, window, n))
      /\ Takes(Graph(seeds, xs, window, n), IdsOf(rows), n)
  BY <1>1, <1>2, <1>3, ListedTakes
<1> QED BY <1>4 DEF rows

\* Fusion takes of what any of its lists has.
IsLists(lists) == DOMAIN lists \subseteq Methods /\ \A m \in DOMAIN lists : IsListing(lists[m])
LEMMA RankIsPlace ==
  ASSUME NEW e, NEW list, IsListing(list), e \in Ids(list)
  PROVE  /\ RankOf(e, list) \in DOMAIN list /\ RankOf(e, list) \in Nat
         /\ list[RankOf(e, list)] \in Hits /\ list[RankOf(e, list)].id = e
<1>1. \E i \in DOMAIN list : list[i].id = e
  BY DEF Ids
<1>2. RankOf(e, list) \in DOMAIN list /\ list[RankOf(e, list)].id = e
  BY <1>1 DEF RankOf
<1>3. DOMAIN list = 1..Len(list) /\ Len(list) \in Nat /\ \A i \in 1..Len(list) : list[i] \in Hits
  BY LenProperties, ElementOfSeq DEF IsListing
<1> QED BY <1>2, <1>3

\* A fused row is a row with numbers to sort by.
LEMMA HitIsTyped ==
  ASSUME NEW lists, IsLists(lists), NEW e \in InAny(lists)
  PROVE  LET hit == Hit(e, lists)
         IN  hit.id = e /\ hit.score \in Int /\ hit.methods \in Int /\ hit.title \in Int
<1> DEFINE having == Having(e, lists)
<1>1. having # {} /\ having \subseteq Methods /\ having \subseteq DOMAIN lists
      /\ \A m \in having : e \in Ids(lists[m])
  BY DEF Having, InAny, IsLists
<1>2. FirstHaving(e, lists) \in having
  <2>1. \E m \in having : \/ m = "lexical"
                          \/ m = "semantic" /\ "lexical" \notin having
                          \/ having = {m}
    BY <1>1 DEF Methods
  <2> QED BY <2>1 DEF FirstHaving
<1>3. ASSUME NEW m PROVE Share(e, m, lists) \in Int
  <2>1. CASE m \in having
    <3>1. IsListing(lists[m]) /\ e \in Ids(lists[m])
      BY <1>1, <2>1 DEF IsLists
    <3>2. RankOf(e, lists[m]) \in Nat
      BY <3>1, RankIsPlace
    <3>3. \A k \in Nat : 1000000000 \div (60 + k) \in Int
      OBVIOUS
    <3> QED BY <2>1, <3>2, <3>3 DEF Share
  <2> QED BY <2>1 DEF Share
<1>4. FusedScore(e, lists) \in Int
  <2>1. \A i, j, k \in Int : (i + j + k + 500) \div 1000 \in Int
    OBVIOUS
  <2> QED BY <1>3, <2>1 DEF FusedScore
<1>5. Cardinality(having) \in Int
  <2>1. IsFiniteSet(Methods)
    <3>1. Methods = ({} \cup {"lexical"} \cup {"semantic"}) \cup {"graph"}
      BY DEF Methods
    <3> QED BY <3>1, FS_EmptySet, FS_AddElement
  <2> QED BY <1>1, <2>1, FS_Subset, FS_CardinalityType
<1>6. LET list == lists[FirstHaving(e, lists)] IN list[RankOf(e, list)].title \in Int
  <2>1. IsListing(lists[FirstHaving(e, lists)]) /\ e \in Ids(lists[FirstHaving(e, lists)])
    BY <1>1, <1>2 DEF IsLists
  <2> QED BY <2>1, RankIsPlace DEF Hits
<1> QED BY <1>4, <1>5, <1>6 DEF Hit

\* A list names finitely many entities.
LEMMA IdsOfListing ==
  ASSUME NEW list, IsListing(list)
  PROVE  IsFiniteSet(Ids(list)) /\ Ids(list) \subseteq Entities
<1>1. /\ DOMAIN list = 1..Len(list) /\ Len(list) \in Nat
      /\ \A i \in 1..Len(list) : list[i] \in Hits
  BY LenProperties, ElementOfSeq DEF IsListing
<1>2. Ids(list) \subseteq Entities
  BY <1>1 DEF Ids, Hits
<1>3. Ids(list) \in SUBSET (Entities \cup Edges)
  BY <1>2
<1> QED BY <1>2, <1>3, FS_Subset, RowsAssumption

\* Fusion takes of what any list has.
LEMMA FuseTakes ==
  ASSUME NEW lists, IsLists(lists), NEW n \in Nat
  PROVE  Takes(Fuse(lists, n), InAny(lists), n) /\ InAny(lists) \subseteq Entities
<1> DEFINE found == InAny(lists)
           hit == [e \in found |-> Hit(e, lists)]
           S == {hit[e] : e \in found}
           list == First(n, Sorted(S, FusedBefore))
<1>1. found \subseteq Entities /\ IsFiniteSet(found)
  <2>1. found \subseteq Entities
    BY IdsOfListing DEF InAny, IsLists
  <2>2. found \in SUBSET (Entities \cup Edges)
    BY <2>1
  <2> QED BY <2>1, <2>2, FS_Subset, RowsAssumption
<1>2. Fuse(lists, n) = list
  BY DEF Fuse
<1>3. IsFiniteSet(S)
  <2> HIDE DEF hit, found
  <2> QED BY <1>1, ImageIsFinite
<1>4. \A e \in found : /\ hit[e].id = e /\ hit[e].title \in Int /\ hit[e].score \in Int
                       /\ hit[e].methods \in Int
  BY HitIsTyped
<1> HIDE DEF hit, found
<1>5. Distinct(S) /\ IdsOf(S) = found
  BY <1>4 DEF Distinct, IdsOf
<1>6. \A r \in S : r.score \in Int /\ r.methods \in Int /\ r.title \in Int
  BY <1>4
<1> HIDE DEF S
<1>7. Selects(list, S, n)
  BY <1>3, <1>6, FusedSorts
<1> HIDE DEF list
<1>8. Takes(list, IdsOf(S), n)
  BY <1>3, <1>5, <1>7, SelectedTakes
<1> QED BY <1>1, <1>2, <1>5, <1>8 DEF found

-----------------------------------------------------------------------------
(* Answers: what there is to find in a database d with the edges l.         *)

RowsOf(d, c) ==
  {r \in {[id |-> e, at |-> d[e], weight |-> Row(e, d[e]).weight,
           cluster |-> Row(e, d[e]).cluster, match |-> Row(e, d[e]).match,
           near |-> Row(e, d[e]).near, title |-> Row(e, d[e]).title] : e \in Present(d)} :
     c \in {NoCluster, r.cluster}}
AmongOf(l, ids) == {[edge |-> x, from |-> Ends[x].from, to |-> Ends[x].to] :
                      x \in {y \in Present(l) : {Ends[y].from, Ends[y].to} \cap ids # {}}}
MatchOf(d, c) == IdsOf(Matches(Window(RowsOf(d, c))))
NearOf(d, c) == IdsOf(Near(RowsOf(d, c)))
LinkedOf(d, l, c) ==
  MatchOf(d, c) \cup IdsOf({s \in Window(RowsOf(d, c)) :
    \E m \in MatchOf(d, c), x \in AmongOf(l, MatchOf(d, c)) : {x.from, x.to} = {m, s.id}})
FoundOf(d, l, m, c) ==
  CASE m \in {"titles", "lexical"} -> MatchOf(d, c)
    [] m = "semantic" -> NearOf(d, c)
    [] m = "graph"    -> LinkedOf(d, l, c)
    [] OTHER          -> LinkedOf(d, l, c) \cup NearOf(d, c)
WideOf(m) == Least(MostRows, IF m = "ppr" THEN Max({TopK, RankSeeds}) ELSE Max({4 * TopK, Seeds}))

\* These are what the model says of the database there is.
LEMMA AsThereIs ==
  /\ \A c : Eligible(c) = RowsOf(db, c)
  /\ \A ids : Among(ids) = AmongOf(links, ids)
  /\ Wide = WideOf(ask.mode)
  /\ Matching = MatchOf(db, ask.cluster)
  /\ Found = FoundOf(db, links, ask.mode, ask.cluster)
<1>1. ASSUME NEW c PROVE Eligible(c) = RowsOf(db, c)
  BY DEF Eligible, Entry, RowsOf
<1>2. ASSUME NEW ids PROVE Among(ids) = AmongOf(links, ids)
  BY DEF Among, AmongOf
<1>3. Wide = WideOf(ask.mode)
  BY DEF Wide, WideOf
<1>4. Matching = MatchOf(db, ask.cluster)
  BY <1>1 DEF Matching, MatchOf, Matches, IdsOf
<1>5. Nearby = NearOf(db, ask.cluster)
  BY <1>1 DEF Nearby, NearOf, Near, IdsOf
<1>6. Connected = LinkedOf(db, links, ask.cluster)
  BY <1>1, <1>2, <1>4 DEF Connected, LinkedOf, IdsOf
<1>7. Found = FoundOf(db, links, ask.mode, ask.cluster)
  BY <1>4, <1>5, <1>6 DEF Found, FoundOf
<1> QED BY <1>1, <1>2, <1>3, <1>4, <1>7

Databases == [Entities -> Gone..MaxStamp]
LinkSets == [Edges -> Gone..MaxStamp]
\* What a database holds is rows.
LEMMA RowsAreRows ==
  ASSUME NEW d \in Databases, NEW c
  PROVE  SomeRows(RowsOf(d, c))
<1> DEFINE E == Present(d)
           entry == [e \in E |-> [id |-> e, at |-> d[e], weight |-> Row(e, d[e]).weight,
                                  cluster |-> Row(e, d[e]).cluster, match |-> Row(e, d[e]).match,
                                  near |-> Row(e, d[e]).near, title |-> Row(e, d[e]).title]]
           S == {entry[e] : e \in E}
<1>1. E \subseteq Entities /\ \A e \in E : d[e] \in 1..MaxStamp
  BY LimitsAssumption DEF Present, Databases, Gone
<1>2. IsFiniteSet(E)
  <2>1. E \in SUBSET (Entities \cup Edges)
    BY <1>1
  <2> QED BY <2>1, FS_Subset, RowsAssumption
<1>3. ASSUME NEW e \in E
      PROVE  /\ Row(e, d[e]).weight \in Int /\ Row(e, d[e]).near \in Int
             /\ Row(e, d[e]).title \in Int /\ Row(e, d[e]).match \in Int /\ d[e] \in Int
  BY <1>1, RowAssumption
<1>4. \A e \in E : /\ entry[e].id = e /\ e \in Entities /\ entry[e].at \in Int
                   /\ entry[e].weight \in Int /\ entry[e].match \in Int
                   /\ entry[e].near \in Int /\ entry[e].title \in Int
  BY <1>1, <1>3
<1>5. RowsOf(d, c) \subseteq S
  BY DEF RowsOf
<1> HIDE DEF entry, E
<1>6. SomeRows(S)
  <2>1. IsFiniteSet(S)
    BY <1>2, ImageIsFinite
  <2>2. Distinct(S)
    BY <1>4 DEF Distinct
  <2> QED BY <1>4, <2>1, <2>2 DEF SomeRows
<1> HIDE DEF S
<1> QED BY <1>5, <1>6, FewerRows

\* The edges at some rows are finitely many.
LEMMA AmongIsFinite ==
  ASSUME NEW l \in LinkSets, NEW ids
  PROVE  IsFiniteSet(AmongOf(l, ids))
<1> DEFINE S == {y \in Present(l) : {Ends[y].from, Ends[y].to} \cap ids # {}}
           f == [x \in Edges |-> [edge |-> x, from |-> Ends[x].from, to |-> Ends[x].to]]
<1>1. S \in SUBSET (Entities \cup Edges) /\ S \subseteq Edges
  BY DEF Present, LinkSets
<1>2. IsFiniteSet(S)
  BY <1>1, FS_Subset, RowsAssumption
<1>3. AmongOf(l, ids) = {f[x] : x \in S}
  BY <1>1 DEF AmongOf
<1> HIDE DEF S, f
<1> QED BY <1>2, <1>3, ImageIsFinite

\* All of it is of the entities there are.
LEMMA FoundIsFinite ==
  ASSUME NEW d \in Databases, NEW l, NEW m, NEW c
  PROVE  /\ SomeRows(Window(RowsOf(d, c))) /\ MatchOf(d, c) \subseteq IdsOf(Window(RowsOf(d, c)))
         /\ IsFiniteSet(MatchOf(d, c)) /\ IsFiniteSet(NearOf(d, c))
         /\ IsFiniteSet(LinkedOf(d, l, c)) /\ IsFiniteSet(FoundOf(d, l, m, c))
<1> DEFINE R == RowsOf(d, c)
           W == Window(RowsOf(d, c))
<1>1. SomeRows(R) /\ SomeRows(W) /\ W \subseteq R
  BY RowsAreRows, WindowRows
<1>2. IdsOf(W) \subseteq Entities
  BY <1>1 DEF SomeRows, IdsOf
<1> HIDE DEF R
<1>3. MatchOf(d, c) \subseteq IdsOf(W)
  BY DEF MatchOf, IdsOf, Matches
<1>4. NearOf(d, c) \subseteq Entities
  <2>1. SomeRows({s \in R : s.near >= 0})
    BY <1>1, FewerRows
  <2>2. SomeRows(Window({s \in R : s.near >= 0}))
    BY <2>1, WindowRows
  <2> QED BY <2>2 DEF NearOf, Near, IdsOf, SomeRows, R
<1>5. LinkedOf(d, l, c) \subseteq Entities
  BY <1>2, <1>3 DEF LinkedOf, IdsOf
<1>6. FoundOf(d, l, m, c) \subseteq Entities
  BY <1>2, <1>3, <1>4, <1>5 DEF FoundOf
<1>7. ASSUME NEW S \in SUBSET Entities PROVE IsFiniteSet(S)
  <2>1. S \in SUBSET (Entities \cup Edges)
    OBVIOUS
  <2> QED BY <2>1, FS_Subset, RowsAssumption
<1> QED BY <1>1, <1>2, <1>3, <1>4, <1>5, <1>6, <1>7

\* How wide the lists are.
LEMMA ListsAreWide ==
  ASSUME NEW m
  PROVE  /\ WideOf(m) \in Nat /\ TopK \in Nat \ {0} /\ Seeds \in Nat \ {0}
         /\ TopK <= WideOf(m) /\ (m # "ppr" => Seeds <= WideOf(m))
<1>1. /\ TopK \in Nat \ {0} /\ Seeds \in Nat \ {0} /\ RankSeeds \in Nat \ {0}
      /\ MostRows \in Nat \ {0} /\ TopK <= MostRows /\ Seeds <= MostRows
  BY LimitsAssumption
<1>2. ASSUME NEW i \in Nat, NEW j \in Nat
      PROVE  Max({i, j}) \in Nat /\ i <= Max({i, j}) /\ j <= Max({i, j})
  <2>1. \E k \in {i, j} : \A n \in {i, j} : k >= n
    BY <1>2
  <2> QED BY <2>1 DEF Max
<1>3. /\ Max({TopK, RankSeeds}) \in Nat /\ TopK <= Max({TopK, RankSeeds})
      /\ Max({4 * TopK, Seeds}) \in Nat /\ 4 * TopK <= Max({4 * TopK, Seeds})
      /\ Seeds <= Max({4 * TopK, Seeds})
  <2>1. 4 * TopK \in Nat
    BY <1>1
  <2> QED BY <1>1, <1>2, <2>1
<1> QED BY <1>1, <1>3 DEF WideOf, Least

\* What graph search lists, from the matches it starts from.
GraphLists(list, d, l, c, n) ==
  /\ Ids(list) \subseteq LinkedOf(d, l, c)
  /\ Cardinality(MatchOf(d, c)) <= Seeds => Takes(list, LinkedOf(d, l, c), n)
  /\ Cardinality(MatchOf(d, c)) > Seeds => Seeds <= Cardinality(Ids(list))

\* Graph search lists the seeds and what is beside them, as far as they are all the
\* matches there are.
LEMMA GraphFollowsSeeds ==
  ASSUME NEW d \in Databases, NEW l \in LinkSets, NEW c, NEW n \in Nat, Seeds <= n,
         NEW seeds, IsListing(seeds), Takes(seeds, MatchOf(d, c), Seeds)
  PROVE  GraphLists(Graph(seeds, AmongOf(l, Ids(seeds)), Window(RowsOf(d, c)), n), d, l, c, n)
<1> DEFINE W == Window(RowsOf(d, c))
           M == MatchOf(d, c)
           near == AmongOf(l, Ids(seeds))
           list == Graph(seeds, near, W, n)
           met == Met(W, seeds, near)
           L == LinkedOf(d, l, c)
<1>1. /\ SomeRows(W) /\ M \subseteq IdsOf(W) /\ IsFiniteSet(M) /\ IsFiniteSet(L)
      /\ Ids(seeds) \subseteq M /\ Seeds \in Nat \ {0}
  BY FoundIsFinite, ListsAreWide DEF Takes
<1>2. Takes(list, IdsOf(met), n)
  BY <1>1, GraphTakes
<1>3. L = M \cup IdsOf({s \in W : \E m \in M, x \in AmongOf(l, M) : {x.from, x.to} = {m, s.id}})
  BY DEF LinkedOf
<1>4. ASSUME NEW r \in W
      PROVE  r \in met <=> \/ r.id \in Ids(seeds)
                           \/ \E m \in Ids(seeds), x \in near : {x.from, x.to} = {m, r.id}
  <2> DEFINE T == ToSet(seeds)
  <2>1. Ids(seeds) = {t.id : t \in T}
    BY DEF Ids, ToSet
  <2>2. GraphScores(r.id, seeds, near) # {} <=> \E t \in T : t.id = r.id \/ Beside(t.id, r.id, near)
    <3>1. GraphScores(r.id, seeds, near) # {} <=>
            {t \in T : t.id = r.id} # {} \/ {t \in T : Beside(t.id, r.id, near)} # {}
      <4> DEFINE A == {t \in T : t.id = r.id}
                 B == {t \in T : Beside(t.id, r.id, near)}
                 own == {(72 * s.score) \div 100 : s \in A}
                 beside == {(86 * s.score) \div 100 : s \in B}
      <4>1. GraphScores(r.id, seeds, near) = own \cup beside
        BY DEF GraphScores
      <4> HIDE DEF A, B
      <4>2. (own # {} <=> A # {}) /\ (beside # {} <=> B # {})
        OBVIOUS
      <4> HIDE DEF own, beside
      <4>3. own \cup beside # {} <=> A # {} \/ B # {}
        BY <4>2
      <4> QED BY <4>1, <4>3 DEF A, B
    <3> HIDE DEF T
    <3> QED BY <3>1
  <2>3. \A m : Beside(m, r.id, near) <=> \E x \in near : {x.from, x.to} = {m, r.id}
    BY DEF Beside
  <2>4. r \in met <=> GraphScores(r.id, seeds, near) # {}
    BY DEF Met
  <2> HIDE DEF T, near, met
  <2> QED BY <2>1, <2>2, <2>3, <2>4
<1>5. near \subseteq AmongOf(l, M)
  BY <1>1 DEF AmongOf
<1>6. met \subseteq W
  BY DEF Met
<1> HIDE DEF met, near, L, W, M, list
<1>7. IdsOf(met) \subseteq L
  <2>1. SUFFICES ASSUME NEW r \in met PROVE r.id \in L
    BY DEF IdsOf
  <2>2. CASE r.id \in Ids(seeds)
    BY <1>1, <1>3, <2>2
  <2>3. CASE \E m \in Ids(seeds), x \in near : {x.from, x.to} = {m, r.id}
    <3>1. \E m \in M, x \in AmongOf(l, M) : {x.from, x.to} = {m, r.id}
      BY <1>1, <1>5, <2>3
    <3> QED BY <1>3, <1>6, <3>1 DEF IdsOf
  <2> QED BY <1>4, <1>6, <2>2, <2>3
<1>8. Ids(seeds) \subseteq IdsOf(met)
  <2>1. SUFFICES ASSUME NEW e \in Ids(seeds) PROVE e \in IdsOf(met)
    OBVIOUS
  <2>2. PICK r \in W : r.id = e
    BY <1>1 DEF IdsOf
  <2> QED BY <1>4, <2>2 DEF IdsOf
<1>9. Ids(list) \subseteq L
  BY <1>2, <1>7 DEF Takes
<1>10. ASSUME Cardinality(M) <= Seeds PROVE Takes(list, L, n)
  <2>1. Ids(seeds) = M
    BY <1>1, <1>10, TakesAll DEF M
  <2>2. near = AmongOf(l, M)
    BY <2>1 DEF near
  <2>3. L \subseteq IdsOf(met)
    <3>1. SUFFICES ASSUME NEW s \in W, \E m \in M, x \in near : {x.from, x.to} = {m, s.id}
                   PROVE  s.id \in IdsOf(met)
      BY <1>3, <1>8, <2>1, <2>2 DEF IdsOf
    <3>2. s \in met
      BY <1>4, <2>1, <3>1
    <3> QED BY <3>2 DEF IdsOf
  <2>4. IdsOf(met) = L
    BY <1>7, <2>3
  <2> QED BY <1>2, <2>4
<1>11. ASSUME Cardinality(M) > Seeds PROVE Seeds <= Cardinality(Ids(list))
  <2>1. Cardinality(Ids(seeds)) = Seeds
    BY <1>1, <1>11, TakesAll DEF M, Takes
  <2>2. IsFiniteSet(IdsOf(met)) /\ Cardinality(IdsOf(met)) \in Nat
    BY <1>2, FS_CardinalityType DEF Takes
  <2>3. Seeds <= Cardinality(IdsOf(met))
    BY <1>8, <2>1, <2>2, FS_Subset
  <2>4. Cardinality(Ids(list)) = Least(n, Cardinality(IdsOf(met)))
    BY <1>2 DEF Takes
  <2> QED BY <1>1, <2>2, <2>3, <2>4 DEF Least
<1>12. GraphLists(list, d, l, c, n)
  BY <1>9, <1>10, <1>11 DEF GraphLists, L, M
<1> QED BY <1>12 DEF list, near, W

\* What an answer of at most TopK is to be.
IsExact(answer, d, l, m, c) ==
  /\ Ids(answer) \subseteq FoundOf(d, l, m, c)
  /\ \/ Len(answer) = Least(TopK, Cardinality(FoundOf(d, l, m, c)))
     \/ /\ m \in {"graph", "hybrid"}
        /\ Seeds < Least(TopK, Cardinality(MatchOf(d, c)))
        /\ Seeds <= Len(answer)

\* It is, if the lists have all there is or as many as are asked for.
Suffices(U, d, l, m, c) ==
  LET F == FoundOf(d, l, m, c)
  IN  /\ U \subseteq F
      /\ \/ U = F
         \/ TopK <= Cardinality(U)
         \/ /\ m \in {"graph", "hybrid"}
            /\ Seeds < Least(TopK, Cardinality(MatchOf(d, c)))
            /\ Seeds <= Cardinality(U)
LEMMA SufficesForAnswer ==
  ASSUME NEW d \in Databases, NEW l, NEW m, NEW c, NEW U, Suffices(U, d, l, m, c),
         NEW answer, Takes(answer, U, TopK)
  PROVE  IsExact(answer, d, l, m, c)
<1> DEFINE F == FoundOf(d, l, m, c)
           M == MatchOf(d, c)
<1>1. /\ IsFiniteSet(F) /\ Cardinality(F) \in Nat /\ U \subseteq F
      /\ IsFiniteSet(M) /\ Cardinality(M) \in Nat
      /\ TopK \in Nat \ {0} /\ Seeds \in Nat \ {0}
  BY FoundIsFinite, ListsAreWide, FS_CardinalityType DEF Suffices
<1>2. Cardinality(U) \in Nat /\ Cardinality(U) <= Cardinality(F)
  BY <1>1, FS_Subset, FS_CardinalityType
<1>3. Len(answer) = Least(TopK, Cardinality(U)) /\ Ids(answer) \subseteq F
  BY <1>1 DEF Takes
<1>4. CASE U = F
  BY <1>3, <1>4 DEF IsExact
<1>5. CASE TopK <= Cardinality(U)
  <2>1. Len(answer) = TopK /\ Least(TopK, Cardinality(F)) = TopK
    BY <1>1, <1>2, <1>3, <1>5 DEF Least
  <2> QED BY <1>3, <2>1 DEF IsExact
<1>6. CASE /\ m \in {"graph", "hybrid"} /\ Seeds < Least(TopK, Cardinality(M))
           /\ Seeds <= Cardinality(U)
  <2>1. Seeds <= Len(answer)
    BY <1>1, <1>2, <1>3, <1>6 DEF Least
  <2> QED BY <1>3, <1>6, <2>1 DEF IsExact
<1> QED BY <1>4, <1>5, <1>6 DEF Suffices

\* One list that is wide enough.
LEMMA OneListSuffices ==
  ASSUME NEW list, NEW base, NEW n \in Nat, TopK <= n, Takes(list, base, n)
  PROVE  Ids(list) \subseteq base /\ (Ids(list) = base \/ TopK <= Cardinality(Ids(list)))
<1>1. /\ Cardinality(base) \in Nat /\ Len(list) = Cardinality(Ids(list)) /\ Ids(list) \subseteq base
      /\ Cardinality(base) <= n => Ids(list) = base
      /\ Cardinality(base) > n => Len(list) = n
  BY TakesAll DEF Takes
<1> QED BY <1>1

\* A list of graph search.
LEMMA GraphListSuffices ==
  ASSUME NEW d \in Databases, NEW l, NEW c, NEW n \in Nat, TopK <= n, NEW list, IsListing(list),
         GraphLists(list, d, l, c, n)
  PROVE  /\ Ids(list) \subseteq LinkedOf(d, l, c)
         /\ \/ Ids(list) = LinkedOf(d, l, c)
            \/ TopK <= Cardinality(Ids(list))
            \/ /\ Seeds < Least(TopK, Cardinality(MatchOf(d, c)))
               /\ Seeds <= Cardinality(Ids(list))
<1> DEFINE k == Cardinality(MatchOf(d, c))
<1>1. /\ k \in Nat /\ Cardinality(Ids(list)) \in Nat
      /\ TopK \in Nat \ {0} /\ Seeds \in Nat \ {0}
  BY FoundIsFinite, IdsOfListing, ListsAreWide, FS_CardinalityType
<1>2. CASE k <= Seeds
  <2>1. Takes(list, LinkedOf(d, l, c), n)
    BY <1>2 DEF GraphLists
  <2> QED BY <2>1, OneListSuffices
<1>3. CASE k > Seeds
  <2>1. Seeds <= Cardinality(Ids(list)) /\ Ids(list) \subseteq LinkedOf(d, l, c)
    BY <1>3 DEF GraphLists
  <2>2. TopK <= Seeds \/ Seeds < Least(TopK, k)
    BY <1>1, <1>3 DEF Least
  <2> QED BY <1>1, <2>1, <2>2
<1> QED BY <1>1, <1>2, <1>3

-----------------------------------------------------------------------------
(* Searches: AskInv is their inductive invariant.                          *)

\* The statements of a search come in this order, with these lists found.
AskStages(a) ==
  LET found == DOMAIN a.lists
  IN  \/ a.stage \in {"none", "answered"}
      \/ /\ a.stage \in {"candidates", "connections"} /\ ~ a.seeds
         /\ a.mode \in {"titles", "lexical", "hybrid", "ppr"} /\ found = {}
      \/ /\ a.stage \in {"candidates", "connections", "edges", "map"} /\ a.seeds
         /\ \/ a.mode = "graph" /\ found = {}
            \/ a.mode = "hybrid" /\ found = {"lexical", "semantic"}
      \/ /\ a.stage = "vectors"
         /\ \/ a.mode = "semantic" /\ found = {}
            \/ a.mode \in {"hybrid", "ppr"} /\ found = {"lexical"}
      \/ /\ a.stage = "fuse"
         /\ \/ a.mode \in {"lexical", "semantic", "graph"} /\ found = {a.mode}
            \/ a.mode = "hybrid" /\ found = Methods
      \/ /\ a.stage \in {"nodes", "rank"} /\ a.mode = "ppr"
         /\ found \subseteq {"lexical", "semantic"}

IsAsk(a) ==
  a = [stage |-> a.stage, mode |-> a.mode, cluster |-> a.cluster, seeds |-> a.seeds,
       window |-> a.window, lists |-> a.lists, near |-> a.near, answer |-> a.answer]
AskShape(a) ==
  /\ IsAsk(a) /\ a.seeds \in BOOLEAN /\ AskStages(a) /\ IsLists(a.lists)
  /\ a.stage \in {"connections", "rank"} => SomeRows(a.window)
  /\ a.stage \in {"edges", "map"} => IsListing(a.answer)
  /\ a.stage \notin {"edges", "map", "answered"} => a.answer = <<>>
  /\ a.stage = "answered" =>
       Cardinality(Ids(a.answer)) = Len(a.answer) /\ Len(a.answer) <= TopK

\* While nothing is committed, what has been found is what there is.
ListsFaithful(d, l, a) ==
  LET n == WideOf(a.mode)
  IN  /\ "lexical" \in DOMAIN a.lists => Takes(a.lists["lexical"], MatchOf(d, a.cluster), n)
      /\ "semantic" \in DOMAIN a.lists => Takes(a.lists["semantic"], NearOf(d, a.cluster), n)
      /\ "graph" \in DOMAIN a.lists => GraphLists(a.lists["graph"], d, l, a.cluster, n)
AskFaithful(d, l, a) ==
  /\ ListsFaithful(d, l, a)
  /\ a.stage = "connections" => a.window = Window(RowsOf(d, a.cluster))
  /\ a.stage \in {"edges", "map"} => Takes(a.answer, MatchOf(d, a.cluster), Seeds)
  /\ a.stage = "map" => a.near = AmongOf(l, Ids(a.answer))
  /\ a.stage = "answered" /\ a.mode # "ppr" => IsExact(a.answer, d, l, a.mode, a.cluster)

AskOK(d, l, a, q) == AskShape(a) /\ (q => AskFaithful(d, l, a))
AskInv == AskOK(db, links, ask, quiet)

\* The invariant says what the property says.
LEMMA AskInvSuffices == AskInv => AnswersAreExact
<1> SUFFICES ASSUME AskInv, ask.stage = "answered"
             PROVE  /\ Cardinality(Ids(ask.answer)) = Len(ask.answer)
                    /\ Len(ask.answer) <= TopK
                    /\ quiet /\ ask.mode # "ppr" =>
                         /\ Ids(ask.answer) \subseteq Found
                         /\ \/ Len(ask.answer) = Least(TopK, Cardinality(Found))
                            \/ /\ ask.mode \in {"graph", "hybrid"}
                               /\ Seeds < Least(TopK, Cardinality(Matching))
                               /\ Seeds <= Len(ask.answer)
  BY DEF AnswersAreExact
<1>1. /\ Cardinality(Ids(ask.answer)) = Len(ask.answer) /\ Len(ask.answer) <= TopK
      /\ quiet /\ ask.mode # "ppr" => IsExact(ask.answer, db, links, ask.mode, ask.cluster)
  BY DEF AskInv, AskOK, AskShape, AskFaithful
<1> QED BY <1>1, AsThereIs DEF IsExact

\* An empty list, and one list more.
LEMMA NoneListed ==
  /\ IsListing(<<>>) /\ Ids(<<>>) = {} /\ Cardinality({}) = 0 /\ Len(<<>>) = 0
  /\ IsLists(NoLists) /\ DOMAIN NoLists = {}
<1>1. Ids(<<>>) = {} /\ IsListing(<<>>)
  BY DEF Ids, IsListing
<1>2. DOMAIN NoLists = {}
  BY DEF NoLists
<1> QED BY <1>1, <1>2, FS_EmptySet DEF IsLists

\* A list more.
LEMMA OneMoreList ==
  ASSUME NEW lists, IsLists(lists), NEW m \in Methods, NEW list, IsListing(list),
         NEW more, more = With(lists, m, list)
  PROVE  IsLists(more) /\ DOMAIN more = DOMAIN lists \cup {m}
<1>1. /\ DOMAIN more = DOMAIN lists \cup {m} /\ more[m] = list
      /\ \A k \in DOMAIN lists : k # m => more[k] = lists[k]
  BY DEF With
<1> QED BY <1>1 DEF IsLists

\* Nothing has been found: a search that is over, fails or begins.
LEMMA NothingAsked ==
  ASSUME NEW d, NEW l, NEW a, NEW q, IsAsk(a), a.seeds \in BOOLEAN, AskStages(a),
         a.lists = NoLists, a.answer = <<>>,
         a.stage \in {"none", "candidates", "vectors"}
  PROVE  AskOK(d, l, a, q)
<1>1. IsLists(a.lists) /\ DOMAIN a.lists = {}
  BY NoneListed
<1> QED BY <1>1 DEF AskOK, AskShape, AskFaithful, ListsFaithful

\* A search that begins has found nothing.
LEMMA AskKeeps ==
  ASSUME AskInv, NEW mode \in Modes, NEW c, Ask(mode, c)
  PROVE  AskInv'
<1>1. /\ IsAsk(ask') /\ ask'.seeds = (mode = "graph") /\ ask'.mode = mode
      /\ ask'.lists = NoLists /\ ask'.answer = <<>>
      /\ ask'.stage = IF mode = "semantic" THEN "vectors" ELSE "candidates"
  BY DEF Ask, NoAsk, IsAsk
<1>2. DOMAIN ask'.lists = {}
  BY <1>1, NoneListed
<1>3. mode \in {"titles", "lexical", "semantic", "graph", "hybrid", "ppr"}
  BY ModesAssumption
<1>4. AskStages(ask') /\ ask'.seeds \in BOOLEAN /\ ask'.stage \in {"candidates", "vectors"}
  BY <1>1, <1>2, <1>3 DEF AskStages
<1> QED BY <1>1, <1>4, NothingAsked DEF AskInv

\* Nor has one that is over.
LEMMA NoAskKeeps == ask' = NoAsk => AskInv'
<1> SUFFICES ASSUME ask' = NoAsk PROVE AskInv'
  OBVIOUS
<1>1. /\ IsAsk(ask') /\ ask'.seeds \in BOOLEAN /\ AskStages(ask') /\ ask'.stage = "none"
      /\ ask'.lists = NoLists /\ ask'.answer = <<>>
  BY DEF NoAsk, IsAsk, AskStages
<1> QED BY <1>1, NothingAsked DEF AskInv

\* What a step of a search is about.
AskTypes == db \in Databases /\ links \in LinkSets
LEMMA CandidatesKeep ==
  ASSUME AskTypes, AskInv, Candidates
  PROVE  AskInv'
<1> DEFINE W == Window(RowsOf(db, ask.cluster))
<1>1. /\ db' = db /\ links' = links /\ quiet' = quiet /\ ask.stage = "candidates"
      /\ ask' = [ask EXCEPT !.stage = "connections", !.window = W]
  BY AsThereIs DEF Candidates, store
<1>2. AskShape(ask) /\ (quiet => AskFaithful(db, links, ask))
  BY DEF AskInv, AskOK
<1>3. SomeRows(W)
  BY FoundIsFinite DEF AskTypes
<1> HIDE DEF W
<1>4. /\ IsAsk(ask') /\ ask'.stage = "connections" /\ ask'.window = W /\ ask'.mode = ask.mode
      /\ ask'.cluster = ask.cluster /\ ask'.seeds = ask.seeds /\ ask'.lists = ask.lists
      /\ ask'.answer = ask.answer
  BY <1>1, <1>2 DEF AskShape, IsAsk
<1>5. AskShape(ask')
  <2>1. AskStages(ask')
    BY <1>1, <1>2, <1>4 DEF AskShape, AskStages
  <2> QED BY <1>1, <1>2, <1>3, <1>4, <2>1 DEF AskShape
<1>6. quiet => AskFaithful(db, links, ask')
  BY <1>2, <1>4 DEF AskFaithful, ListsFaithful, W
<1> QED BY <1>1, <1>5, <1>6 DEF AskInv, AskOK

\* The search box answers.
LEMMA TitlesKeep ==
  ASSUME AskTypes, AskInv, Connections, ask.mode = "titles"
  PROVE  AskInv'
<1> DEFINE touching == AmongOf(links, Ids(SetToSeq(ask.window)))
           list == TitleSearch(ask.window, touching, TopK)
<1>1. /\ db' = db /\ links' = links /\ quiet' = quiet /\ ask.stage = "connections"
      /\ ask' = [ask EXCEPT !.stage = "answered", !.window = {}, !.answer = list]
  BY AsThereIs DEF Connections, store
<1>2. AskShape(ask) /\ (quiet => AskFaithful(db, links, ask))
  BY DEF AskInv, AskOK
<1>3. IsFiniteSet(touching) /\ TopK \in Nat /\ SomeRows(ask.window)
  BY <1>1, <1>2, AmongIsFinite, ListsAreWide DEF AskTypes, AskShape
<1>4. Takes(list, IdsOf(Matches(ask.window)), TopK)
  <2> HIDE DEF touching
  <2> QED BY <1>3, TitlesTake
<1> HIDE DEF list
<1>5. /\ IsAsk(ask') /\ ask'.stage = "answered" /\ ask'.answer = list /\ ask'.mode = "titles"
      /\ ask'.cluster = ask.cluster /\ ask'.seeds = ask.seeds /\ ask'.lists = ask.lists
  BY <1>1, <1>2 DEF AskShape, IsAsk
<1>6. AskShape(ask')
  <2>1. Cardinality(Ids(list)) = Len(list) /\ Len(list) <= TopK
    BY <1>3, <1>4, TakesAll DEF Takes
  <2> QED BY <1>1, <1>2, <1>5, <2>1 DEF AskShape, AskStages
<1>7. quiet => AskFaithful(db, links, ask')
  <2> SUFFICES ASSUME quiet PROVE AskFaithful(db, links, ask')
    OBVIOUS
  <2>1. IdsOf(Matches(ask.window)) = FoundOf(db, links, "titles", ask.cluster)
    BY <1>1, <1>2 DEF AskFaithful, FoundOf, MatchOf
  <2>2. IsExact(list, db, links, "titles", ask.cluster)
    BY <1>4, <2>1 DEF IsExact, Takes
  <2> QED BY <1>1, <1>2, <1>5, <2>2 DEF AskFaithful, ListsFaithful
<1> QED BY <1>1, <1>6, <1>7 DEF AskInv, AskOK

\* Graph search has the matches it starts from.
LEMMA SeedsKeep ==
  ASSUME AskTypes, AskInv, Connections, ask.mode # "titles", ask.seeds
  PROVE  AskInv'
<1> DEFINE touching == AmongOf(links, Ids(SetToSeq(ask.window)))
           list == Lexical(ask.window, touching, Seeds)
<1>1. /\ db' = db /\ links' = links /\ quiet' = quiet /\ ask.stage = "connections"
      /\ ask' = [ask EXCEPT !.stage = "edges", !.answer = list, !.window = {}]
  BY AsThereIs DEF Connections, store
<1>2. AskShape(ask) /\ (quiet => AskFaithful(db, links, ask))
  BY DEF AskInv, AskOK
<1>3. IsFiniteSet(touching) /\ Seeds \in Nat /\ SomeRows(ask.window)
  BY <1>1, <1>2, AmongIsFinite, ListsAreWide DEF AskTypes, AskShape
<1>4. IsListing(list) /\ Takes(list, IdsOf(Matches(ask.window)), Seeds)
  <2> HIDE DEF touching
  <2> QED BY <1>3, LexicalTakes
<1> HIDE DEF list
<1>5. /\ IsAsk(ask') /\ ask'.stage = "edges" /\ ask'.answer = list /\ ask'.mode = ask.mode
      /\ ask'.cluster = ask.cluster /\ ask'.seeds = ask.seeds /\ ask'.lists = ask.lists
  BY <1>1, <1>2 DEF AskShape, IsAsk
<1>6. AskShape(ask')
  <2>1. AskStages(ask')
    BY <1>1, <1>2, <1>5 DEF AskShape, AskStages
  <2> QED BY <1>1, <1>2, <1>4, <1>5, <2>1 DEF AskShape
<1>7. quiet => AskFaithful(db, links, ask')
  <2> SUFFICES ASSUME quiet PROVE AskFaithful(db, links, ask')
    OBVIOUS
  <2>1. IdsOf(Matches(ask.window)) = MatchOf(db, ask.cluster)
    BY <1>1, <1>2 DEF AskFaithful, MatchOf
  <2> QED BY <1>1, <1>2, <1>4, <1>5, <2>1 DEF AskFaithful, ListsFaithful
<1> QED BY <1>1, <1>6, <1>7 DEF AskInv, AskOK

\* A search has its lexical list.
LEMMA LexicalKeeps ==
  ASSUME AskTypes, AskInv, Connections, ask.mode # "titles", ~ ask.seeds
  PROVE  AskInv'
<1> DEFINE touching == AmongOf(links, Ids(SetToSeq(ask.window)))
           n == WideOf(ask.mode)
           list == Lexical(ask.window, touching, n)
           lists == With(ask.lists, "lexical", list)
           next == IF ask.mode = "lexical" THEN "fuse" ELSE "vectors"
<1>1. /\ db' = db /\ links' = links /\ quiet' = quiet /\ ask.stage = "connections"
      /\ ask' = [ask EXCEPT !.lists = lists, !.window = {}, !.stage = next]
  BY AsThereIs DEF Connections, store
<1>2. AskShape(ask) /\ (quiet => AskFaithful(db, links, ask))
  BY DEF AskInv, AskOK
<1>3. IsFiniteSet(touching) /\ n \in Nat /\ SomeRows(ask.window)
  BY <1>1, <1>2, AmongIsFinite, ListsAreWide DEF AskTypes, AskShape
<1>4. IsListing(list) /\ Takes(list, IdsOf(Matches(ask.window)), n)
  <2> HIDE DEF touching, n
  <2> QED BY <1>3, LexicalTakes
<1> HIDE DEF list, n
<1>5. /\ IsLists(ask.lists) /\ DOMAIN ask.lists = {}
      /\ ask.mode \in {"lexical", "hybrid", "ppr"} /\ ask.answer = <<>>
  BY <1>1, <1>2 DEF AskShape, AskStages
<1>6. /\ IsLists(lists) /\ DOMAIN lists = {"lexical"} /\ lists["lexical"] = list
  <2>1. lists = With(ask.lists, "lexical", list) /\ "lexical" \in Methods
    BY DEF Methods
  <2> HIDE DEF lists
  <2>2. /\ IsLists(lists) /\ DOMAIN lists = DOMAIN ask.lists \cup {"lexical"}
    <3>1. IsListing(list) /\ IsLists(ask.lists)
      BY <1>4, <1>5
    <3> QED BY <2>1, <3>1, OneMoreList
  <2>3. lists["lexical"] = list
    BY <2>1 DEF With
  <2> QED BY <1>5, <2>2, <2>3
<1> HIDE DEF lists
<1>7. /\ IsAsk(ask') /\ ask'.stage = next /\ ask'.answer = <<>> /\ ask'.mode = ask.mode
      /\ ask'.cluster = ask.cluster /\ ask'.seeds = ask.seeds /\ ask'.lists = lists
  BY <1>1, <1>2, <1>5 DEF AskShape, IsAsk
<1>8. AskShape(ask')
  <2>1. AskStages(ask')
    BY <1>5, <1>6, <1>7 DEF AskStages
  <2> QED BY <1>2, <1>6, <1>7, <2>1 DEF AskShape
<1>9. quiet => AskFaithful(db, links, ask')
  <2> SUFFICES ASSUME quiet PROVE AskFaithful(db, links, ask')
    OBVIOUS
  <2>1. IdsOf(Matches(ask.window)) = MatchOf(db, ask.cluster)
    BY <1>1, <1>2 DEF AskFaithful, MatchOf
  <2>2. ListsFaithful(db, links, ask')
    BY <1>4, <1>6, <1>7, <2>1 DEF ListsFaithful, n
  <2> QED BY <1>7, <2>2 DEF AskFaithful
<1> QED BY <1>1, <1>8, <1>9 DEF AskInv, AskOK

\* Whichever list follows the connections.
LEMMA ConnectionsKeep ==
  ASSUME AskTypes, AskInv, Connections
  PROVE  AskInv'
BY TitlesKeep, SeedsKeep, LexicalKeeps

\* A search has its semantic list.
LEMMA VectorsKeep ==
  ASSUME AskTypes, AskInv, Vectors
  PROVE  AskInv'
<1> DEFINE n == WideOf(ask.mode)
           list == Semantic(RowsOf(db, ask.cluster), n)
           lists == With(ask.lists, "semantic", list)
           next == CASE ask.mode = "semantic" -> "fuse"
                     [] ask.mode = "ppr"      -> "nodes"
                     [] OTHER                 -> "candidates"
<1>1. /\ db' = db /\ links' = links /\ quiet' = quiet /\ ask.stage = "vectors"
      /\ ask' = [ask EXCEPT !.lists = lists, !.stage = next, !.seeds = TRUE]
  BY AsThereIs DEF Vectors, store
<1>2. AskShape(ask) /\ (quiet => AskFaithful(db, links, ask))
  BY DEF AskInv, AskOK
<1>3. IsListing(list) /\ Takes(list, NearOf(db, ask.cluster), n)
  <2>1. SomeRows(RowsOf(db, ask.cluster)) /\ n \in Nat
    BY RowsAreRows, ListsAreWide DEF AskTypes
  <2> HIDE DEF n
  <2> QED BY <2>1, SemanticTakes DEF NearOf
<1> HIDE DEF list, n
<1>4. /\ IsLists(ask.lists) /\ ask.answer = <<>>
      /\ \/ ask.mode = "semantic" /\ DOMAIN ask.lists = {} /\ next = "fuse"
         \/ ask.mode = "hybrid" /\ DOMAIN ask.lists = {"lexical"} /\ next = "candidates"
         \/ ask.mode = "ppr" /\ DOMAIN ask.lists = {"lexical"} /\ next = "nodes"
  BY <1>1, <1>2 DEF AskShape, AskStages
<1> HIDE DEF next
<1>5. /\ IsLists(lists) /\ DOMAIN lists = DOMAIN ask.lists \cup {"semantic"}
      /\ lists["semantic"] = list
      /\ "lexical" \in DOMAIN ask.lists => lists["lexical"] = ask.lists["lexical"]
  <2>1. lists = With(ask.lists, "semantic", list) /\ "semantic" \in Methods
    BY DEF Methods
  <2> HIDE DEF lists
  <2>2. /\ IsLists(lists) /\ DOMAIN lists = DOMAIN ask.lists \cup {"semantic"}
    <3>1. IsListing(list) /\ IsLists(ask.lists)
      BY <1>3, <1>4
    <3> QED BY <2>1, <3>1, OneMoreList
  <2>3. lists["semantic"] = list
    BY <2>1 DEF With
  <2>4. "lexical" \in DOMAIN ask.lists => lists["lexical"] = ask.lists["lexical"]
    BY <2>1 DEF With
  <2> QED BY <2>2, <2>3, <2>4
<1> HIDE DEF lists
<1>6. /\ IsAsk(ask') /\ ask'.stage = next /\ ask'.answer = <<>> /\ ask'.mode = ask.mode
      /\ ask'.cluster = ask.cluster /\ ask'.seeds = TRUE /\ ask'.lists = lists
  BY <1>1, <1>2, <1>4 DEF AskShape, IsAsk
<1>7. AskShape(ask')
  <2>1. AskStages(ask')
    BY <1>4, <1>5, <1>6 DEF AskStages
  <2>2. ask'.stage \in {"fuse", "nodes", "candidates"}
    BY <1>4, <1>6
  <2> QED BY <1>5, <1>6, <2>1, <2>2 DEF AskShape
<1>8. quiet => AskFaithful(db, links, ask')
  <2> SUFFICES ASSUME quiet PROVE AskFaithful(db, links, ask')
    OBVIOUS
  <2>1. ListsFaithful(db, links, ask)
    BY <1>2 DEF AskFaithful
  <2>2. ListsFaithful(db, links, ask')
    <3>1. ASSUME "lexical" \in DOMAIN lists
          PROVE  Takes(lists["lexical"], MatchOf(db, ask.cluster), n)
      BY <1>5, <2>1, <3>1 DEF ListsFaithful, n
    <3>2. "graph" \notin DOMAIN lists
      BY <1>4, <1>5
    <3> QED BY <1>3, <1>5, <1>6, <3>1, <3>2 DEF ListsFaithful, n
  <2> QED BY <1>4, <1>6, <2>2 DEF AskFaithful
<1> QED BY <1>1, <1>7, <1>8 DEF AskInv, AskOK

\* A search goes on without one, or is over.
LEMMA ProviderFailsKeeps ==
  ASSUME AskTypes, AskInv, ProviderFails
  PROVE  AskInv'
<1>1. db' = db /\ links' = links /\ quiet' = quiet /\ ask.stage = "vectors"
  BY DEF ProviderFails, store
<1>2. AskShape(ask) /\ (quiet => AskFaithful(db, links, ask))
  BY DEF AskInv, AskOK
<1>3. CASE ask.mode = "ppr"
  <2>1. /\ IsAsk(ask') /\ ask'.stage = "nodes" /\ ask'.answer = <<>> /\ ask'.mode = "ppr"
        /\ ask'.cluster = ask.cluster /\ ask'.seeds = ask.seeds /\ ask'.lists = ask.lists
        /\ ask.lists = ask.lists /\ DOMAIN ask.lists = {"lexical"} /\ IsLists(ask.lists)
        /\ ask.seeds \in BOOLEAN
    BY <1>1, <1>2, <1>3 DEF AskShape, IsAsk, AskStages, ProviderFails
  <2>2. AskShape(ask')
    BY <2>1 DEF AskShape, AskStages
  <2>3. quiet => AskFaithful(db, links, ask')
    BY <1>2, <1>3, <2>1 DEF AskFaithful, ListsFaithful
  <2> QED BY <1>1, <2>2, <2>3 DEF AskInv, AskOK
<1>4. CASE ask.mode # "ppr"
  BY <1>4, NoAskKeeps DEF ProviderFails
<1> QED BY <1>3, <1>4

\* Without a match there is nothing to list.
LEMMA NoSeedsNoList ==
  ASSUME NEW d \in Databases, NEW l, NEW c, NEW n \in Nat, Takes(<<>>, MatchOf(d, c), Seeds)
  PROVE  GraphLists(<<>>, d, l, c, n)
<1> DEFINE M == MatchOf(d, c)
           L == LinkedOf(d, l, c)
<1>1. IsFiniteSet(M) /\ Cardinality(M) \in Nat /\ Seeds \in Nat \ {0}
  BY FoundIsFinite, ListsAreWide, FS_CardinalityType
<1>2. Cardinality(M) = 0
  BY <1>1, NoneListed DEF Takes, Least
<1>3. M = {}
  BY <1>1, <1>2, FS_EmptySet
<1>4. L = {}
  BY <1>3 DEF LinkedOf, IdsOf
<1>5. Takes(<<>>, L, n)
  BY <1>4, NoneListed, FS_EmptySet DEF Takes, Least
<1> QED BY <1>1, <1>2, <1>5, NoneListed DEF GraphLists

\* Graph search reads the edges of its seeds, or has no seed.
LEMMA EdgesOfSeedsKeep ==
  ASSUME AskTypes, AskInv, EdgesOfSeeds
  PROVE  AskInv'
<1> DEFINE n == WideOf(ask.mode)
<1>1. db' = db /\ links' = links /\ quiet' = quiet /\ ask.stage = "edges"
  BY DEF EdgesOfSeeds, store
<1>2. AskShape(ask) /\ (quiet => AskFaithful(db, links, ask))
  BY DEF AskInv, AskOK
<1>3. /\ IsAsk(ask) /\ IsLists(ask.lists) /\ ask.seeds = TRUE /\ IsListing(ask.answer)
      /\ \/ ask.mode = "graph" /\ DOMAIN ask.lists = {}
         \/ ask.mode = "hybrid" /\ DOMAIN ask.lists = {"lexical", "semantic"}
  BY <1>1, <1>2 DEF AskShape, AskStages
<1>4. CASE ask.answer = <<>>
  <2> DEFINE lists == With(ask.lists, "graph", <<>>)
  <2>1. ask' = [ask EXCEPT !.stage = "fuse", !.lists = lists]
    BY <1>4 DEF EdgesOfSeeds
  <2>2. IsLists(lists) /\ DOMAIN lists = DOMAIN ask.lists \cup {"graph"}
    <3>1. "graph" \in Methods /\ lists = With(ask.lists, "graph", <<>>)
      BY DEF Methods
    <3> HIDE DEF lists
    <3>2. IsListing(<<>>) /\ IsLists(ask.lists)
      BY <1>3, NoneListed
    <3> QED BY <3>1, <3>2, OneMoreList
  <2>3. /\ lists["graph"] = <<>>
        /\ "lexical" \in DOMAIN ask.lists => lists["lexical"] = ask.lists["lexical"]
        /\ "semantic" \in DOMAIN ask.lists => lists["semantic"] = ask.lists["semantic"]
    BY DEF With
  <2> HIDE DEF lists
  <2>4. /\ IsAsk(ask') /\ ask'.stage = "fuse" /\ ask'.answer = <<>> /\ ask'.mode = ask.mode
        /\ ask'.cluster = ask.cluster /\ ask'.seeds = TRUE /\ ask'.lists = lists
    BY <1>3, <1>4, <2>1 DEF IsAsk
  <2>5. AskShape(ask')
    <3>1. AskStages(ask')
      BY <1>3, <2>2, <2>4 DEF AskStages, Methods
    <3> QED BY <2>2, <2>4, <3>1 DEF AskShape
  <2>6. quiet => AskFaithful(db, links, ask')
    <3> SUFFICES ASSUME quiet PROVE AskFaithful(db, links, ask')
      OBVIOUS
    <3>1. ListsFaithful(db, links, ask) /\ Takes(<<>>, MatchOf(db, ask.cluster), Seeds)
      BY <1>1, <1>2, <1>4 DEF AskFaithful
    <3>2. n \in Nat
      BY ListsAreWide
    <3>3. GraphLists(<<>>, db, links, ask.cluster, n)
      <4> HIDE DEF n
      <4> QED BY <3>1, <3>2, NoSeedsNoList DEF AskTypes
    <3>4. ListsFaithful(db, links, ask')
      BY <1>3, <2>2, <2>3, <2>4, <3>1, <3>3 DEF ListsFaithful
    <3> QED BY <2>4, <3>4 DEF AskFaithful
  <2> QED BY <1>1, <2>5, <2>6 DEF AskInv, AskOK
<1>5. CASE ask.answer # <<>>
  <2> DEFINE near == AmongOf(links, Ids(ask.answer))
  <2>1. ask' = [ask EXCEPT !.stage = "map", !.near = near]
    BY <1>5, AsThereIs DEF EdgesOfSeeds
  <2> HIDE DEF near
  <2>2. /\ IsAsk(ask') /\ ask'.stage = "map" /\ ask'.answer = ask.answer /\ ask'.mode = ask.mode
        /\ ask'.cluster = ask.cluster /\ ask'.seeds = TRUE /\ ask'.lists = ask.lists
        /\ ask'.near = near
    BY <1>3, <2>1 DEF IsAsk
  <2>3. AskShape(ask')
    BY <1>3, <2>2 DEF AskShape, AskStages
  <2>4. quiet => AskFaithful(db, links, ask')
    BY <1>1, <1>2, <2>2 DEF AskFaithful, ListsFaithful, near
  <2> QED BY <1>1, <2>3, <2>4 DEF AskInv, AskOK
<1> QED BY <1>4, <1>5

\* A search has its list of what is beside the matches.
LEMMA EntityMapKeeps ==
  ASSUME AskTypes, AskInv, EntityMap
  PROVE  AskInv'
<1> DEFINE n == WideOf(ask.mode)
           W == Window(RowsOf(db, ask.cluster))
           list == Graph(ask.answer, ask.near, W, n)
           lists == With(ask.lists, "graph", list)
<1>1. /\ db' = db /\ links' = links /\ quiet' = quiet /\ ask.stage = "map"
      /\ ask' = [ask EXCEPT !.stage = "fuse", !.near = {}, !.answer = <<>>, !.lists = lists]
  BY AsThereIs DEF EntityMap, store
<1>2. AskShape(ask) /\ (quiet => AskFaithful(db, links, ask))
  BY DEF AskInv, AskOK
<1>3. /\ IsAsk(ask) /\ IsLists(ask.lists) /\ ask.seeds = TRUE /\ IsListing(ask.answer)
      /\ \/ ask.mode = "graph" /\ DOMAIN ask.lists = {}
         \/ ask.mode = "hybrid" /\ DOMAIN ask.lists = {"lexical", "semantic"}
  BY <1>1, <1>2 DEF AskShape, AskStages
<1>4. SomeRows(W) /\ n \in Nat /\ Seeds <= n
  BY <1>3, FoundIsFinite, ListsAreWide DEF AskTypes
<1>5. IsListing(list)
  <2> HIDE DEF W, n
  <2> QED BY <1>3, <1>4, GraphTakes
<1>6. quiet => GraphLists(list, db, links, ask.cluster, n)
  <2> SUFFICES ASSUME quiet PROVE GraphLists(list, db, links, ask.cluster, n)
    OBVIOUS
  <2>1. Takes(ask.answer, MatchOf(db, ask.cluster), Seeds) /\ ask.near = AmongOf(links, Ids(ask.answer))
    BY <1>1, <1>2 DEF AskFaithful
  <2> HIDE DEF n
  <2> QED BY <1>3, <1>4, <2>1, GraphFollowsSeeds DEF AskTypes
<1> HIDE DEF W, n, list
<1>7. IsLists(lists) /\ DOMAIN lists = DOMAIN ask.lists \cup {"graph"}
  <2>1. "graph" \in Methods /\ lists = With(ask.lists, "graph", list)
    BY DEF Methods
  <2> HIDE DEF lists
  <2> QED BY <1>3, <1>5, <2>1, OneMoreList
<1>8. /\ lists["graph"] = list
      /\ "lexical" \in DOMAIN ask.lists => lists["lexical"] = ask.lists["lexical"]
      /\ "semantic" \in DOMAIN ask.lists => lists["semantic"] = ask.lists["semantic"]
  BY DEF With
<1> HIDE DEF lists
<1>9. /\ IsAsk(ask') /\ ask'.stage = "fuse" /\ ask'.answer = <<>> /\ ask'.mode = ask.mode
      /\ ask'.cluster = ask.cluster /\ ask'.seeds = TRUE /\ ask'.lists = lists
  BY <1>1, <1>3 DEF IsAsk
<1>10. AskShape(ask')
  <2>1. AskStages(ask')
    BY <1>3, <1>7, <1>9 DEF AskStages, Methods
  <2> QED BY <1>7, <1>9, <2>1 DEF AskShape
<1>11. quiet => AskFaithful(db, links, ask')
  <2> SUFFICES ASSUME quiet PROVE AskFaithful(db, links, ask')
    OBVIOUS
  <2>1. ListsFaithful(db, links, ask)
    BY <1>2 DEF AskFaithful
  <2>2. ListsFaithful(db, links, ask')
    BY <1>3, <1>6, <1>7, <1>8, <1>9, <2>1 DEF ListsFaithful, n
  <2> QED BY <1>9, <2>2 DEF AskFaithful
<1> QED BY <1>1, <1>10, <1>11 DEF AskInv, AskOK

\* The lists of a search together are as good as its best.
LEMMA ListsSuffice ==
  ASSUME AskTypes, NEW a, a.stage = "fuse", AskShape(a), AskFaithful(db, links, a)
  PROVE  Suffices(InAny(a.lists), db, links, a.mode, a.cluster)
<1> DEFINE n == WideOf(a.mode)
           c == a.cluster
           U == InAny(a.lists)
           F == FoundOf(db, links, a.mode, a.cluster)
           M == MatchOf(db, c)
           N == NearOf(db, c)
           L == LinkedOf(db, links, c)
<1>1. /\ IsLists(a.lists) /\ ListsFaithful(db, links, a)
      /\ \/ a.mode \in {"lexical", "semantic", "graph"} /\ DOMAIN a.lists = {a.mode}
         \/ a.mode = "hybrid" /\ DOMAIN a.lists = Methods
  BY DEF AskShape, AskFaithful, AskStages
<1>2. n \in Nat /\ TopK <= n
  BY ListsAreWide
<1> HIDE DEF n, c
<1>3. ASSUME "lexical" \in DOMAIN a.lists
      PROVE  /\ Ids(a.lists["lexical"]) \subseteq M
             /\ Ids(a.lists["lexical"]) = M \/ TopK <= Cardinality(Ids(a.lists["lexical"]))
  <2>1. Takes(a.lists["lexical"], M, n)
    BY <1>1, <1>3 DEF ListsFaithful, n, c
  <2> HIDE DEF M
  <2> QED BY <1>2, <2>1, OneListSuffices
<1>4. ASSUME "semantic" \in DOMAIN a.lists
      PROVE  /\ Ids(a.lists["semantic"]) \subseteq N
             /\ Ids(a.lists["semantic"]) = N \/ TopK <= Cardinality(Ids(a.lists["semantic"]))
  <2>1. Takes(a.lists["semantic"], N, n)
    BY <1>1, <1>4 DEF ListsFaithful, n, c
  <2> HIDE DEF N
  <2> QED BY <1>2, <2>1, OneListSuffices
<1>5. ASSUME "graph" \in DOMAIN a.lists
      PROVE  /\ Ids(a.lists["graph"]) \subseteq L
             /\ \/ Ids(a.lists["graph"]) = L
                \/ TopK <= Cardinality(Ids(a.lists["graph"]))
                \/ /\ Seeds < Least(TopK, Cardinality(M))
                   /\ Seeds <= Cardinality(Ids(a.lists["graph"]))
  <2>1. GraphLists(a.lists["graph"], db, links, c, n)
    BY <1>1, <1>5 DEF ListsFaithful, n, c
  <2>2. IsListing(a.lists["graph"])
    BY <1>1, <1>5 DEF IsLists
  <2> QED BY <1>2, <2>1, <2>2, GraphListSuffices DEF AskTypes
<1>6. M \subseteq L
  BY DEF LinkedOf
<1> HIDE DEF M, N, L
<1>7. CASE a.mode = "lexical"
  <2>1. U = Ids(a.lists["lexical"]) /\ F = M
    BY <1>1, <1>7 DEF InAny, FoundOf, M, c
  <2> HIDE DEF U, F
  <2>2. U \subseteq F /\ (U = F \/ TopK <= Cardinality(U))
    BY <1>1, <1>3, <1>7, <2>1
  <2> QED BY <2>2 DEF Suffices, U, F
<1>8. CASE a.mode = "semantic"
  <2>1. U = Ids(a.lists["semantic"]) /\ F = N
    BY <1>1, <1>8 DEF InAny, FoundOf, N, c
  <2> HIDE DEF U, F
  <2>2. U \subseteq F /\ (U = F \/ TopK <= Cardinality(U))
    BY <1>1, <1>4, <1>8, <2>1
  <2> QED BY <2>2 DEF Suffices, U, F
<1>9. CASE a.mode = "graph"
  <2>1. U = Ids(a.lists["graph"]) /\ F = L
    BY <1>1, <1>9 DEF InAny, FoundOf, L, c
  <2> HIDE DEF U, F
  <2>2. /\ U \subseteq F
        /\ U = F \/ TopK <= Cardinality(U)
             \/ (Seeds < Least(TopK, Cardinality(M)) /\ Seeds <= Cardinality(U))
    BY <1>1, <1>5, <1>9, <2>1
  <2> QED BY <1>9, <2>2 DEF Suffices, U, F, M, c
<1>10. CASE a.mode = "hybrid"
  <2> DEFINE A == Ids(a.lists["lexical"])
             B == Ids(a.lists["semantic"])
             C == Ids(a.lists["graph"])
  <2>1. DOMAIN a.lists = {"lexical", "semantic", "graph"}
    BY <1>1, <1>10 DEF Methods
  <2>2. U = A \cup B \cup C /\ F = L \cup N
    BY <1>10, <2>1 DEF InAny, FoundOf, L, N, c
  <2>3. IsFiniteSet(U)
    <3>1. IsListing(a.lists["lexical"]) /\ IsListing(a.lists["semantic"]) /\ IsListing(a.lists["graph"])
      BY <1>1, <2>1 DEF IsLists
    <3>2. IsFiniteSet(A) /\ IsFiniteSet(B) /\ IsFiniteSet(C)
      BY <3>1, IdsOfListing
    <3> HIDE DEF A, B, C, U
    <3>3. IsFiniteSet(A \cup B)
      BY <3>2, FS_Union
    <3> QED BY <2>2, <3>2, <3>3, FS_Union
  <2>4. /\ A \subseteq M /\ (A = M \/ TopK <= Cardinality(A))
        /\ B \subseteq N /\ (B = N \/ TopK <= Cardinality(B))
        /\ C \subseteq L
        /\ C = L \/ TopK <= Cardinality(C)
             \/ (Seeds < Least(TopK, Cardinality(M)) /\ Seeds <= Cardinality(C))
    BY <1>3, <1>4, <1>5, <2>1
  <2> HIDE DEF A, B, C, U, F
  <2>5. TopK \in Nat /\ Seeds \in Nat
    BY ListsAreWide
  <2>6. /\ Cardinality(A) <= Cardinality(U) /\ Cardinality(A) \in Nat
        /\ Cardinality(B) <= Cardinality(U) /\ Cardinality(B) \in Nat
        /\ Cardinality(C) <= Cardinality(U) /\ Cardinality(C) \in Nat
        /\ Cardinality(U) \in Nat
    BY <2>2, <2>3, FS_Subset, FS_CardinalityType
  <2>7. U \subseteq F
    BY <1>6, <2>2, <2>4
  <2>8. \/ U = F
        \/ TopK <= Cardinality(U)
        \/ Seeds < Least(TopK, Cardinality(M)) /\ Seeds <= Cardinality(U)
    <3>1. CASE B = N /\ C = L
      BY <1>6, <2>2, <2>4, <3>1
    <3>2. CASE TopK <= Cardinality(B) \/ TopK <= Cardinality(C)
      BY <2>5, <2>6, <3>2
    <3>3. CASE Seeds < Least(TopK, Cardinality(M)) /\ Seeds <= Cardinality(C)
      BY <2>5, <2>6, <3>3
    <3> QED BY <2>4, <3>1, <3>2, <3>3
  <2> QED BY <1>10, <2>7, <2>8 DEF Suffices, U, F, M, c
<1> QED BY <1>1, <1>7, <1>8, <1>9, <1>10

\* The lists are fused.
LEMMA AnswerKeeps ==
  ASSUME AskTypes, AskInv, Answer
  PROVE  AskInv'
<1> DEFINE U == InAny(ask.lists)
           answer == Fuse(ask.lists, TopK)
<1>1. /\ db' = db /\ links' = links /\ quiet' = quiet /\ ask.stage = "fuse"
      /\ ask' = [ask EXCEPT !.stage = "answered", !.answer = answer, !.lists = NoLists]
  BY DEF Answer, store
<1>2. AskShape(ask) /\ (quiet => AskFaithful(db, links, ask))
  BY DEF AskInv, AskOK
<1>3. TopK \in Nat /\ IsLists(ask.lists)
  BY <1>2, ListsAreWide DEF AskShape
<1>4. Takes(answer, U, TopK)
  BY <1>3, FuseTakes
<1> HIDE DEF answer
<1>5. /\ IsAsk(ask') /\ ask'.stage = "answered" /\ ask'.answer = answer /\ ask'.mode = ask.mode
      /\ ask'.cluster = ask.cluster /\ ask'.seeds = ask.seeds /\ ask'.lists = NoLists
  BY <1>1, <1>2 DEF AskShape, IsAsk
<1>6. IsLists(ask'.lists) /\ DOMAIN ask'.lists = {}
  BY <1>5, NoneListed
<1>7. AskShape(ask')
  <2>1. Cardinality(Ids(answer)) = Len(answer) /\ Len(answer) <= TopK
    <3> HIDE DEF U
    <3> QED BY <1>3, <1>4, TakesAll DEF Takes
  <2> QED BY <1>2, <1>5, <1>6, <2>1 DEF AskShape, AskStages
<1>8. quiet => AskFaithful(db, links, ask')
  <2> SUFFICES ASSUME quiet PROVE AskFaithful(db, links, ask')
    OBVIOUS
  <2>1. Suffices(U, db, links, ask.mode, ask.cluster)
    BY <1>1, <1>2, ListsSuffice
  <2>2. IsExact(answer, db, links, ask.mode, ask.cluster)
    <3> HIDE DEF U
    <3> QED BY <1>4, <2>1, SufficesForAnswer DEF AskTypes
  <2> QED BY <1>5, <1>6, <2>2 DEF AskFaithful, ListsFaithful
<1> QED BY <1>1, <1>7, <1>8 DEF AskInv, AskOK

\* What association reaches is of the rows it is asked about.
LEMMA ReachesRows ==
  ASSUME NEW ids, NEW from \in SUBSET ids, NEW xs, IsFiniteSet(xs), \A x \in xs : x.to \in ids
  PROVE  Reached(from, xs) \in SUBSET ids
<1> DEFINE n == Cardinality(xs)
           X == SUBSET ids
           Hop(S) == S \cup {x.to : x \in {y \in xs : y.from \in S}}
           F == [p \in (1..n) \X X |-> Hop(p[2])]
           IsAfter(g) == g = [i \in 0..n |-> IF i = 0 THEN from ELSE Hop(g[i - 1])]
           after == CHOOSE g : IsAfter(g)
<1>1. Reached(from, xs) = after[n]
  BY DEF Reached
<1>2. n \in Nat
  BY FS_CardinalityType
<1>3. \A S \in X : Hop(S) \in X
  OBVIOUS
<1> HIDE DEF Hop, n
<1>4. F \in [(1..n) \X X -> X]
  BY <1>3
<1>5. PICK g \in [0..n -> X] : g[0] = from /\ \A i \in 1..n : g[i] = F[<<i, g[i - 1]>>]
  <2> HIDE DEF F, X
  <2>1. from \in X
    BY DEF X
  <2>2. \E g \in [0..n -> X] : Leading(n, from, F, g)
    BY <1>2, <1>4, <2>1, StepsLead
  <2> QED BY <2>2 DEF Leading
<1>6. ASSUME NEW i \in 0..n, i # 0 PROVE g[i] = Hop(g[i - 1])
  <2>1. i \in 1..n /\ i - 1 \in 0..n
    BY <1>2, <1>6
  <2>2. g[i - 1] \in X
    BY <2>1
  <2>3. <<i, g[i - 1]>> \in (1..n) \X X /\ <<i, g[i - 1]>>[2] = g[i - 1]
    BY <2>1, <2>2
  <2> HIDE DEF X
  <2> QED BY <1>5, <2>1, <2>3
<1>7. IsAfter(g)
  BY <1>5, <1>6
<1>8. IsAfter(after)
  <2> HIDE DEF IsAfter
  <2> QED BY <1>7
<1> HIDE DEF after
<1>9. after[0] = from /\ \A i \in 1..n : after[i] = Hop(after[i - 1])
  BY <1>2, <1>8
<1> DEFINE In == {i \in 0..n : after[i] \in X}
<1>10. 0 \in In
  BY <1>2, <1>9
<1>11. ASSUME NEW i \in 0..(n - 1), i \in In PROVE i + 1 \in In
  <2>1. i + 1 \in 1..n /\ i + 1 \in 0..n /\ (i + 1) - 1 = i
    BY <1>2, <1>11
  <2>2. after[i + 1] = Hop(after[i])
    BY <1>9, <2>1
  <2> QED BY <1>3, <1>11, <2>1, <2>2
<1>12. \A i \in 0..n : i \in In
  <2> HIDE DEF In
  <2> QED BY <1>2, <1>10, <1>11, CountingUp
<1>13. n \in 0..n
  BY <1>2
<1> QED BY <1>1, <1>12, <1>13

\* No more rows are listed than have been chosen.
LEMMA ChosenAreListed ==
  ASSUME NEW window, SomeRows(window), NEW top \in SUBSET IdsOf(window),
         NEW k \in Nat, Cardinality(top) <= k
  PROVE  LET list == SetToSeq({[id |-> r.id, at |-> r.at] : r \in {s \in window : s.id \in top}})
         IN  Cardinality(Ids(list)) = Len(list) /\ Len(list) <= k
<1> DEFINE R == {s \in window : s.id \in top}
           f == [r \in R |-> [id |-> r.id, at |-> r.at]]
           S == {f[r] : r \in R}
           list == SetToSeq(S)
           n == Cardinality(S)
<1>1. SomeRows(R)
  BY FewerRows
<1>2. IsFiniteSet(R) /\ Distinct(R)
  BY <1>1 DEF SomeRows
<1>3. S = {[id |-> r.id, at |-> r.at] : r \in R}
  OBVIOUS
<1>4. \A r \in R : f[r].id = r.id /\ r.id \in top
  OBVIOUS
<1> HIDE DEF f, R
<1>5. IsFiniteSet(S)
  BY <1>2, ImageIsFinite
<1>6. Distinct(S)
  BY <1>2, <1>4 DEF Distinct
<1>7. IdsOf(S) \subseteq top
  BY <1>4 DEF IdsOf
<1> HIDE DEF S
<1>8. /\ list \in Seq(S) /\ IsInjective(list) /\ Len(list) = n /\ ToSet(list) = S
      /\ n \in Nat
  BY <1>5, ListsEachOnce, FS_CardinalityType
<1> HIDE DEF list
<1>9. Selects(list, S, n)
  BY <1>8 DEF Selects, Least
<1>10. Cardinality(Ids(list)) = Len(list)
  <2> HIDE DEF n
  <2>1. n \in Nat
    BY <1>8
  <2>2. Takes(list, IdsOf(S), n)
    BY <1>5, <1>6, <1>9, <2>1, SelectedTakes
  <2> QED BY <2>2 DEF Takes
<1>11. IsFiniteSet(top) /\ Cardinality(top) \in Nat
  <2>1. IsFiniteSet(IdsOf(window))
    BY IdsCount DEF SomeRows
  <2> QED BY <2>1, FS_Subset, FS_CardinalityType
<1>12. n <= Cardinality(top)
  <2>1. Cardinality(IdsOf(S)) = n
    BY <1>5, <1>6, IdsCount
  <2> HIDE DEF n
  <2> QED BY <1>7, <1>11, <2>1, FS_Subset
<1>13. Len(list) <= k
  BY <1>8, <1>11, <1>12
<1> QED BY <1>3, <1>10, <1>13 DEF list, R

\* Association reads its rows, or has nothing to start from.
LEMMA NodesKeep ==
  ASSUME AskTypes, AskInv, Nodes
  PROVE  AskInv'
<1>1. db' = db /\ links' = links /\ quiet' = quiet /\ ask.stage = "nodes"
  BY DEF Nodes, store
<1>2. AskShape(ask) /\ (quiet => AskFaithful(db, links, ask))
  BY DEF AskInv, AskOK
<1>3. /\ IsAsk(ask) /\ IsLists(ask.lists) /\ ask.seeds \in BOOLEAN /\ ask.answer = <<>>
      /\ ask.mode = "ppr" /\ DOMAIN ask.lists \subseteq {"lexical", "semantic"}
  BY <1>1, <1>2 DEF AskShape, AskStages
<1>4. CASE SeedIds = {}
  <2>1. ask' = [ask EXCEPT !.stage = "answered", !.lists = NoLists]
    BY <1>4 DEF Nodes
  <2>2. /\ IsAsk(ask') /\ ask'.stage = "answered" /\ ask'.answer = <<>> /\ ask'.mode = "ppr"
        /\ ask'.cluster = ask.cluster /\ ask'.seeds = ask.seeds /\ ask'.lists = NoLists
    BY <1>3, <2>1 DEF IsAsk
  <2>3. IsLists(ask'.lists) /\ DOMAIN ask'.lists = {}
    BY <2>2, NoneListed
  <2>4. Cardinality(Ids(<<>>)) = Len(<<>>) /\ Len(<<>>) <= TopK
    <3>1. TopK \in Nat /\ 0 <= TopK
      BY LimitsAssumption
    <3>2. Ids(<<>>) = {} /\ Cardinality({}) = 0 /\ Len(<<>>) = 0
      BY NoneListed
    <3> QED BY <3>1, <3>2
  <2>5. AskShape(ask')
    BY <1>3, <2>2, <2>3, <2>4 DEF AskShape, AskStages
  <2>6. AskFaithful(db, links, ask')
    BY <2>2, <2>3 DEF AskFaithful, ListsFaithful
  <2> QED BY <1>1, <2>5, <2>6 DEF AskInv, AskOK
<1>5. CASE SeedIds # {}
  <2> DEFINE W == Window(RowsOf(db, ask.cluster))
  <2>1. ask' = [ask EXCEPT !.stage = "rank", !.window = W]
    BY <1>5, AsThereIs DEF Nodes
  <2>2. SomeRows(W)
    BY FoundIsFinite DEF AskTypes
  <2> HIDE DEF W
  <2>3. /\ IsAsk(ask') /\ ask'.stage = "rank" /\ ask'.answer = <<>> /\ ask'.mode = "ppr"
        /\ ask'.cluster = ask.cluster /\ ask'.seeds = ask.seeds /\ ask'.lists = ask.lists
        /\ ask'.window = W
    BY <1>3, <2>1 DEF IsAsk
  <2>4. AskShape(ask')
    BY <1>3, <2>2, <2>3 DEF AskShape, AskStages
  <2>5. quiet => AskFaithful(db, links, ask')
    BY <1>2, <1>3, <2>3 DEF AskFaithful, ListsFaithful
  <2> QED BY <1>1, <2>4, <2>5 DEF AskInv, AskOK
<1> QED BY <1>4, <1>5

\* Association answers, or leaves it to lexical search.
LEMMA RankKeeps ==
  ASSUME AskTypes, AskInv, Rank
  PROVE  AskInv'
<1> DEFINE W == ask.window
           near == AmongOf(links, Ids(SetToSeq(W)))
           found == Associated(SeedIds, near, W)
<1>1. /\ db' = db /\ links' = links /\ quiet' = quiet /\ ask.stage = "rank"
      /\ \/ ask' = [ask EXCEPT !.stage = "candidates", !.mode = "lexical",
                               !.seeds = FALSE, !.window = {}, !.lists = NoLists]
         \/ \E top \in kSubset(Least(TopK, Cardinality(found)), found) :
              ask' = [ask EXCEPT
                !.stage = "answered", !.lists = NoLists, !.window = {},
                !.answer = SetToSeq({[id |-> r.id, at |-> r.at] :
                                     r \in {s \in W : s.id \in top}})]
  BY AsThereIs DEF Rank, store
<1>2. AskShape(ask)
  BY DEF AskInv, AskOK
<1>3. /\ IsAsk(ask) /\ SomeRows(W) /\ ask.seeds \in BOOLEAN /\ ask.answer = <<>>
      /\ ask.mode = "ppr"
  BY <1>1, <1>2 DEF AskShape, AskStages
<1>4. found \in SUBSET IdsOf(W) /\ IsFiniteSet(IdsOf(W))
  <2> DEFINE ids == IdsOf(W)
             xs == {x \in near : {x.from, x.to} \subseteq ids}
  <2>1. IsFiniteSet(near)
    BY AmongIsFinite DEF AskTypes
  <2>2. found = Reached(SeedIds \cap ids, xs)
    BY DEF Associated, IdsOf
  <2> HIDE DEF ids, near, found
  <2>3. IsFiniteSet(xs) /\ \A x \in xs : x.to \in ids
    BY <2>1, FS_Subset
  <2>4. SeedIds \cap ids \in SUBSET ids
    OBVIOUS
  <2> HIDE DEF xs
  <2>5. found \in SUBSET ids
    BY <2>2, <2>3, <2>4, ReachesRows
  <2>6. IsFiniteSet(ids)
    BY <1>3, IdsCount DEF SomeRows, ids
  <2> QED BY <2>5, <2>6 DEF ids
<1> HIDE DEF found, near, W
<1>5. CASE ask' = [ask EXCEPT !.stage = "candidates", !.mode = "lexical",
                              !.seeds = FALSE, !.window = {}, !.lists = NoLists]
  <2>1. /\ IsAsk(ask') /\ ask'.seeds = FALSE /\ ask'.mode = "lexical"
        /\ ask'.lists = NoLists /\ ask'.answer = <<>> /\ ask'.stage = "candidates"
    BY <1>3, <1>5 DEF IsAsk
  <2>2. AskStages(ask') /\ ask'.seeds \in BOOLEAN
    BY <2>1, NoneListed DEF AskStages
  <2> QED BY <2>1, <2>2, NothingAsked DEF AskInv
<1>6. ASSUME NEW top \in kSubset(Least(TopK, Cardinality(found)), found),
             ask' = [ask EXCEPT
                !.stage = "answered", !.lists = NoLists, !.window = {},
                !.answer = SetToSeq({[id |-> r.id, at |-> r.at] :
                                     r \in {s \in W : s.id \in top}})]
      PROVE  AskInv'
  <2> DEFINE list == SetToSeq({[id |-> r.id, at |-> r.at] : r \in {s \in W : s.id \in top}})
  <2>1. top \in SUBSET found /\ Cardinality(top) = Least(TopK, Cardinality(found))
    BY DEF kSubset
  <2>2. Cardinality(found) \in Nat /\ TopK \in Nat
    BY <1>4, FS_Subset, FS_CardinalityType, ListsAreWide
  <2>3. top \in SUBSET IdsOf(W) /\ Cardinality(top) <= TopK
    BY <1>4, <2>1, <2>2 DEF Least
  <2>4. Cardinality(Ids(list)) = Len(list) /\ Len(list) <= TopK
    BY <1>3, <2>2, <2>3, ChosenAreListed
  <2>5. ask' = [ask EXCEPT !.stage = "answered", !.lists = NoLists, !.window = {},
                           !.answer = list]
    BY <1>6
  <2> HIDE DEF list
  <2>6. /\ IsAsk(ask') /\ ask'.stage = "answered" /\ ask'.answer = list /\ ask'.mode = "ppr"
        /\ ask'.seeds = ask.seeds /\ ask'.lists = NoLists
    BY <1>3, <2>5 DEF IsAsk
  <2>7. IsLists(ask'.lists) /\ DOMAIN ask'.lists = {}
    BY <2>6, NoneListed
  <2>8. AskShape(ask')
    BY <1>3, <2>4, <2>6, <2>7 DEF AskShape, AskStages
  <2>9. AskFaithful(db, links, ask')
    BY <2>6, <2>7 DEF AskFaithful, ListsFaithful
  <2> QED BY <1>1, <2>8, <2>9 DEF AskInv, AskOK
<1> QED BY <1>1, <1>5, <1>6

\* What others write is no part of an answer under way.
LEMMA WritesKeepAsk ==
  ASSUME AskInv, UNCHANGED ask,
         quiet' = FALSE \/ UNCHANGED <<db, links, quiet>>
  PROVE  AskInv'
BY DEF AskInv, AskOK

\* Every step keeps AskInv.
LEMMA AskStep == AskTypes /\ AskInv /\ [CacheNext]_cacheVars => AskInv'
<1> SUFFICES ASSUME AskTypes, AskInv, [CacheNext]_cacheVars PROVE AskInv'
  OBVIOUS
<1>1. CASE Write
  <2>1. UNCHANGED ask /\ (quiet' = FALSE \/ UNCHANGED <<db, links, quiet>>)
    BY <1>1 DEF Write, Stamp, Commit, RemoveEdge, DeleteEntity
  <2> QED BY <2>1, WritesKeepAsk
<1>2. CASE TimesOut \/ RefreshFails \/ UNCHANGED cacheVars
  <2>1. UNCHANGED <<ask, db, links, quiet>>
    BY <1>2 DEF TimesOut, RefreshFails, cacheVars, store
  <2> QED BY <2>1, WritesKeepAsk
<1>3. CASE Refresh
  <2>1. UNCHANGED <<ask, db, links, quiet>>
    BY <1>3 DEF Refresh, CountEntities, CountEdges, NewestEntity, NewestEdge, AllEntities,
                FullRebuild, ChangedEntities, IncrementalSync, store
  <2> QED BY <2>1, WritesKeepAsk
<1>4. CASE Asks
  BY <1>4, AskKeeps DEF Asks
<1>5. CASE Search
  BY <1>5, CandidatesKeep, ConnectionsKeep, VectorsKeep, EdgesOfSeedsKeep, EntityMapKeeps,
     AnswerKeeps, NodesKeep, RankKeeps DEF Search
<1>6. CASE ProviderFails
  BY <1>6, ProviderFailsKeeps
<1>7. CASE Close
  BY <1>7, NoAskKeeps DEF Close
<1> QED BY <1>1, <1>2, <1>3, <1>4, <1>5, <1>6, <1>7 DEF CacheNext

\* AskInv holds at the start.
LEMMA InitAskInv == CacheInit => AskInv
<1> SUFFICES ASSUME CacheInit PROVE AskInv
  OBVIOUS
<1>1. ask = NoAsk
  BY DEF CacheInit
<1>2. /\ IsAsk(ask) /\ ask.seeds \in BOOLEAN /\ AskStages(ask) /\ ask.stage = "none"
      /\ ask.lists = NoLists /\ ask.answer = <<>>
  BY <1>1 DEF NoAsk, IsAsk, AskStages
<1> QED BY <1>2, NothingAsked DEF AskInv

\* For any rows, scores, limits and number of writers: an answer lists no row
\* twice and no more than were asked for; if nothing was committed since the search
\* began, it lists only what there is to find, and all of it or as many as were asked
\* for, but for graph search that starts from fewer seeds than there are matches.
THEOREM AnswersStayExact == CacheSpec => []AnswersAreExact
<1>1. CacheSpec => []CacheInv
  BY InitCacheInv, CacheStep, PTL DEF CacheSpec
<1>2. CacheInv => AskTypes
  BY DEF CacheInv, CacheTypes, CacheTypeOK, AskTypes, Databases, LinkSets
<1>3. CacheSpec => []AskInv
  BY <1>1, <1>2, InitAskInv, AskStep, PTL DEF CacheSpec
<1> QED BY <1>3, AskInvSuffices, PTL
=============================================================================
