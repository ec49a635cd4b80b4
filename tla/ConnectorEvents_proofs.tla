----------------------- MODULE ConnectorEvents_proofs -----------------------
(***************************************************************************)
(* Proofs about webhooks, polls and syncs, for any number of items, tasks, *)
(* versions and failures.                                                  *)
(***************************************************************************)
EXTENDS ConnectorEvents, SequenceTheorems, TLAPS

USE ConnectorAssumption, VendorAssumption

-----------------------------------------------------------------------------
(* The inductive invariant.                                                *)

\* What a sync has fetched: items with their versions.
Fetched == UNION {[D -> 1..MaxVersion] : D \in SUBSET Items}

Runs == [stage : {"idle", "fetch", "poll"}, vendor : Vendors \cup {None}, permit : BOOLEAN,
         lives : BOOLEAN, want : SUBSET Items, got : Fetched]

\* The shapes of the state, but for the tasks.
Types ==
  /\ version \in [Items -> 0..MaxVersion]
  /\ states \in [Vendors -> Seq({"connected", "reauth_required"})]
  /\ rows \subseteq {ExternalId(e) : e \in Event}
  /\ brain \in [Items -> 0..MaxVersion]
  /\ todo \in [Cycles -> SUBSET Vendors]
  /\ faults \in 0..MaxFaults
  /\ acked \subseteq Event /\ cut \subseteq Event
  /\ reached \in [Items -> 0..MaxVersion] /\ stamped \in [Items -> 0..MaxVersion]
  /\ given \in [Event -> Nat]

\* A task: what it wants and has is of its vendor, and one that is about to
\* poll has brought the brain all it has fetched.
TaskInv(r) ==
  /\ r \in Runs
  /\ r.stage = "idle" => r = Idle
  /\ r.stage # "idle" => /\ r.vendor \in Vendors
                         /\ r.want \subseteq ItemsOf(r.vendor)
                         /\ DOMAIN r.got \subseteq ItemsOf(r.vendor)
                         /\ r.want \cap DOMAIN r.got = {}
  /\ r.stage = "poll" => /\ r.vendor = "polled" /\ r.want = {}
                         /\ \A i \in DOMAIN r.got : reached[i] >= r.got[i]

TasksInv == DOMAIN run = Tasks /\ \A t \in Tasks : TaskInv(run[t])

\* An event was given to the brain only with its row, and a webhook's row
\* tells that its item has come so far, unless the delivery was cut.
RowInv ==
  /\ \A e \in Event : given[e] <= 1 /\ (given[e] = 1 => ExternalId(e) \in rows)
  /\ \A e \in Event : e.item \in Issues /\ ExternalId(e) \in rows =>
       reached[e.item] >= e.version \/ e \in cut
  /\ AckedMeansApplied

EventInv == Types /\ TasksInv /\ RowInv /\ StampCoversItems

\* The invariant says what the properties say.
LEMMA EventInvSuffices == EventInv => EventsApplyOnce /\ StampCoversItems
<1> SUFFICES ASSUME EventInv PROVE EventsApplyOnce
  BY DEF EventInv
<1>1. TypeOK
  BY DEF EventInv, Types, TasksInv, TaskInv, TypeOK, Runs
<1> QED BY <1>1 DEF EventInv, RowInv, EventsApplyOnce, AppliedAtMostOnce

\* A task that does nothing is as its type says.
LEMMA IdleIsIdle == Idle \in Runs /\ Idle.stage = "idle" /\ Idle.vendor = None
<1>1. <<>> \in [{} -> 1..MaxVersion]
  OBVIOUS
<1>2. <<>> \in Fetched
  BY <1>1 DEF Fetched
<1> QED BY <1>2 DEF Idle, Runs

\* The initial state satisfies the invariant.
LEMMA InitEventInv == Init => EventInv
<1> SUFFICES ASSUME Init PROVE EventInv
  OBVIOUS
<1>1. Types
  BY DEF Init, Types
<1>2. TasksInv
  BY IdleIsIdle DEF Init, TasksInv, TaskInv
<1>3. RowInv /\ StampCoversItems
  BY DEF Init, RowInv, AckedMeansApplied, StampCoversItems
<1> QED BY <1>1, <1>2, <1>3 DEF EventInv

-----------------------------------------------------------------------------
(* The brain.                                                              *)

\* What applying items to the brain writes: the newest version that each item
\* has had there is no older than before, nor than the one applied.
LEMMA ApplyWrites ==
  ASSUME Types, NEW newer, DOMAIN newer \subseteq Items,
         \A i \in DOMAIN newer : newer[i] \in 1..MaxVersion, Apply(newer)
  PROVE  /\ brain' \in [Items -> 0..MaxVersion] /\ reached' \in [Items -> 0..MaxVersion]
         /\ \A i \in Items : reached'[i] >= reached[i]
         /\ \A i \in DOMAIN newer : reached'[i] >= newer[i]
BY DEF Types, Apply, Newer

\* Rows and versions that only grow keep what the invariant says of them.
LEMMA TasksSurvive ==
  ASSUME Types, Types', NEW r, TaskInv(r), \A i \in Items : reached'[i] >= reached[i]
  PROVE  TaskInv(r)'
<1>1. \A i \in DOMAIN r.got : i \in Items /\ r.got[i] \in Int
  BY DEF TaskInv, Runs, Fetched
<1> QED BY <1>1 DEF TaskInv, Types

\* External ids tell the events of webhooks apart.
LEMMA ExternalIds ==
  \A d, e \in Event : e.item \in Issues /\ ExternalId(d) = ExternalId(e) => d = e
<1> SUFFICES ASSUME NEW d \in Event, NEW e \in Event, e.item \in Issues,
                    ExternalId(d) = ExternalId(e)
             PROVE  d = e
  OBVIOUS
<1>1. e.item \notin Pages /\ ExternalId(e) = <<e.item, e.version>>
  BY DEF ExternalId
<1>2. d.item \notin Pages
  BY <1>1 DEF ExternalId
<1>3. d.item = e.item /\ d.version = e.version
  BY <1>1, <1>2 DEF ExternalId
<1> QED BY <1>3 DEF Event

\* What applying the new events of a batch writes, when it has one at most of
\* each item.
LEMMA ApplyNewWrites ==
  ASSUME Types, NEW B \in SUBSET Event, ApplyNew(B),
         \A d, e \in B : d.item = e.item => d = e
  PROVE  /\ brain' \in [Items -> 0..MaxVersion] /\ reached' \in [Items -> 0..MaxVersion]
         /\ \A i \in Items : reached'[i] >= reached[i]
         /\ \A e \in NewOf(B) : reached'[e.item] >= e.version
         /\ given' = [e \in Event |-> given[e] + (IF e \in NewOf(B) THEN 1 ELSE 0)]
<1> DEFINE newer == [i \in {e.item : e \in NewOf(B)} |->
                       (CHOOSE e \in NewOf(B) : e.item = i).version]
<1>1. NewOf(B) \subseteq Event /\ \A d, e \in NewOf(B) : d.item = e.item => d = e
  BY DEF NewOf
<1>2. ASSUME NEW e \in NewOf(B)
      PROVE  e.item \in DOMAIN newer /\ newer[e.item] = e.version
  <2>1. (CHOOSE d \in NewOf(B) : d.item = e.item) = e
    BY <1>1
  <2> QED BY <2>1
<1>3. DOMAIN newer \subseteq Items /\ \A i \in DOMAIN newer : newer[i] \in 1..MaxVersion
  <2>1. ASSUME NEW i \in DOMAIN newer PROVE i \in Items /\ newer[i] \in 1..MaxVersion
    <3>1. PICK e \in NewOf(B) : e.item = i
      OBVIOUS
    <3> QED BY <1>1, <1>2, <3>1 DEF Event
  <2> QED BY <2>1
<1>4. Apply(newer) /\ given' = [e \in Event |-> given[e] + (IF e \in NewOf(B) THEN 1 ELSE 0)]
  BY DEF ApplyNew
<1> HIDE DEF newer
<1> QED BY <1>2, <1>3, <1>4, ApplyWrites

-----------------------------------------------------------------------------
(* Batches.                                                                *)

\* A batch whose new events are applied keeps what rows stand for; what is
\* acknowledged of a webhook has a row.
LEMMA BatchApplied ==
  ASSUME EventInv, NEW B \in SUBSET Event, \A d, e \in B : d.item = e.item => d = e,
         Persist(B), ApplyNew(B), cut' = cut,
         acked' \subseteq acked \cup {e \in B : e.item \in Issues}
  PROVE  /\ rows' \subseteq {ExternalId(e) : e \in Event}
         /\ given' \in [Event -> Nat]
         /\ RowInv'
<1> USE DEF EventInv
<1>1. /\ \A i \in Items : reached'[i] >= reached[i] /\ reached[i] \in Int /\ reached'[i] \in Int
      /\ \A e \in NewOf(B) : reached'[e.item] >= e.version
      /\ given' = [e \in Event |-> given[e] + (IF e \in NewOf(B) THEN 1 ELSE 0)]
  BY ApplyNewWrites DEF Types
<1>2. /\ NewOf(B) \subseteq Event /\ rows' = rows \cup {ExternalId(e) : e \in NewOf(B)}
      /\ \A e \in NewOf(B) : ExternalId(e) \notin rows
      /\ \A e \in B : e \in NewOf(B) \/ ExternalId(e) \in rows
  BY DEF NewOf, Persist
<1>3. rows' \subseteq {ExternalId(e) : e \in Event} /\ given' \in [Event -> Nat]
  BY <1>1, <1>2 DEF Types
<1>4. ASSUME NEW e \in Event
      PROVE  given'[e] <= 1 /\ (given'[e] = 1 => ExternalId(e) \in rows')
  <2>1. CASE e \in NewOf(B)
    <3>1. given[e] = 0
      BY <1>2, <2>1 DEF RowInv, Types
    <3> QED BY <1>1, <1>2, <2>1, <3>1
  <2>2. CASE e \notin NewOf(B)
    BY <1>1, <1>2, <2>2 DEF RowInv, Types
  <2> QED BY <2>1, <2>2
<1>5. ASSUME NEW e \in Event, e.item \in Issues, ExternalId(e) \in rows'
      PROVE  reached'[e.item] >= e.version \/ e \in cut'
  <2>1. CASE ExternalId(e) \in rows
    BY <1>1, <1>5, <2>1 DEF RowInv, Event
  <2>2. CASE ExternalId(e) \notin rows
    <3>1. PICK d \in NewOf(B) : ExternalId(d) = ExternalId(e)
      BY <1>2, <1>5, <2>2
    <3>2. d = e
      BY <1>2, <1>5, <3>1, ExternalIds
    <3> QED BY <1>1, <3>1, <3>2
  <2> QED BY <2>1, <2>2
<1>6. ASSUME NEW e \in acked' PROVE reached'[e.item] >= e.version \/ e \in cut'
  <2>1. CASE e \in acked
    <3>1. e \in Event /\ (reached[e.item] >= e.version \/ e \in cut)
      BY <2>1 DEF RowInv, AckedMeansApplied, Types
    <3> QED BY <1>1, <3>1 DEF Event
  <2>2. CASE e \in B /\ e.item \in Issues
    BY <1>2, <1>5, <2>2
  <2> QED BY <1>6, <2>1, <2>2
<1> QED BY <1>3, <1>4, <1>5, <1>6 DEF RowInv, AckedMeansApplied

\* A batch that is cut keeps it too: its webhooks are known to be cut.
LEMMA BatchCut ==
  ASSUME EventInv, NEW B \in SUBSET Event, Persist(B), CutAfterPersist(B),
         cut \subseteq cut', \A e \in B : e.item \in Issues => e \in cut', acked' = acked
  PROVE  rows' \subseteq {ExternalId(e) : e \in Event} /\ RowInv'
<1> USE DEF EventInv
<1>1. /\ given' = given /\ reached' = reached
      /\ NewOf(B) \subseteq B /\ rows' = rows \cup {ExternalId(e) : e \in NewOf(B)}
  BY DEF NewOf, Persist, CutAfterPersist
<1>2. rows' \subseteq {ExternalId(e) : e \in Event}
  BY <1>1 DEF Types
<1>3. \A e \in Event : given'[e] <= 1 /\ (given'[e] = 1 => ExternalId(e) \in rows')
  BY <1>1 DEF RowInv
<1>4. ASSUME NEW e \in Event, e.item \in Issues, ExternalId(e) \in rows'
      PROVE  reached'[e.item] >= e.version \/ e \in cut'
  <2>1. CASE ExternalId(e) \in rows
    BY <1>1, <1>4, <2>1 DEF RowInv
  <2>2. CASE ExternalId(e) \notin rows
    <3>1. PICK d \in NewOf(B) : ExternalId(d) = ExternalId(e)
      BY <1>1, <1>4, <2>2
    <3>2. d = e
      BY <1>1, <1>4, <3>1, ExternalIds
    <3> QED BY <1>1, <3>1, <3>2, <1>4
  <2> QED BY <2>1, <2>2
<1>5. AckedMeansApplied'
  BY <1>1 DEF RowInv, AckedMeansApplied
<1> QED BY <1>2, <1>3, <1>4, <1>5 DEF RowInv

\* post_<vendor>_webhook
LEMMA WebhookKeeps == ASSUME EventInv, NEW e \in Event, Webhook(e) PROVE EventInv'
<1> USE DEF EventInv
<1>1. UNCHANGED <<version, states, run, todo, stamped>> /\ Persist({e}) /\ e.item \in Issues
  BY DEF Webhook, Sent, taskVars
<1>2. CASE ApplyNew({e}) /\ acked' = acked \cup {e} /\ UNCHANGED <<cut, faults>>
  <2>1. /\ rows' \subseteq {ExternalId(d) : d \in Event}
        /\ given' \in [Event -> Nat]
        /\ RowInv'
    BY <1>1, <1>2, BatchApplied
  <2>2. /\ brain' \in [Items -> 0..MaxVersion] /\ reached' \in [Items -> 0..MaxVersion]
        /\ \A i \in Items : reached'[i] >= reached[i]
    BY <1>2, ApplyNewWrites
  <2>3. Types'
    BY <1>1, <1>2, <2>1, <2>2 DEF Types
  <2>4. TasksInv'
    BY <1>1, <2>2, <2>3, TasksSurvive DEF TasksInv
  <2>5. StampCoversItems'
    BY <1>1, <2>2, <2>3 DEF StampCoversItems, Types
  <2> QED BY <2>1, <2>3, <2>4, <2>5
<1>3. CASE CutAfterPersist({e}) /\ cut' = cut \cup {e} /\ UNCHANGED acked
  <2>1. rows' \subseteq {ExternalId(d) : d \in Event} /\ RowInv'
    BY <1>1, <1>3, BatchCut
  <2>2. UNCHANGED <<brain, given, reached>> /\ faults' \in 0..MaxFaults
    BY <1>3 DEF CutAfterPersist, Failure, Types
  <2>3. Types'
    BY <1>1, <1>3, <2>1, <2>2 DEF Types
  <2>4. TasksInv'
    BY <1>1, <2>2 DEF TasksInv, TaskInv
  <2>5. StampCoversItems'
    BY <1>1, <2>2 DEF StampCoversItems
  <2> QED BY <2>1, <2>3, <2>4, <2>5
<1> QED BY <1>2, <1>3 DEF Webhook

\* A poll has one event for each page.
LEMMA PolledEvents ==
  ASSUME Types
  PROVE  /\ Polled \subseteq Event
         /\ \A e \in Polled : e.item \in Pages
         /\ \A d, e \in Polled : d.item = e.item => d = e
<1>1. \A p \in Pages : version[p] > 0 => version[p] \in 1..MaxVersion
  BY DEF Types, Items
<1>2. Polled \subseteq Event
  BY <1>1 DEF Polled, Event, Items
<1> QED BY <1>2 DEF Polled

\* post_notion_poll
LEMMA PollKeeps == ASSUME EventInv, Poll PROVE EventInv'
<1> USE DEF EventInv
<1>1. UNCHANGED <<version, states, run, todo, acked, cut, stamped>> /\ Persist(Polled)
  BY DEF Poll, taskVars
<1>2. /\ Polled \in SUBSET Event
      /\ \A e \in Polled : e.item \notin Issues
      /\ \A d, e \in Polled : d.item = e.item => d = e
  BY PolledEvents
<1>3. CASE ApplyNew(Polled) /\ UNCHANGED faults
  <2>1. /\ rows' \subseteq {ExternalId(d) : d \in Event}
        /\ given' \in [Event -> Nat]
        /\ RowInv'
    BY <1>1, <1>2, <1>3, BatchApplied
  <2>2. /\ brain' \in [Items -> 0..MaxVersion] /\ reached' \in [Items -> 0..MaxVersion]
        /\ \A i \in Items : reached'[i] >= reached[i]
    BY <1>2, <1>3, ApplyNewWrites
  <2>3. Types'
    BY <1>1, <1>3, <2>1, <2>2 DEF Types
  <2>4. TasksInv'
    BY <1>1, <2>2, <2>3, TasksSurvive DEF TasksInv
  <2>5. StampCoversItems'
    BY <1>1, <2>2, <2>3 DEF StampCoversItems, Types
  <2> QED BY <2>1, <2>3, <2>4, <2>5
<1>4. CASE CutAfterPersist(Polled)
  <2>1. rows' \subseteq {ExternalId(d) : d \in Event} /\ RowInv'
    BY <1>1, <1>2, <1>4, BatchCut
  <2>2. UNCHANGED <<brain, given, reached>> /\ faults' \in 0..MaxFaults
    BY <1>4 DEF CutAfterPersist, Failure, Types
  <2>3. Types'
    BY <1>1, <2>1, <2>2 DEF Types
  <2>4. TasksInv'
    BY <1>1, <2>2 DEF TasksInv, TaskInv
  <2>5. StampCoversItems'
    BY <1>1, <2>2 DEF StampCoversItems
  <2> QED BY <2>1, <2>3, <2>4, <2>5
<1> QED BY <1>3, <1>4 DEF Poll

-----------------------------------------------------------------------------
(* Vendors, installation, and the process.                                 *)

\* A step that leaves alone what the events have done keeps what is said of
\* it.
LEMMA EventsUntouched ==
  ASSUME EventInv, Types', UNCHANGED <<rows, given, reached, acked, cut, stamped>>
  PROVE  RowInv' /\ StampCoversItems' /\ \A r : TaskInv(r) => TaskInv(r)'
BY DEF EventInv, RowInv, AckedMeansApplied, StampCoversItems, TaskInv

\* The vendors' own steps keep the invariant.
LEMMA EditKeeps == ASSUME EventInv, NEW i \in Items, Edit(i) PROVE EventInv'
<1>1. UNCHANGED <<states, rows, brain, run, todo, faults, acked, cut, given, reached, stamped>>
  BY DEF Edit, taskVars, histVars
<1>2. version' \in [Items -> 0..MaxVersion]
  <2>1. version[i] + 1 \in 0..MaxVersion /\ version' = [version EXCEPT ![i] = version[i] + 1]
    BY DEF Edit, EventInv, Types
  <2> QED BY <2>1 DEF EventInv, Types
<1>3. Types'
  BY <1>1, <1>2 DEF EventInv, Types
<1>4. TasksInv'
  BY <1>1, <1>3, EventsUntouched DEF EventInv, TasksInv
<1> QED BY <1>1, <1>3, <1>4, EventsUntouched DEF EventInv

\* An OAuth callback, a token's end and a disconnection.
LEMMA InstallationKeeps ==
  ASSUME EventInv, NEW v \in Vendors, Connect(v) \/ TokenExpires(v) \/ Disconnect(v)
  PROVE  EventInv'
<1> USE DEF EventInv
<1> DEFINE Status == {"connected", "reauth_required"}
<1>1. UNCHANGED <<version, rows, brain, todo, acked, cut, given, reached, stamped>>
  BY DEF Connect, TokenExpires, Disconnect, taskVars, histVars
<1>2. faults' \in 0..MaxFaults
  BY DEF Connect, TokenExpires, Disconnect, Failure, Types
<1>3. states' \in [Vendors -> Seq(Status)]
  <2>1. states \in [Vendors -> Seq(Status)]
    BY DEF Types
  <2>2. CASE Connect(v)
    <3>1. Append(states[v], "connected") \in Seq(Status)
      BY <2>1
    <3> QED BY <2>1, <2>2, <3>1 DEF Connect
  <2>3. CASE TokenExpires(v)
    <3>1. states[v] \in Seq(Status) /\ 1 \in 1..Len(states[v])
      BY <2>1, <2>3 DEF TokenExpires, Connected
    <3>2. [states[v] EXCEPT ![1] = "reauth_required"] \in Seq(Status)
      BY <3>1, ExceptSeq
    <3> QED BY <2>1, <2>3, <3>2 DEF TokenExpires
  <2>4. CASE Disconnect(v)
    <3>1. <<>> \in Seq(Status)
      OBVIOUS
    <3> QED BY <2>1, <2>4, <3>1 DEF Disconnect
  <2> QED BY <2>2, <2>3, <2>4
<1>4. Types'
  BY <1>1, <1>2, <1>3 DEF Types
<1>5. RowInv' /\ StampCoversItems' /\ \A r : TaskInv(r) => TaskInv(r)'
  BY <1>1, <1>4, EventsUntouched
<1>6. TasksInv'
  <2>1. CASE UNCHANGED run
    BY <1>5, <2>1 DEF TasksInv
  <2>2. CASE Disconnect(v)
    <3>1. run' = [t \in Tasks |-> IF run[t].vendor = v THEN [run[t] EXCEPT !.lives = FALSE]
                                                      ELSE run[t]]
      BY <2>2 DEF Disconnect
    <3>2. ASSUME NEW t \in Tasks PROVE TaskInv(run'[t])
      <4>1. TaskInv(run[t])
        BY DEF TasksInv
      <4>2. CASE run[t].vendor # v
        BY <3>1, <4>1, <4>2
      <4>3. CASE run[t].vendor = v
        <5>1. run[t].stage # "idle"
          BY <4>1, <4>3, IdleIsIdle DEF TaskInv
        <5>2. run'[t] = [run[t] EXCEPT !.lives = FALSE]
          BY <3>1, <4>3
        <5> QED BY <4>1, <4>3, <5>1, <5>2 DEF TaskInv, Runs
      <4> QED BY <4>2, <4>3
    <3> QED BY <1>5, <3>1, <3>2 DEF TasksInv
  <2> QED BY <2>1, <2>2 DEF Connect, TokenExpires, taskVars
<1> QED BY <1>4, <1>5, <1>6

\* The process ends and starts again.
LEMMA RestartKeeps == ASSUME EventInv, Restart PROVE EventInv'
<1> USE DEF EventInv
<1>1. /\ UNCHANGED <<version, states, rows, brain, acked, cut, given, reached, stamped>>
      /\ run' = [t \in Tasks |-> Idle] /\ todo' = [t \in Cycles |-> {}]
  BY DEF Restart, histVars
<1>2. Types'
  BY <1>1 DEF Restart, Failure, Types
<1>3. TasksInv'
  BY <1>1, IdleIsIdle DEF TasksInv, TaskInv
<1> QED BY <1>1, <1>2, <1>3, EventsUntouched

-----------------------------------------------------------------------------
(* Syncs.                                                                  *)

\* A task's next state, if it is a good one, leaves the tasks in order.
LEMMA TaskMoves ==
  ASSUME TasksInv, NEW t \in Tasks, NEW r, run' = [run EXCEPT ![t] = r], TaskInv(r)',
         \A q : TaskInv(q) => TaskInv(q)'
  PROVE  TasksInv'
BY DEF TasksInv

\* A cycle that starts only notes its vendors.
LEMMA StartCycleKeeps == ASSUME EventInv, NEW t \in Cycles, StartCycle(t) PROVE EventInv'
<1>1. UNCHANGED <<version, states, rows, brain, run, faults, acked, cut, given, reached, stamped>>
  BY DEF StartCycle, histVars
<1>2. todo' \in [Cycles -> SUBSET Vendors]
  BY DEF StartCycle, EventInv, Types
<1>3. Types'
  BY <1>1, <1>2 DEF EventInv, Types
<1>4. TasksInv'
  BY <1>1, <1>3, EventsUntouched DEF EventInv, TasksInv
<1> QED BY <1>1, <1>3, <1>4, EventsUntouched DEF EventInv

\* A sync begins with everything to fetch.
LEMMA BeginKeeps ==
  ASSUME EventInv, NEW t \in Tasks, NEW v \in Vendors, NEW scheduled \in BOOLEAN,
         Begin(t, v, scheduled), \A q : TaskInv(q) => TaskInv(q)'
  PROVE  TasksInv'
<1> DEFINE r == [stage |-> "fetch", vendor |-> v, permit |-> scheduled, lives |-> TRUE,
                 want |-> ItemsOf(v), got |-> <<>>]
<1>1. r \in Runs
  <2>1. <<>> \in Fetched
    BY IdleIsIdle DEF Idle, Runs
  <2> QED BY <2>1 DEF Runs, ItemsOf, Items
<1>2. TaskInv(r)
  BY <1>1 DEF TaskInv
<1>3. TaskInv(r)' /\ run' = [run EXCEPT ![t] = r]
  BY <1>2 DEF Begin
<1> HIDE DEF r
<1> QED BY <1>3, TaskMoves DEF EventInv

\* The next vendor of a cycle.
LEMMA NextVendorKeeps ==
  ASSUME EventInv, NEW t \in Cycles, NEW v \in Vendors, NextVendor(t, v) PROVE EventInv'
<1>1. UNCHANGED <<version, states, rows, brain, faults, acked, cut, given, reached, stamped>>
  BY DEF NextVendor, histVars
<1>2. todo' \in [Cycles -> SUBSET Vendors]
  BY DEF NextVendor, EventInv, Types
<1>3. Types'
  BY <1>1, <1>2 DEF EventInv, Types
<1>4. RowInv' /\ StampCoversItems' /\ \A q : TaskInv(q) => TaskInv(q)'
  BY <1>1, <1>3, EventsUntouched
<1>5. TasksInv'
  <2>1. CASE Begin(t, v, TRUE)
    BY <1>4, <2>1, BeginKeeps DEF Tasks
  <2>2. CASE UNCHANGED run
    BY <1>4, <2>2 DEF EventInv, TasksInv
  <2> QED BY <2>1, <2>2 DEF NextVendor
<1> QED BY <1>3, <1>4, <1>5 DEF EventInv

\* A sync of one vendor.
LEMMA SyncOneKeeps ==
  ASSUME EventInv, NEW t \in Singles, NEW v \in Vendors, SyncOne(t, v) PROVE EventInv'
<1>1. UNCHANGED <<version, states, rows, brain, todo, faults, acked, cut, given, reached, stamped>>
  BY DEF SyncOne, histVars
<1>2. Types'
  BY <1>1 DEF EventInv, Types
<1>3. RowInv' /\ StampCoversItems' /\ \A q : TaskInv(q) => TaskInv(q)'
  BY <1>1, <1>2, EventsUntouched
<1>4. TasksInv'
  <2>1. PICK scheduled \in BOOLEAN : Begin(t, v, scheduled)
    BY DEF SyncOne
  <2> QED BY <1>3, <2>1, BeginKeeps DEF Tasks
<1> QED BY <1>2, <1>3, <1>4 DEF EventInv

\* A task with two fields changed.
LEMMA TaskWith ==
  ASSUME NEW q \in Runs, NEW w \in SUBSET Items, NEW g \in Fetched
  PROVE  [q EXCEPT !.want = w, !.got = g] =
         [stage |-> q.stage, vendor |-> q.vendor, permit |-> q.permit, lives |-> q.lives,
          want |-> w, got |-> g]
<1> DEFINE r == [q EXCEPT !.want = w, !.got = g]
<1>1. r \in Runs /\ r.stage = q.stage
  BY DEF Runs
<1>2. r.vendor = q.vendor /\ r.permit = q.permit /\ r.lives = q.lives
  BY DEF Runs
<1>3. r.want = w /\ r.got = g
  BY DEF Runs
<1> HIDE DEF r
<1>4. r = [stage |-> r.stage, vendor |-> r.vendor, permit |-> r.permit, lives |-> r.lives,
           want |-> r.want, got |-> r.got]
  BY <1>1 DEF Runs
<1> QED BY <1>1, <1>2, <1>3, <1>4 DEF r

\* One more item is fetched, if the vendor has it.
LEMMA FetchKeeps ==
  ASSUME EventInv, NEW t \in Tasks, NEW i \in Items, Fetch(t, i) PROVE EventInv'
<1>1. UNCHANGED <<version, states, rows, brain, todo, faults, acked, cut, given, reached, stamped>>
  BY DEF Fetch, histVars
<1>2. Types'
  BY <1>1 DEF EventInv, Types
<1>3. RowInv' /\ StampCoversItems' /\ \A q : TaskInv(q) => TaskInv(q)'
  BY <1>1, <1>2, EventsUntouched
<1> DEFINE q == run[t]
           got == [k \in DOMAIN q.got \cup ({i} \cap {j \in Items : version[j] > 0}) |->
                     IF k = i THEN version[i] ELSE q.got[k]]
           r == [stage |-> q.stage, vendor |-> q.vendor, permit |-> q.permit, lives |-> q.lives,
                 want |-> q.want \ {i}, got |-> got]
<1>4. TaskInv(q) /\ q.stage = "fetch" /\ i \in q.want
  BY DEF EventInv, TasksInv, Fetch
<1>5. q.got \in Fetched /\ DOMAIN q.got \subseteq ItemsOf(q.vendor) /\ q.want \subseteq ItemsOf(q.vendor)
      /\ q.vendor \in Vendors
  BY <1>4 DEF TaskInv, Runs
<1>6. got \in Fetched /\ DOMAIN got \subseteq ItemsOf(q.vendor)
  <2>1. PICK D \in SUBSET Items : q.got \in [D -> 1..MaxVersion]
    BY <1>5 DEF Fetched
  <2>2. CASE version[i] > 0
    <3>1. version[i] \in 1..MaxVersion
      BY <2>2 DEF EventInv, Types
    <3>2. got \in [D \cup {i} -> 1..MaxVersion]
      BY <2>1, <2>2, <3>1
    <3>3. D \cup {i} \in SUBSET Items
      OBVIOUS
    <3> QED BY <1>4, <1>5, <3>2, <3>3 DEF Fetched
  <2>3. CASE ~ (version[i] > 0)
    <3>1. DOMAIN got = D
      BY <2>1, <2>3
    <3>2. \A k \in D : got[k] \in 1..MaxVersion
      <4> TAKE k \in D
      <4>1. k # i
        BY <1>4, <2>1 DEF TaskInv
      <4> QED BY <2>1, <3>1, <4>1
    <3>3. got \in [D -> 1..MaxVersion]
      BY <3>1, <3>2
    <3> QED BY <1>5, <2>1, <3>1, <3>3 DEF Fetched
  <2> QED BY <2>2, <2>3
<1> HIDE DEF got
<1>7. run' = [run EXCEPT ![t] = r]
  <2>1. run' = [run EXCEPT ![t] = [q EXCEPT !.want = q.want \ {i}, !.got = got]]
    BY DEF Fetch, got
  <2>2. [q EXCEPT !.want = q.want \ {i}, !.got = got] = r
    BY <1>4, <1>5, <1>6, TaskWith DEF TaskInv, Runs
  <2> QED BY <2>1, <2>2
<1>8. TaskInv(r)
  <2>1. r \in Runs
    BY <1>4, <1>6 DEF TaskInv, Runs
  <2>2. r.stage = "fetch" /\ r.vendor = q.vendor /\ r.want = q.want \ {i} /\ r.got = got
    BY <1>4
  <2>3. r.want \cap DOMAIN r.got = {}
    BY <1>4, <2>2 DEF got, TaskInv
  <2> QED BY <1>5, <1>6, <2>1, <2>2, <2>3 DEF TaskInv
<1> HIDE DEF r
<1>9. TasksInv'
  BY <1>3, <1>8, <1>7, TaskMoves DEF EventInv
<1> QED BY <1>2, <1>3, <1>9 DEF EventInv

\* A fetch that fails, and the end of a sync, leave the task idle.
LEMMA FetchFailsKeeps == ASSUME EventInv, NEW t \in Tasks, FetchFails(t) PROVE EventInv'
<1>1. UNCHANGED <<version, states, rows, brain, todo, acked, cut, given, reached, stamped>>
      /\ faults' \in 0..MaxFaults
  BY DEF FetchFails, Failure, EventInv, Types, histVars
<1>2. Types'
  BY <1>1 DEF EventInv, Types
<1>3. RowInv' /\ StampCoversItems' /\ \A q : TaskInv(q) => TaskInv(q)'
  BY <1>1, <1>2, EventsUntouched
<1>4. TasksInv'
  BY <1>3, IdleIsIdle, TaskMoves DEF EventInv, FetchFails, Stop, TaskInv
<1> QED BY <1>2, <1>3, <1>4 DEF EventInv

\* What a sync has fetched may be applied.
LEMMA FetchedIsApplicable ==
  ASSUME EventInv, NEW t \in Tasks, NEW done \in SUBSET DOMAIN run[t].got
  PROVE  /\ DOMAIN run[t].got \subseteq Items
         /\ \A i \in DOMAIN run[t].got : run[t].got[i] \in 1..MaxVersion
         /\ DOMAIN [i \in done |-> run[t].got[i]] \subseteq Items
         /\ \A i \in done : [j \in done |-> run[t].got[j]][i] \in 1..MaxVersion
<1>1. PICK D \in SUBSET Items : run[t].got \in [D -> 1..MaxVersion]
  BY DEF EventInv, TasksInv, TaskInv, Runs, Fetched
<1> QED BY <1>1

\* A step that applies items, and leaves rows and history alone otherwise,
\* keeps what the rows stand for and the tasks.
LEMMA RowsAfterApply ==
  ASSUME EventInv, Types', \A i \in Items : reached'[i] >= reached[i],
         UNCHANGED <<rows, given, acked, cut>>
  PROVE  RowInv' /\ \A q : TaskInv(q) => TaskInv(q)'
<1>1. \A q : TaskInv(q) => TaskInv(q)'
  BY TasksSurvive DEF EventInv
<1>2. \A i \in Items : reached[i] \in Int /\ reached'[i] \in Int
  BY DEF EventInv, Types
<1>3. \A e \in Event : e.item \in Items /\ e.version \in Int
  BY DEF Event
<1>4. \A e \in Event : e.item \in Issues /\ ExternalId(e) \in rows' =>
        reached'[e.item] >= e.version \/ e \in cut'
  BY <1>2, <1>3 DEF EventInv, RowInv
<1>5. AckedMeansApplied'
  BY <1>2, <1>3 DEF EventInv, RowInv, AckedMeansApplied, Types
<1> QED BY <1>1, <1>4, <1>5 DEF EventInv, RowInv

\* What a stamp says is true once all that was fetched has been in the brain.
LEMMA StampsHold ==
  ASSUME EventInv, Types', NEW t \in Tasks, Stamp(t),
         \A i \in Items : reached'[i] >= reached[i],
         \A i \in DOMAIN run[t].got : reached'[i] >= run[t].got[i]
  PROVE  StampCoversItems'
BY DEF EventInv, Types, StampCoversItems, Stamp

\* Stamping writes versions that were fetched.
LEMMA StampTypes ==
  ASSUME EventInv, NEW t \in Tasks, Stamp(t)
  PROVE  stamped' \in [Items -> 0..MaxVersion]
<1>1. \A i \in DOMAIN run[t].got : run[t].got[i] \in 1..MaxVersion
  BY FetchedIsApplicable
<1> QED BY <1>1 DEF Stamp, EventInv, Types

\* Everything is fetched and applied.
LEMMA ApplySyncKeeps == ASSUME EventInv, NEW t \in Tasks, ApplySync(t) PROVE EventInv'
<1> DEFINE q == run[t]
<1>1. /\ UNCHANGED <<version, states, rows, todo, faults, acked, cut, given>>
      /\ q.stage = "fetch" /\ q.want = {} /\ Apply(q.got)
  BY DEF ApplySync
<1>2. /\ brain' \in [Items -> 0..MaxVersion] /\ reached' \in [Items -> 0..MaxVersion]
      /\ \A i \in Items : reached'[i] >= reached[i]
      /\ \A i \in DOMAIN q.got : reached'[i] >= q.got[i]
  BY <1>1, FetchedIsApplicable, ApplyWrites DEF EventInv
<1>3. TaskInv(q)
  BY DEF EventInv, TasksInv
<1>4. CASE q.vendor = "hooked"
  <2>1. Stamp(t)
    BY <1>4 DEF ApplySync
  <2>2. Types'
    BY <1>1, <1>2, <2>1, StampTypes DEF EventInv, Types
  <2>3. RowInv' /\ \A r : TaskInv(r) => TaskInv(r)'
    BY <1>1, <1>2, <2>2, RowsAfterApply
  <2>4. TasksInv'
    BY <2>1, <2>3, IdleIsIdle, TaskMoves DEF EventInv, Stamp, Stop, TaskInv
  <2>5. StampCoversItems'
    BY <1>2, <2>1, <2>2, StampsHold
  <2> QED BY <2>2, <2>3, <2>4, <2>5 DEF EventInv
<1>5. CASE q.vendor # "hooked"
  <2>1. run' = [run EXCEPT ![t] = [q EXCEPT !.stage = "poll"]] /\ UNCHANGED stamped
    BY <1>5 DEF ApplySync
  <2>2. Types'
    BY <1>1, <1>2, <2>1 DEF EventInv, Types
  <2>3. RowInv' /\ \A r : TaskInv(r) => TaskInv(r)'
    BY <1>1, <1>2, <2>2, RowsAfterApply
  <2> PICK r : r = [q EXCEPT !.stage = "poll"]
    OBVIOUS
  <2>4. /\ r \in Runs /\ r.stage = "poll" /\ r.vendor = q.vendor
        /\ r.want = {} /\ r.got = q.got
    BY <1>1, <1>3 DEF TaskInv, Runs
  <2>5. q.vendor = "polled" /\ DOMAIN q.got \subseteq ItemsOf(q.vendor)
    BY <1>1, <1>3, <1>5 DEF TaskInv, Vendors
  <2>6. TaskInv(r)'
    BY <1>2, <2>4, <2>5 DEF TaskInv, Vendors
  <2>7. TasksInv'
    BY <2>1, <2>3, <2>6, TaskMoves DEF EventInv
  <2>8. StampCoversItems'
    BY <1>2, <2>1, <2>2 DEF EventInv, StampCoversItems, Types
  <2> QED BY <2>2, <2>3, <2>7, <2>8 DEF EventInv
<1> QED BY <1>4, <1>5

\* A sync that is cut when some of its items are applied.
LEMMA ApplySomeKeeps == ASSUME EventInv, NEW t \in Tasks, ApplySome(t) PROVE EventInv'
<1>1. PICK done \in SUBSET DOMAIN run[t].got : Apply([i \in done |-> run[t].got[i]])
  BY DEF ApplySome
<1>2. UNCHANGED <<version, states, rows, todo, acked, cut, given, stamped>>
      /\ faults' \in 0..MaxFaults /\ Stop(t)
  BY DEF ApplySome, Failure, EventInv, Types
<1>3. /\ brain' \in [Items -> 0..MaxVersion] /\ reached' \in [Items -> 0..MaxVersion]
      /\ \A i \in Items : reached'[i] >= reached[i]
  BY <1>1, FetchedIsApplicable, ApplyWrites DEF EventInv
<1>4. Types'
  BY <1>2, <1>3 DEF EventInv, Types
<1>5. RowInv' /\ \A r : TaskInv(r) => TaskInv(r)'
  BY <1>2, <1>3, <1>4, RowsAfterApply
<1>6. TasksInv'
  BY <1>2, <1>5, IdleIsIdle, TaskMoves DEF EventInv, Stop, TaskInv
<1>7. StampCoversItems'
  BY <1>2, <1>3, <1>4 DEF EventInv, StampCoversItems, Types
<1> QED BY <1>4, <1>5, <1>6, <1>7 DEF EventInv

\* The poll of a sync adds rows and applies nothing: they are of pages.
LEMMA PollSyncKeeps == ASSUME EventInv, NEW t \in Tasks, PollSync(t) PROVE EventInv'
<1>1. UNCHANGED <<version, states, brain, todo, faults, acked, cut, given, reached>>
      /\ run[t].stage = "poll" /\ Stop(t)
  BY DEF PollSync, Stamp
<1>2. \A i \in DOMAIN run[t].got : reached[i] >= run[t].got[i]
  BY <1>1 DEF EventInv, TasksInv, TaskInv
<1>3. CASE Persist(Polled) /\ Stamp(t)
  <2>1. /\ rows' = rows \cup {ExternalId(e) : e \in NewOf(Polled)}
        /\ NewOf(Polled) \subseteq Polled
    BY <1>3 DEF Persist, NewOf
  <2>2. Types'
    BY <1>1, <1>3, <2>1, PolledEvents, StampTypes DEF EventInv, Types
  <2>3. \A r : TaskInv(r) => TaskInv(r)'
    BY <1>1 DEF TaskInv
  <2>4. TasksInv'
    BY <1>1, <2>3, IdleIsIdle, TaskMoves DEF EventInv, Stop, TaskInv
  <2>5. \A e \in Event : e.item \in Issues /\ ExternalId(e) \in rows' => ExternalId(e) \in rows
    BY <2>1, PolledEvents, ExternalIds DEF EventInv
  <2>6. RowInv'
    BY <1>1, <2>1, <2>5 DEF EventInv, RowInv, AckedMeansApplied
  <2>7. \A i \in Items : reached'[i] >= reached[i]
    BY <1>1 DEF EventInv, Types
  <2>8. \A i \in DOMAIN run[t].got : reached'[i] >= run[t].got[i]
    BY <1>1, <1>2
  <2>9. StampCoversItems'
    BY <1>3, <2>2, <2>7, <2>8, StampsHold
  <2> QED BY <2>2, <2>4, <2>6, <2>9 DEF EventInv
<1>4. CASE UNCHANGED <<rows, stamped>>
  <2>1. Types'
    BY <1>1, <1>4 DEF EventInv, Types
  <2>2. RowInv' /\ StampCoversItems' /\ \A q : TaskInv(q) => TaskInv(q)'
    BY <1>1, <1>4, <2>1, EventsUntouched
  <2>3. TasksInv'
    BY <1>1, <2>2, IdleIsIdle, TaskMoves DEF EventInv, Stop, TaskInv
  <2> QED BY <2>1, <2>2, <2>3 DEF EventInv
<1> QED BY <1>3, <1>4 DEF PollSync

-----------------------------------------------------------------------------
(* The theorems.                                                           *)

\* Every step keeps the invariant.
LEMMA NextKeepsEventInv == EventInv /\ [Next]_vars => EventInv'
<1> SUFFICES ASSUME EventInv, [Next]_vars PROVE EventInv'
  OBVIOUS
<1>1. ASSUME NEW i \in Items, Edit(i) PROVE EventInv'
  BY <1>1, EditKeeps
<1>2. ASSUME NEW e \in Event, Webhook(e) PROVE EventInv'
  BY <1>2, WebhookKeeps
<1>3. CASE Poll
  BY <1>3, PollKeeps
<1>4. ASSUME NEW v \in Vendors, Connect(v) \/ TokenExpires(v) \/ Disconnect(v) PROVE EventInv'
  BY <1>4, InstallationKeeps
<1>5. ASSUME NEW t \in Cycles, StartCycle(t) \/ \E v \in Vendors : NextVendor(t, v)
      PROVE  EventInv'
  BY <1>5, StartCycleKeeps, NextVendorKeeps
<1>6. ASSUME NEW t \in Singles, NEW v \in Vendors, SyncOne(t, v) PROVE EventInv'
  BY <1>6, SyncOneKeeps
<1>7. ASSUME NEW t \in Tasks, NEW i \in Items, Fetch(t, i) PROVE EventInv'
  BY <1>7, FetchKeeps
<1>8. ASSUME NEW t \in Tasks, FetchFails(t) \/ ApplySync(t) \/ ApplySome(t) \/ PollSync(t)
      PROVE  EventInv'
  BY <1>8, FetchFailsKeeps, ApplySyncKeeps, ApplySomeKeeps, PollSyncKeeps
<1>9. CASE Restart
  BY <1>9, RestartKeeps
<1>10. CASE UNCHANGED vars
  <2>1. UNCHANGED <<version, states, rows, brain, run, todo, faults, acked, cut, given, reached,
                    stamped>>
    BY <1>10 DEF vars, taskVars, histVars
  <2>2. Types'
    BY <2>1 DEF EventInv, Types
  <2>3. TasksInv'
    BY <2>1, <2>2, EventsUntouched DEF EventInv, TasksInv
  <2> QED BY <2>1, <2>2, <2>3, EventsUntouched DEF EventInv
<1> QED BY <1>1, <1>2, <1>3, <1>4, <1>5, <1>6, <1>7, <1>8, <1>9, <1>10 DEF Next

\* The invariant holds in every state that is reached.
LEMMA EventInvHolds == Spec => []EventInv
BY InitEventInv, NextKeepsEventInv, PTL DEF Spec

\* A webhook's event is applied once at most, whatever is delivered again,
\* late or out of order; and one that was answered with 200 has reached the
\* brain, unless a delivery of it was cut between its row and the brain.
THEOREM AppliedOnce == Spec => []EventsApplyOnce
BY EventInvHolds, EventInvSuffices, PTL

\* last_sync_at is set only when the brain has had every item at least as the
\* sync fetched it, whatever webhooks, polls, other syncs, disconnections and
\* restarts come between its fetches.
THEOREM StampsAreCovered == Spec => []StampCoversItems
BY EventInvHolds, EventInvSuffices, PTL

=============================================================================
