-------------------------- MODULE ConnectorEvents --------------------------
(***************************************************************************)
(* How a change at a vendor reaches the brain.                             *)
(*                                                                         *)
(* Two kinds of vendor.  One calls a webhook for every change (GitHub,     *)
(* Linear, Slack, Gmail: post_<vendor>_webhook of                          *)
(* src/axiom/studio/server.py); Notion is polled (post_notion_poll).  Both *)
(* are also synced whole (src/axiom/connectors/sync_runner.py), by the     *)
(* periodic loop and by requests.                                          *)
(*                                                                         *)
(* Handlers run on one event loop and give it up only while they fetch: a  *)
(* webhook or a poll is one step, a sync is several.  Each commits in      *)
(* parts, so it may be cut in between, by an exception or by the end of    *)
(* the process.  An object of a vendor is an item with a version; an event *)
(* is the item and the version it carries.  Edges, cluster assignment,     *)
(* signatures and what is published are left out; a rejected webhook       *)
(* changes nothing.  The definitions marked "Fault" are not part of the    *)
(* specification: each is a way its code could go wrong that a property    *)
(* must notice.                                                            *)
(***************************************************************************)
EXTENDS Integers, FiniteSets, SequencesExt

CONSTANTS
  Issues,      \* items of the vendor that calls the webhook
  Pages,       \* items of the vendor that is polled
  Cycles,      \* tasks that run sync_all_connected_connectors
  Singles,     \* tasks that sync one vendor
  Permits,     \* connector_sync_concurrency()
  None,        \* no vendor
  MaxVersion,  \* bound on the changes of an item
  MaxEdits,    \* bound on all changes
  MaxFaults    \* bound on failures

ASSUME ConnectorAssumption ==
  /\ Issues \cap Pages = {}
  /\ Cycles \cap Singles = {}
  /\ Permits \in Nat \ {0}
  /\ MaxVersion \in Nat /\ MaxEdits \in Nat /\ MaxFaults \in Nat

VARIABLES
  version,    \* the vendors' items (0: not there yet)
  states,     \* status of each vendor's connector_states rows, oldest first
  rows,       \* external ids of connector_events
  brain,      \* version of the entity of each item (0: none)
  run,        \* what each task is doing
  todo,       \* vendors the cycle of a task has yet to sync
  faults,     \* failures so far
  acked,      \* history: webhooks answered with 200
  cut,        \* history: webhooks cut between their row and the brain
  given,      \* history: how often an event's item was applied for it
  reached,    \* history: newest version of each item the brain has had
  stamped     \* history: version of each item as fetched by the last sync
              \* that set last_sync_at (0: none did)

taskVars == <<run, todo>>
histVars == <<acked, cut, given, reached, stamped>>
vars == <<version, states, rows, brain, taskVars, faults, histVars>>

Items == Issues \cup Pages
Tasks == Cycles \cup Singles
Vendors == {"hooked", "polled"}
ASSUME VendorAssumption == None \notin Vendors

ItemsOf(v) == IF v = "hooked" THEN Issues ELSE Pages
Event == [item : Items, version : 1..MaxVersion]

\* What makes an event a duplicate: the delivery id for a webhook, the page
\* itself for a poll, whatever its version.
ExternalId(e) == IF e.item \in Pages THEN <<e.item>> ELSE <<e.item, e.version>>

Idle == [stage |-> "idle", vendor |-> None, permit |-> FALSE, lives |-> FALSE,
         want |-> {}, got |-> <<>>]

\* _connected_state: the first row counts, and SQLite finds it by the index on
\* vendor, oldest first.
Connected(v) == states[v] # <<>> /\ Head(states[v]) = "connected"

Newer(m, n) == IF m < n THEN n ELSE m

\* IngestPipeline: each item's entity is updated, or created, in a commit of
\* its own.
Apply(newer) ==
  /\ brain' = [i \in Items |-> IF i \in DOMAIN newer THEN newer[i] ELSE brain[i]]
  /\ reached' = [i \in Items |-> Newer(reached[i], brain'[i])]

Failure == faults < MaxFaults /\ faults' = faults + 1

Stop(t) == run' = [run EXCEPT ![t] = Idle]

-----------------------------------------------------------------------------
(* The vendors.                                                            *)

\* An item is created or changes.
Edit(i) ==
  /\ version[i] < MaxVersion
  /\ SumFunction(version) < MaxEdits
  /\ version' = [version EXCEPT ![i] = @ + 1]
  /\ UNCHANGED <<states, rows, brain, taskVars, faults, histVars>>

\* The webhooks the vendor may call: late, in any order, and again, even after
\* an answer it did not get; or it gives one up and never calls it.
Sent == {e \in Event : e.item \in Issues /\ e.version <= version[e.item]}

-----------------------------------------------------------------------------
(* Webhooks and polls.                                                     *)

\* The events of a batch that are not duplicates.
NewOf(events) == {e \in events : ExternalId(e) \notin rows}

\* Their rows are inserted and committed.
Persist(events) == rows' = rows \cup {ExternalId(e) : e \in NewOf(events)}

\* "Fault": a delivery that was stored before is applied again.
ApplyAll(events) ==
  /\ Apply([i \in {e.item : e \in events} |-> (CHOOSE e \in events : e.item = i).version])
  /\ given' = [e \in Event |-> given[e] + (IF e \in events THEN 1 ELSE 0)]

\* The new ones are then applied.
ApplyNew(events) ==
  /\ Apply([i \in {e.item : e \in NewOf(events)} |->
             (CHOOSE e \in NewOf(events) : e.item = i).version])
  /\ given' = [e \in Event |-> given[e] + (IF e \in NewOf(events) THEN 1 ELSE 0)]

\* The exception, or the end of the process, comes after the commit of the
\* rows and before the new events are applied.
CutAfterPersist(events) ==
  /\ Failure
  /\ NewOf(events) # {}
  /\ UNCHANGED <<brain, given, reached>>

\* post_<vendor>_webhook
Webhook(e) ==
  /\ e \in Sent
  /\ Persist({e})
  /\ \/ ApplyNew({e}) /\ acked' = acked \cup {e} /\ UNCHANGED <<cut, faults>>
     \/ CutAfterPersist({e}) /\ cut' = cut \cup {e} /\ UNCHANGED acked
  /\ UNCHANGED <<version, states, taskVars, stamped>>

\* What the search of a poll returns.
Polled == {[item |-> p, version |-> version[p]] : p \in {q \in Pages : version[q] > 0}}

\* post_notion_poll: any row will do, if its token is good.  It sets
\* last_sync_at as well, whatever it applied; stamped is about syncs.
Poll ==
  /\ states["polled"] # <<>>
  /\ Persist(Polled)
  /\ \/ ApplyNew(Polled) /\ UNCHANGED faults
     \/ CutAfterPersist(Polled)
  /\ UNCHANGED <<version, states, taskVars, acked, cut, stamped>>

-----------------------------------------------------------------------------
(* Syncs.                                                                  *)

\* async with _vendor_sync_semaphore()
PermitFree == Cardinality({t \in Tasks : run[t].permit}) < Permits

\* The vendor's row is found and its token is good.
Begin(t, v, scheduled) ==
  /\ run[t].stage = "idle"
  /\ Connected(v)
  /\ scheduled => PermitFree
  /\ run' = [run EXCEPT ![t] =
       [stage |-> "fetch", vendor |-> v, permit |-> scheduled, lives |-> TRUE,
        want |-> ItemsOf(v), got |-> <<>>]]

\* sync_all_connected_connectors: the vendors that have a connected row now.
StartCycle(t) ==
  /\ run[t].stage = "idle" /\ todo[t] = {}
  /\ todo' = [todo EXCEPT ![t] = {v \in Vendors : "connected" \in Range(states[v])}]
  /\ todo'[t] # {}
  /\ UNCHANGED <<version, states, rows, brain, run, faults, histVars>>

\* The next vendor of the cycle; one that is gone by now is passed over.
NextVendor(t, v) ==
  /\ v \in todo[t]
  /\ todo' = [todo EXCEPT ![t] = @ \ {v}]
  /\ \/ Begin(t, v, TRUE)
     \/ run[t].stage = "idle" /\ ~ Connected(v) /\ PermitFree /\ UNCHANGED run
  /\ UNCHANGED <<version, states, rows, brain, faults, histVars>>

\* post_<vendor>_sync, which takes no permit, or the sync that follows an
\* installation, which does.
SyncOne(t, v) ==
  /\ \E scheduled \in BOOLEAN : Begin(t, v, scheduled)
  /\ UNCHANGED <<version, states, rows, brain, todo, faults, histVars>>

\* "Fault": only what the brain does not have is fetched.
FetchMissing(t, i) ==
  /\ run[t].stage = "fetch" /\ i \in run[t].want
  /\ run' = [run EXCEPT
       ![t].want = @ \ {i},
       ![t].got = [k \in DOMAIN @ \cup ({i} \cap {j \in Items : version[j] > 0 /\ brain[j] = 0}) |->
                    IF k = i THEN version[i] ELSE @[k]]]
  /\ UNCHANGED <<version, states, rows, brain, todo, faults, histVars>>

\* One more fetch, in a thread of its own.
Fetch(t, i) ==
  /\ run[t].stage = "fetch" /\ i \in run[t].want
  /\ run' = [run EXCEPT
       ![t].want = @ \ {i},
       ![t].got = [k \in DOMAIN @ \cup ({i} \cap {j \in Items : version[j] > 0}) |->
                    IF k = i THEN version[i] ELSE @[k]]]
  /\ UNCHANGED <<version, states, rows, brain, todo, faults, histVars>>

\* A fetch fails: the sync is over.
FetchFails(t) ==
  /\ run[t].stage # "idle"
  /\ Failure
  /\ Stop(t)
  /\ UNCHANGED <<version, states, rows, brain, todo, histVars>>

\* state.last_sync_at = now, if its row is still there; the sync is over.
Stamp(t) ==
  /\ stamped' = [i \in Items |-> IF run[t].lives /\ i \in DOMAIN run[t].got
                                 THEN run[t].got[i] ELSE stamped[i]]
  /\ Stop(t)

\* Everything is fetched: it is applied, and the webhook vendor's sync ends.
ApplySync(t) ==
  /\ run[t].stage = "fetch" /\ run[t].want = {}
  /\ Apply(run[t].got)
  /\ IF run[t].vendor = "hooked"
     THEN Stamp(t)
     ELSE run' = [run EXCEPT ![t].stage = "poll"] /\ UNCHANGED stamped
  /\ UNCHANGED <<version, states, rows, todo, faults, acked, cut, given>>

\* "Fault": last_sync_at is set all the same.
ApplySomeStamped(t) ==
  /\ run[t].stage = "fetch" /\ run[t].want = {}
  /\ Failure
  /\ \E done \in SUBSET DOMAIN run[t].got : Apply([i \in done |-> run[t].got[i]])
  /\ Stamp(t)
  /\ UNCHANGED <<version, states, rows, todo, acked, cut, given>>

\* The sync is cut when only some of the items are applied.
ApplySome(t) ==
  /\ run[t].stage = "fetch" /\ run[t].want = {}
  /\ Failure
  /\ \E done \in SUBSET DOMAIN run[t].got : Apply([i \in done |-> run[t].got[i]])
  /\ Stop(t)
  /\ UNCHANGED <<version, states, rows, todo, acked, cut, given, stamped>>

\* sync_notion polls once more and adds a row for every page, with no look at
\* the rows that are there: it commits, and sets last_sync_at, only if none is.
PollSync(t) ==
  /\ run[t].stage = "poll"
  /\ IF run[t].lives /\ NewOf(Polled) = Polled
     THEN Persist(Polled) /\ Stamp(t)
     ELSE Stop(t) /\ UNCHANGED <<rows, stamped>>
  /\ UNCHANGED <<version, states, brain, todo, faults, acked, cut, given, reached>>

-----------------------------------------------------------------------------
(* Installation, and the process.                                          *)

\* An OAuth callback adds a row; the page offers this while the vendor is not
\* connected.  Rows that are there, say of an expired token, stay.
Connect(v) ==
  /\ "connected" \notin Range(states[v])
  /\ states' = [states EXCEPT ![v] = Append(@, "connected")]
  /\ UNCHANGED <<version, rows, brain, taskVars, faults, histVars>>

\* The token has expired and cannot be refreshed (_maybe_refresh_token).
TokenExpires(v) ==
  /\ Connected(v)
  /\ Failure
  /\ states' = [states EXCEPT ![v] = [@ EXCEPT ![1] = "reauth_required"]]
  /\ UNCHANGED <<version, rows, brain, taskVars, histVars>>

\* delete_connector: the vendor's rows go, unless an event refers to them, as
\* those of a poll do.
Disconnect(v) ==
  /\ states[v] # <<>>
  /\ v = "polled" => rows \cap {<<p>> : p \in Pages} = {}
  /\ states' = [states EXCEPT ![v] = <<>>]
  /\ run' = [t \in Tasks |-> IF run[t].vendor = v THEN [run[t] EXCEPT !.lives = FALSE] ELSE run[t]]
  /\ UNCHANGED <<version, rows, brain, todo, faults, histVars>>

\* The process ends and starts again.
Restart ==
  /\ Failure
  /\ run' = [t \in Tasks |-> Idle]
  /\ todo' = [t \in Cycles |-> {}]
  /\ UNCHANGED <<version, states, rows, brain, histVars>>

-----------------------------------------------------------------------------

Init ==
  /\ version = [i \in Items |-> 0]
  /\ states = [v \in Vendors |-> <<>>] /\ rows = {} /\ faults = 0
  /\ brain = [i \in Items |-> 0]
  /\ run = [t \in Tasks |-> Idle]
  /\ todo = [t \in Cycles |-> {}]
  /\ acked = {} /\ cut = {}
  /\ given = [e \in Event |-> 0]
  /\ reached = [i \in Items |-> 0]
  /\ stamped = [i \in Items |-> 0]

Next ==
  \/ \E i \in Items : Edit(i)
  \/ \E e \in Event : Webhook(e)
  \/ Poll
  \/ \E v \in Vendors : Connect(v) \/ TokenExpires(v) \/ Disconnect(v)
  \/ \E t \in Cycles : StartCycle(t) \/ \E v \in Vendors : NextVendor(t, v)
  \/ \E t \in Singles, v \in Vendors : SyncOne(t, v)
  \/ \E t \in Tasks : \/ \E i \in Items : Fetch(t, i)
                      \/ FetchFails(t) \/ ApplySync(t) \/ ApplySome(t) \/ PollSync(t)
  \/ Restart

Spec == Init /\ [][Next]_vars

\* connector_sync_loop, which runs if the vault was unlocked at its start: it
\* sleeps between cycles and wakes up again, whatever became of the last cycle;
\* and asyncio.Semaphore serves its waiters in turn, so a cycle gets its permit
\* however many syncs want one.
LoopRuns(t) == WF_vars(StartCycle(t)) /\ SF_vars(\E v \in Vendors : NextVendor(t, v))

\* A fetch or a step of a sync is not put off for ever.
FairSpec ==
  /\ Spec
  /\ \A t \in Cycles : LoopRuns(t)
  /\ \A t \in Tasks : /\ WF_vars(\E i \in Items : Fetch(t, i))
                      /\ WF_vars(ApplySync(t)) /\ WF_vars(PollSync(t))

-----------------------------------------------------------------------------
(* Properties.                                                             *)

\* Every variable has its type; a task holds a permit only while it syncs.
TypeOK ==
  /\ version \in [Items -> 0..MaxVersion]
  /\ states \in [Vendors -> Seq({"connected", "reauth_required"})]
  /\ rows \subseteq {ExternalId(e) : e \in Event}
  /\ brain \in [Items -> 0..MaxVersion]
  /\ todo \in [Cycles -> SUBSET Vendors]
  /\ faults \in 0..MaxFaults
  /\ acked \subseteq Event /\ cut \subseteq Event
  /\ reached \in [Items -> 0..MaxVersion] /\ stamped \in [Items -> 0..MaxVersion]
  /\ \A t \in Tasks :
       /\ run[t].stage \in {"idle", "fetch", "poll"}
       /\ run[t].stage = "idle" => run[t] = Idle
       /\ run[t].stage # "idle" => /\ run[t].vendor \in Vendors
                                   /\ run[t].want \subseteq ItemsOf(run[t].vendor)
                                   /\ DOMAIN run[t].got \subseteq ItemsOf(run[t].vendor)
       /\ run[t].stage = "poll" => run[t].vendor = "polled" /\ run[t].want = {}

\* An event is applied to the brain once at most, however often it is
\* delivered (tests/test_webhook_idempotency.py:9).
AppliedAtMostOnce == \A e \in Event : given[e] <= 1

\* An event that was answered with 200 has reached the brain, unless an
\* earlier delivery of it stored its row and failed before applying it: then
\* every later one is taken for a duplicate.
AckedMeansApplied == \A e \in acked : reached[e.item] >= e.version \/ e \in cut

\* What is delivered at least once is applied once.
EventsApplyOnce == TypeOK /\ AppliedAtMostOnce /\ AckedMeansApplied

\* A sync sets last_sync_at only once the brain has had every item at least
\* as the sync fetched it, also when it is cut or disconnected half way.
StampCoversItems == \A i \in Items : reached[i] >= stamped[i]

\* Whatever was lost, cut, reordered or overwritten by an older delivery: once
\* a vendor stays connected and its items no longer change, the periodic syncs
\* bring the brain to the vendor's state.
BrainCatchesUp ==
  \A i \in Items :
    <>[](\E v \in Vendors : Connected(v) /\ i \in ItemsOf(v)) => <>[](brain[i] = version[i])

=============================================================================
