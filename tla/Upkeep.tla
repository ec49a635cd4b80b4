------------------------------- MODULE Upkeep -------------------------------
(***************************************************************************)
(* The background agents of Studio over the brain's tables: the organizer  *)
(* (src/axiom/organize: clusters, importance, edges; vectors of            *)
(* retrieval/embeddings.py) and the watchdog (src/axiom/govern/watchdog.py *)
(* with the rules of watchdog_rules.py).                                   *)
(*                                                                         *)
(* Both are tasks of Studio's event loop, as are ingest and the alert      *)
(* routes.  Publishing does not suspend a task, so a pass over the tables  *)
(* is one step, except where it calls a provider: then the loop stands     *)
(* still, but other processes and threads go on writing to the tables.     *)
(*                                                                         *)
(* An entity is a version with a cluster; what its text says about it is   *)
(* given by the constants.  Scores, prompts and messages are left out, and *)
(* so are deletions.  The definitions marked "Fault" are not part of the   *)
(* specification.                                                          *)
(***************************************************************************)
EXTENDS Integers, FiniteSets, Functions, FiniteSetsExt, SequencesExt

CONSTANTS
  Entities, Clusters, None,
  Billing, Policy, Incident,         \* the clusters that rules name
  Worlds,       \* what the texts of the entities may say
  Old,          \* entities the tables hold at first
  Limit,        \* edges per proposal pass
  Week, Month, Quarter,              \* 7, 30 and 90 days
  MaxVersion, MaxClock, MaxSpent   \* bounds

Kinds == {"decision", "policy", "runbook", "incident", "urgent", "process"}

\* What the text of an entity says: the cluster its connector ships, the
\* keyword hits in each cluster, what the rules take it for, the decision it
\* names, the importance it records for an earlier day, and its topic.
Text == [given : Clusters \cup {None}, score : [Clusters -> Nat], kinds : SUBSET Kinds,
         cites : Entities \cup {None}, past : Nat, topic : Nat]

ASSUME UpkeepAssumption ==
  /\ {Billing, Policy, Incident} \subseteq Clusters /\ None \notin Clusters
  /\ Worlds \subseteq [Entities -> Text]
  /\ IsFiniteSet(Entities) /\ Old \subseteq Entities
  /\ {Limit, MaxVersion} \subseteq Nat \ {0}
  /\ {Week, Month, Quarter, MaxClock, MaxSpent} \subseteq Nat

Rules == {"R1", "R2", "R3", "R4", "R5", "R6", "R7"}

VARIABLES
  text,        \* what the entities' texts say
  ent,         \* rows of entities: version (0: none), cluster, created, touched
  edges,       \* rows of edges
  importance,  \* composite_importance
  vector,      \* rows of entity_embeddings
  compiled,    \* processes with a skill of their name
  alerts,      \* status of the alerts of each entity and rule, oldest first
  receipts,    \* alerts with a receipt on the chain
  subscribed,  \* the watchdog's queue is still registered at the broadcaster
  pending,     \* entities in that queue or in WatchdogAgent._pending
  call,        \* the organizer's call to a provider, with what it read
  clock,       \* days
  spent        \* writes, acts and faults so far

tables == <<text, ent, edges, importance, vector, compiled>>
watch == <<alerts, receipts, subscribed, pending>>
upkeepVars == <<tables, watch, call, clock, spent>>

Present == {e \in Entities : ent[e].version > 0}
Is(kind) == {e \in Entities : kind \in text[e].kinds}

NoRow == [version |-> 0, cluster |-> None, created |-> 0, touched |-> 0]
NoVector == [of |-> <<>>, hash |-> <<>>]
NoCall == [stage |-> "none", read |-> <<>>]

\* What canonical_content_hash and canonical_entity_text cover.
Content(e) == <<ent[e].version, ent[e].cluster>>

\* The event loop is free: no pass waits for a provider.
LoopFree == call.stage = "none"

\* Writes, a human's acts and faults are bounded together.
Spend == spent < MaxSpent /\ spent' = spent + 1

-----------------------------------------------------------------------------
(* Writers.                                                                *)

Written(e, cluster) ==
  [version |-> ent[e].version + 1, cluster |-> cluster, touched |-> clock,
   created |-> IF e \in Present THEN ent[e].created ELSE clock]

Write(e, cluster) ==
  /\ ent[e].version < MaxVersion
  /\ Spend
  /\ ent' = [ent EXCEPT ![e] = Written(e, cluster)]
  /\ UNCHANGED <<text, edges, importance, vector, compiled>>

\* An event of an entity reaches the watchdog.
Enqueue(e) == pending' = IF subscribed THEN pending \cup {e} ELSE pending

\* A pass of an agent publishes an event per change before the watchdog can
\* take one: the queue may overflow, and the subscription is then gone.
Burst == \/ UNCHANGED subscribed
         \/ subscribed /\ Spend /\ subscribed' = FALSE

\* IngestPipeline creates an entity, or updates it with the cluster its
\* connector ships, and publishes.
IngestEntity(e) ==
  /\ LoopFree
  /\ Write(e, text[e].given)
  /\ Enqueue(e)
  /\ UNCHANGED <<alerts, receipts, subscribed, call, clock>>

\* crud.create_entity and crud.update_entity, called by a thread or another
\* process: nothing is published.
WriteEntity(e) ==
  /\ Write(e, ent[e].cluster)
  /\ UNCHANGED <<watch, call, clock>>

Linked(s, t) == \E d \in edges : {d.src, d.dst} = {s, t}

Edge(s, t, kind) == [src |-> s, dst |-> t, kind |-> kind, at |-> clock]

\* crud.add_edge: an edge of one kind between two entities is added once.
AddEdge(s, t) ==
  /\ {s, t} \subseteq Present /\ s # t
  /\ \A d \in edges : ~ (d.src = s /\ d.dst = t /\ d.kind = "depends_on")
  /\ Spend
  /\ edges' = edges \cup {Edge(s, t, "depends_on")}
  /\ UNCHANGED <<text, ent, importance, vector, compiled, watch, call, clock>>

\* compile_skills_from_processes
CompileSkill(e) ==
  /\ LoopFree /\ e \in (Is("process") \cap Present) \ compiled
  /\ Spend
  /\ compiled' = compiled \cup {e}
  /\ UNCHANGED <<text, ent, edges, importance, vector, watch, call, clock>>

Tick ==
  /\ clock < MaxClock
  /\ clock' = clock + 1
  /\ UNCHANGED <<tables, watch, call, spent>>

-----------------------------------------------------------------------------
(* The organizer.                                                          *)

Top(e) == Max(Range(text[e].score))

\* _argmax breaks ties by the order of CLUSTER_IDS.
Best(e) == CHOOSE c \in Clusters : text[e].score[c] = Top(e)

\* The two highest scores are within AMBIGUITY_BAND.
Ambiguous(e) == \E c \in Clusters \ {Best(e)} : Top(e) - text[e].score[c] <= 1

\* HybridClassifier.classify: whom the model is asked about, it may name any
\* cluster; without a usable answer the keywords decide, or the default.
ClusterChoices(e) ==
  IF Top(e) >= 3 THEN {Best(e)}
  ELSE IF Top(e) = 0 THEN Clusters
  ELSE IF Ambiguous(e) THEN Clusters ELSE {Best(e)}

Unplaced == {e \in Present : ent[e].cluster = None}

\* classify_pending reads its batch and asks the model ...
BeginClassify ==
  /\ LoopFree /\ Unplaced # {}
  /\ call' = [stage |-> "classify", read |-> [e \in Unplaced |-> None]]
  /\ UNCHANGED <<tables, watch, clock, spent>>

\* ... then writes the clusters and publishes.
EndClassify ==
  /\ call.stage = "classify"
  /\ \E choice \in [DOMAIN call.read -> Clusters] :
       /\ \A e \in DOMAIN choice : choice[e] \in ClusterChoices(e)
       /\ ent' = [e \in Entities |->
            IF e \in DOMAIN choice
            THEN [ent[e] EXCEPT !.cluster = choice[e], !.touched = clock] ELSE ent[e]]
  /\ call' = NoCall
  /\ UNCHANGED <<spent, subscribed>>
  /\ UNCHANGED <<text, edges, importance, vector, compiled, alerts, receipts, pending, clock>>

Degree(e) == Cardinality({d \in edges : e \in {d.src, d.dst}})
Inbound(e) == Cardinality({d \in edges : e = d.dst})

\* CentralityScorer.recompute_all_rich: PageRank is abstracted to inbound edges,
\* to which the degree is added, and recency to a part that changes all the time:
\* every row is written, and a row that is written gets a new updated_at.
Recompute ==
  /\ LoopFree /\ Present # {}
  /\ importance' = [e \in Entities |-> IF e \in Present THEN Degree(e) + Inbound(e) ELSE 0]
  /\ ent' = [e \in Entities |->
               IF e \in Present THEN [ent[e] EXCEPT !.touched = clock] ELSE ent[e]]
  /\ Burst
  /\ (subscribed' = subscribed => UNCHANGED spent)
  /\ UNCHANGED <<text, edges, vector, compiled, alerts, receipts, pending, call, clock>>

\* EdgeProposer goes through a cluster by importance, then age.
Before(s, t) ==
  /\ ent[s].cluster = ent[t].cluster /\ s # t
  /\ \/ importance[s] > importance[t]
     \/ importance[s] = importance[t] /\ ent[s].created > ent[t].created
     \/ /\ importance[s] = importance[t] /\ ent[s].created = ent[t].created
        /\ SetToSeq({s, t})[1] = s

Candidates(s) ==
  {t \in Present : Before(s, t) /\ ~ Linked(s, t)}

\* Each source gets an edge to its first target that lacks one.
Proposals ==
  {p \in Present \X Present :
     /\ ent[p[1]].cluster # None
     /\ p[2] \in Candidates(p[1])
     /\ \A u \in Candidates(p[1]) \ {p[2]} : Before(p[2], u)}

\* propose_once, one commit per edge, up to the limit of a pass.
Propose ==
  /\ LoopFree
  /\ \E new \in SUBSET Proposals :
       /\ Cardinality(new) = Min({Limit, Cardinality(Proposals)}) /\ new # {}
       /\ edges' = edges \cup {Edge(p[1], p[2], "related") : p \in new}
  /\ UNCHANGED <<text, ent, importance, vector, compiled, watch, call, clock, spent>>

\* "Fault": the entities without a vector.
ChangedNew == {e \in Present : vector[e] = NoVector}

Changed == {e \in Present : vector[e].hash # Content(e)}

\* embed_changed_entities reads the changed entities and calls the provider ...
BeginEmbed ==
  /\ LoopFree /\ Changed # {}
  /\ call' = [stage |-> "embed", read |-> [e \in Changed |-> Content(e)]]
  /\ UNCHANGED <<tables, watch, clock, spent>>

\* "Fault": the hash is taken when the rows are written.
EndEmbedLate ==
  /\ call.stage = "embed"
  /\ vector' = [e \in Entities |->
       IF e \in DOMAIN call.read
       THEN [of |-> call.read[e], hash |-> Content(e)]
       ELSE vector[e]]
  /\ call' = NoCall
  /\ UNCHANGED <<text, ent, edges, importance, compiled, watch, clock, spent>>

\* ... and writes vectors and hashes in one commit.
EndEmbed ==
  /\ call.stage = "embed"
  /\ vector' = [e \in Entities |->
       IF e \in DOMAIN call.read
       THEN [of |-> call.read[e], hash |-> call.read[e]]
       ELSE vector[e]]
  /\ call' = NoCall
  /\ UNCHANGED <<text, ent, edges, importance, compiled, watch, clock, spent>>

\* The provider or the commit fails: the batch is rolled back.
CallFails ==
  /\ ~ LoopFree
  /\ Spend
  /\ call' = NoCall
  /\ UNCHANGED <<tables, watch, clock>>

-----------------------------------------------------------------------------
(* The rules.                                                              *)

Others(e) == {x \in Entities : Linked(e, x)}

RecentDecision(e) ==
  \/ \E d \in edges, x \in Is("decision") : {d.src, d.dst} = {e, x} /\ d.at >= clock - Week
  \/ text[e].cites \in Is("decision") \cap Present /\ ent[text[e].cites].touched >= clock - Week

IncidentRunbooks == {x \in Is("runbook") : x \in Is("incident") \/ ent[x].cluster = Incident}

IsPolicy(e) == e \in Is("policy") \/ ent[e].cluster = Policy

Peers(e) == {x \in Present \ {e} : ent[x].cluster = ent[e].cluster /\ vector[x] # NoVector}

BillingWithoutDecision(e) == ent[e].cluster = Billing /\ ~ RecentDecision(e)

SeverityMismatch(e) == e \in Is("urgent") /\ Others(e) \cap IncidentRunbooks = {}

PolicyOrphaned(e) ==
  /\ IsPolicy(e) /\ ent[e].created <= clock - Month
  /\ \A d \in edges : d.dst # e

ConfidenceDrift(e) == text[e].past > importance[e]

Outlier(e) ==
  /\ ent[e].cluster # None /\ vector[e] # NoVector /\ Peers(e) # {}
  /\ \A x \in Peers(e) : text[x].topic # text[e].topic

StaleDecision(e) ==
  \E d \in edges, x \in Is("decision") :
    {d.src, d.dst} = {e, x} /\ d.kind = "depends_on" /\ ent[x].touched <= clock - Quarter

WithoutSkill(e) == e \in Is("process") \ compiled

Fires(r, e) ==
  CASE r = "R1" -> BillingWithoutDecision(e)
    [] r = "R2" -> SeverityMismatch(e)
    [] r = "R3" -> PolicyOrphaned(e)
    [] r = "R4" -> ConfidenceDrift(e)
    [] r = "R5" -> Outlier(e)
    [] r = "R6" -> StaleDecision(e)
    [] r = "R7" -> WithoutSkill(e)

-----------------------------------------------------------------------------
(* The watchdog.                                                           *)

ActiveStatuses == {"open", "acknowledged"}

\* "Fault": an acknowledged alert no longer counts.
ActiveOpen(e, r) == \E i \in DOMAIN alerts[e][r] : alerts[e][r][i] = "open"

\* _existing_active_alert
Active(e, r) == \E i \in DOMAIN alerts[e][r] : alerts[e][r][i] \in ActiveStatuses

\* "Fault": a resolved alert still counts.
RaisedOnce(es) ==
  {p \in es \X Rules : Fires(p[2], p[1]) /\ alerts[p[1]][p[2]] = <<>>}

\* What detect_for_entity adds for some entities.
Raised(es) == {p \in es \X Rules : Fires(p[2], p[1]) /\ ~ Active(p[1], p[2])}

\* detect_entity for each: its alerts are committed, published (so many that
\* the watchdog's own queue may overflow) and receipted.  A receipt that fails
\* is only logged; detection that fails adds nothing.
Detect(es) == \E outcome \in {"done", "overflow", "unreceipted", "failed"} :
  /\ alerts' = [e \in Entities |-> [r \in Rules |->
       IF <<e, r>> \in Raised(es) /\ outcome # "failed"
       THEN Append(alerts[e][r], "open") ELSE alerts[e][r]]]
  /\ receipts' = receipts \cup
       (IF outcome \in {"done", "overflow"}
        THEN {<<p[1], p[2], Len(alerts[p[1]][p[2]]) + 1>> : p \in Raised(es)} ELSE {})
  /\ subscribed' = (subscribed /\ outcome # "overflow")
  /\ IF outcome = "done" THEN UNCHANGED spent
     ELSE Raised(es) # {} /\ Spend

\* _debounce_loop
Debounce ==
  /\ LoopFree /\ pending # {}
  /\ pending' = {}
  /\ Detect(pending \cap Present)
  /\ UNCHANGED <<tables, call, clock>>

\* sweep_once
Sweep ==
  /\ LoopFree
  /\ Detect(Present)
  /\ UNCHANGED <<tables, pending, call, clock>>

SetStatus(e, r, i, status) ==
  /\ Spend
  /\ alerts' = [alerts EXCEPT ![e][r][i] = status]
  /\ UNCHANGED <<tables, receipts, subscribed, pending, call, clock>>

\* acknowledge_alert: only an open one changes.
Acknowledge(e, r) ==
  LoopFree /\ \E i \in DOMAIN alerts[e][r] :
    alerts[e][r][i] = "open" /\ SetStatus(e, r, i, "acknowledged")

\* resolve_alert: whatever its status.
Resolve(e, r) ==
  LoopFree /\ \E i \in DOMAIN alerts[e][r] :
    alerts[e][r][i] # "resolved" /\ SetStatus(e, r, i, "resolved")

\* Studio dies and starts again: what the agents hold in memory is gone.
WatchdogRestarts ==
  /\ Spend
  /\ call' = NoCall /\ pending' = {} /\ subscribed' = TRUE
  /\ UNCHANGED <<tables, alerts, receipts, clock>>

-----------------------------------------------------------------------------

UpkeepInit ==
  /\ text \in Worlds
  /\ ent = [e \in Entities |-> [NoRow EXCEPT !.version = IF e \in Old THEN 1 ELSE 0]]
  /\ edges = {} /\ importance = [e \in Entities |-> 0]
  /\ vector = [e \in Entities |-> NoVector]
  /\ compiled = {}
  /\ alerts = [e \in Entities |-> [r \in Rules |-> <<>>]]
  /\ receipts = {} /\ subscribed = TRUE /\ pending = {}
  /\ call = NoCall /\ clock = 0
  /\ spent = 0

Organize == BeginClassify \/ EndClassify \/ Recompute \/ Propose \/ BeginEmbed \/ EndEmbed
Watch == Debounce \/ Sweep

UpkeepNext ==
  \/ \E e \in Entities : IngestEntity(e) \/ WriteEntity(e) \/ CompileSkill(e)
  \/ \E s, t \in Entities : AddEdge(s, t)
  \/ Tick \/ Organize \/ CallFails \/ Watch \/ WatchdogRestarts
  \/ \E e \in Entities, r \in Rules : Acknowledge(e, r) \/ Resolve(e, r)

UpkeepSpec == UpkeepInit /\ [][UpkeepNext]_upkeepVars

\* Each loop sleeps and runs again, and asyncio runs the tasks that are ready in
\* turn; a provider's call has a timeout.
UpkeepFairSpec ==
  /\ UpkeepSpec
  /\ SF_upkeepVars(BeginClassify) /\ WF_upkeepVars(EndClassify)
  /\ SF_upkeepVars(BeginEmbed) /\ WF_upkeepVars(EndEmbed)
  /\ SF_upkeepVars(Propose) /\ SF_upkeepVars(Sweep)

-----------------------------------------------------------------------------
(* Properties.                                                             *)

UpkeepTypeOK ==
  /\ text \in Worlds /\ \A e \in Entities : text[e] \in Text
  /\ ent \in [Entities -> [version : 0..MaxVersion, cluster : Clusters \cup {None},
                           created : 0..MaxClock, touched : 0..MaxClock]]
  /\ importance \in [Entities -> Nat]
  /\ call.stage \in {"none", "classify", "embed"}
  /\ alerts \in [Entities -> [Rules -> Seq(ActiveStatuses \cup {"resolved"})]]
  /\ pending \cup compiled \subseteq Entities

\* An entity has at most one active alert of a rule, whatever events, sweeps,
\* acknowledgements and resolutions meet (_existing_active_alert), and a
\* receipt is of an alert that exists.
OneActiveAlert ==
  /\ UpkeepTypeOK
  /\ \A e \in Entities, r \in Rules :
       Cardinality({i \in DOMAIN alerts[e][r] : alerts[e][r][i] \in ActiveStatuses}) <= 1
  /\ \A p \in receipts : p[3] \in DOMAIN alerts[p[1]][p[2]]

\* The stored hash is that of the text the vector was made of, whatever was
\* written during the provider's call (embed_entities_batch).
VectorsMatchTheirHash == \A e \in Entities : vector[e].of = vector[e].hash

\* Again and again every violation the rules see has an active alert, also after
\* its alert was resolved, its event was lost, or the queue was dropped.
ViolationsAreFlagged ==
  []<>(\A e \in Present, r \in Rules : Fires(r, e) => Active(e, r))

\* When nobody writes any more, every entity gets a cluster and a vector of its
\* present content, and entities of one cluster are linked.
BrainSettles ==
  <>[](/\ Unplaced = {} /\ Proposals = {}
       /\ \A e \in Present : vector[e].of = Content(e))
=============================================================================
