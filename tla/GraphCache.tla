----------------------------- MODULE GraphCache -----------------------------
(* The brain as an MCP server reads it (mcp/server.py): the in-memory graph  *)
(* that traverse and walk use, its refresh, and query_brain's search of the   *)
(* database, one SELECT after the other, while other processes write.         *)
(*                                                                           *)
(* An MCP server answers one call at a time.  A version of a row is the       *)
(* timestamp it was written with; the timestamp is taken before the writer    *)
(* gets the database's lock, so rows may be committed out of its order.       *)
EXTENDS Retrieval

CONSTANTS
  Entities,   \* entity ids
  Edges,      \* edge ids
  Ends,       \* the ends of each, [from |-> , to |-> ]
  Row(_, _),  \* the row of an entity in a version, without id and version
  Starts,     \* the rows there may be when the server starts
  Waiting,    \* writers that may wait for the lock at once
  MaxStamp,   \* bound: rows written
  Modes,      \* search modes asked for
  Clusters,   \* clusters asked for; NoCluster asks for all
  NoCluster,
  TopK,       \* rows asked for
  Seeds,      \* rows graph search starts from, and other methods list at least (25)
  RankSeeds,  \* rows association starts from at least (15)
  MostRows,   \* rows a list may have (50)
  MaxDepth,   \* how far a traversal may go (6)
  Caps,       \* ids a traversal may visit (200)
  MaxFailures,\* bound: refreshes that fail
  MaxRemoved  \* bound: rows removed

ASSUME RowsAssumption == IsFiniteSet(Entities \cup Edges) /\ Entities \cap Edges = {}
ASSUME EndsAssumption == Ends \in [Edges -> [from : Entities, to : Entities]]
ASSUME StartsAssumption ==   \* an edge has both of its ends
  /\ Starts \subseteq [Entities \cup Edges -> 0..MaxStamp]
  /\ \A start \in Starts, x \in Edges :
       start[x] > 0 => start[Ends[x].from] > 0 /\ start[Ends[x].to] > 0
ASSUME RowAssumption ==
  \A e \in Entities, v \in 1..MaxStamp :
    LET row == Row(e, v)
    IN  {row.weight, row.near, row.title} \subseteq Int /\ row.match \in Nat
ASSUME ModesAssumption ==    \* the search box, and hybrid_search's modes
  Modes \subseteq {"titles", "lexical", "semantic", "graph", "hybrid", "ppr"}
ASSUME LimitsAssumption ==
  /\ {MaxStamp, Waiting, TopK, Seeds, RankSeeds, MostRows, MaxDepth} \cup Caps \subseteq Nat \ {0}
  /\ TopK <= MostRows /\ Seeds <= MostRows

VARIABLES
  db,       \* version of each entity, 0 before it has a row, Gone after
  links,    \* created_at of each edge, likewise
  clock,    \* last timestamp taken
  waiting,  \* writes that have their timestamp and wait for the lock
  ents,     \* cached version of each entity, 0 if it is not in the cache
  out, inn, \* how often each edge is in its source's and its target's list
  sync,     \* counts and newest timestamps of the last refresh
  fresh,    \* the time to live has not run out
  rd,       \* what the refresh under way has read
  ask,      \* the search under way, or the last one's answer
  late,     \* history: rows committed after a newer one of their table
  raced,    \* history: edges committed while a refresh was under way
  quiet,    \* history: nothing has been committed since the search began
  failures  \* refreshes that failed

store == <<db, links, clock, waiting, late, raced, quiet>>
cache == <<ents, out, inn, sync, fresh>>
cacheVars  == <<store, cache, rd, ask, failures>>

Rows == Entities \cup Edges
Gone == -1   \* ids are drawn at random: a deleted one never comes back
Present(f) == {r \in DOMAIN f : f[r] > 0}
Newest(f) == Max({f[r] : r \in Present(f)} \cup {0})
NoFigures == [ec |-> 0, xc |-> 0, em |-> 0, xm |-> 0]
Idle == [stage |-> "idle", ec |-> 0, xc |-> 0, em |-> 0, xm |-> 0,
         held |-> [e \in Entities |-> 0]]
NoLists == [m \in {} |-> <<>>]
NoAsk == [stage |-> "none", mode |-> "none", cluster |-> NoCluster, seeds |-> FALSE,
          window |-> {}, lists |-> NoLists, near |-> {}, answer |-> <<>>]

CacheTypeOK ==
  /\ db \in [Entities -> Gone..MaxStamp] /\ links \in [Edges -> Gone..MaxStamp]
  /\ clock \in 0..MaxStamp /\ waiting \subseteq [row : Rows, at : 1..MaxStamp]
  /\ ents \in [Entities -> 0..MaxStamp] /\ DOMAIN out = Edges /\ DOMAIN inn = Edges
  /\ fresh \in BOOLEAN /\ quiet \in BOOLEAN /\ late \subseteq Rows /\ raced \subseteq Edges

CacheInit ==
  /\ \E start \in Starts : /\ db = Restrict(start, Entities)
                           /\ links = Restrict(start, Edges)
  /\ clock = Max({0} \cup UNION {Range(start) : start \in Starts})
  /\ waiting = {} /\ late = {} /\ raced = {} /\ quiet = FALSE
  /\ ents = [e \in Entities |-> 0] /\ out = [x \in Edges |-> 0]
  /\ inn = [x \in Edges |-> 0] /\ sync = NoFigures /\ fresh = FALSE
  /\ rd = Idle /\ ask = NoAsk /\ failures = 0
-----------------------------------------------------------------------------
(* Other processes write.                                                    *)

(* A row gets its timestamp; add_edge first looks for the edge.             *)
Stamp(r) ==
  /\ clock < MaxStamp
  /\ Cardinality(waiting) < Waiting
  /\ r \in Edges => links[r] = 0
  /\ r \in Entities => db[r] # Gone
  /\ r \notin {w.row : w \in waiting}
  /\ clock' = clock + 1
  /\ waiting' = waiting \cup {[row |-> r, at |-> clock + 1]}
  /\ UNCHANGED <<db, links, late, raced, quiet, cache, rd, ask>>

(* An edge needs both of its ends, or the foreign keys refuse it.           *)
Commit(w) ==
  /\ waiting' = waiting \ {w}
  /\ quiet' = FALSE
  /\ \/ /\ w.row \in Entities
        /\ db' = [db EXCEPT ![w.row] = w.at]
        /\ late' = IF w.at < Max({Newest(db), rd.em, sync.em})
                   THEN late \cup {w.row} ELSE late \ {w.row}
        /\ UNCHANGED <<links, raced>>
     \/ /\ w.row \in Edges
        /\ {Ends[w.row].from, Ends[w.row].to} \subseteq Present(db)
        /\ links' = [links EXCEPT ![w.row] = w.at]
        /\ late' = IF w.at < Max({Newest(links), rd.xm, sync.xm})
                   THEN late \cup {w.row} ELSE late
        /\ raced' = IF rd.stage = "idle" THEN raced ELSE raced \cup {w.row}
        /\ UNCHANGED db
     \/ /\ w.row \in Edges
        /\ ~({Ends[w.row].from, Ends[w.row].to} \subseteq Present(db))
        /\ UNCHANGED <<db, links, late, raced>>
  /\ UNCHANGED <<clock, cache, rd, ask>>

Removed == {e \in Entities : db[e] = Gone} \cup {x \in Edges : links[x] = Gone}

RemoveEdge(x) ==
  /\ Cardinality(Removed) < MaxRemoved
  /\ links[x] > 0
  /\ links' = [links EXCEPT ![x] = Gone]
  /\ quiet' = FALSE
  /\ UNCHANGED <<db, clock, waiting, late, raced, cache, rd, ask>>

DeleteEntity(e) ==
  /\ Cardinality(Removed) < MaxRemoved
  /\ db[e] > 0 /\ e \notin {w.row : w \in waiting}
  /\ \A x \in Present(links) : e \notin {Ends[x].from, Ends[x].to}
  /\ db' = [db EXCEPT ![e] = Gone]
  /\ quiet' = FALSE
  /\ UNCHANGED <<links, clock, waiting, late, raced, cache, rd, ask>>
-----------------------------------------------------------------------------
(* _refresh_cache_if_needed: four figures, then what changed or everything.  *)

TimesOut == /\ fresh /\ rd.stage = "idle" /\ fresh' = FALSE
            /\ UNCHANGED <<store, ents, out, inn, sync, rd, ask>>

CountEntities ==
  /\ rd.stage = "idle" /\ ~fresh /\ ask.stage = "none"
  /\ rd' = [Idle EXCEPT !.stage = "count_edges", !.ec = Cardinality(Present(db))]
  /\ UNCHANGED <<store, cache, ask>>

CountEdges ==
  /\ rd.stage = "count_edges"
  /\ rd' = [rd EXCEPT !.stage = "newest_entity", !.xc = Cardinality(Present(links))]
  /\ UNCHANGED <<store, cache, ask>>

NewestEntity ==
  /\ rd.stage = "newest_entity"
  /\ rd' = [rd EXCEPT !.stage = "newest_edge", !.em = Newest(db)]
  /\ UNCHANGED <<store, cache, ask>>

RequiresFullRebuild ==
  \/ sync.ec = 0 \/ rd.ec < sync.ec \/ rd.xc < sync.xc
  \/ sync.em = 0 \/ sync.xm = 0

NewestEdge ==
  /\ rd.stage = "newest_edge"
  /\ rd' = [rd EXCEPT !.stage = IF RequiresFullRebuild THEN "all_entities"
                                ELSE "changed_entities",
                      !.xm = Newest(links)]
  /\ UNCHANGED <<store, cache, ask>>

SyncedLate == /\ sync' = [ec |-> rd.ec, xc |-> rd.xc, em |-> Newest(db), xm |-> rd.xm]
              /\ fresh' = TRUE
              /\ rd' = Idle
Synced == /\ sync' = [ec |-> rd.ec, xc |-> rd.xc, em |-> rd.em, xm |-> rd.xm]
          /\ fresh' = TRUE
          /\ rd' = Idle

AllEntities ==
  /\ rd.stage = "all_entities"
  /\ rd' = [rd EXCEPT !.stage = "all_edges", !.held = [e \in Entities |-> Max({db[e], 0})]]
  /\ UNCHANGED <<store, cache, ask>>

(* The new graph replaces the old; an edge joins the list of an end the      *)
(* first SELECT has brought.                                                 *)
FullRebuild ==
  /\ rd.stage = "all_edges"
  /\ ents' = rd.held
  /\ out' = [x \in Edges |-> IF links[x] > 0 /\ rd.held[Ends[x].from] # 0 THEN 1 ELSE 0]
  /\ inn' = [x \in Edges |-> IF links[x] > 0 /\ rd.held[Ends[x].to] # 0 THEN 1 ELSE 0]
  /\ Synced
  /\ raced' = {x \in raced : links[x] > rd.xm}
  /\ UNCHANGED <<db, links, clock, waiting, late, quiet, ask>>

ChangedEntitiesAhead ==
  /\ rd.stage = "changed_entities"
  /\ ents' = [e \in Entities |-> IF db[e] > rd.em THEN db[e] ELSE ents[e]]
  /\ rd' = [rd EXCEPT !.stage = "new_edges"]
  /\ UNCHANGED <<store, out, inn, sync, fresh, ask>>

(* Rows changed since the last refresh; none is read if there is no row.     *)
ChangedEntities ==
  /\ rd.stage = "changed_entities"
  /\ ents' = [e \in Entities |-> IF rd.em # 0 /\ db[e] > sync.em THEN db[e] ELSE ents[e]]
  /\ rd' = [rd EXCEPT !.stage = "new_edges"]
  /\ UNCHANGED <<store, out, inn, sync, fresh, ask>>

(* New edges are appended, whether or not they are there.                    *)
IncrementalSync ==
  /\ rd.stage = "new_edges"
  /\ LET new == IF rd.xm = 0 THEN {} ELSE {x \in Edges : links[x] > sync.xm}
     IN  /\ out' = [x \in Edges |-> IF x \in new THEN out[x] + 1 ELSE out[x]]
         /\ inn' = [x \in Edges |-> IF x \in new THEN inn[x] + 1 ELSE inn[x]]
  /\ Synced
  /\ UNCHANGED <<store, ents, ask>>

(* The database is locked: the call fails, what is cached stays.             *)
RefreshFails ==
  /\ rd.stage # "idle" /\ failures < MaxFailures
  /\ rd' = Idle /\ failures' = failures + 1
  /\ UNCHANGED <<store, cache, ask>>
-----------------------------------------------------------------------------
(* traverse: breadth first over the cached lists, up to a depth, at most cap  *)
(* ids visited.  An id is visited when it is queued, listed when it is taken. *)

Listing(e, dir) ==
  LET Copies(x, times, next) == {[next |-> next, edge |-> x, copy |-> i] : i \in 1..times}
      outOf == UNION {Copies(x, out[x], Ends[x].to) : x \in {y \in Edges : Ends[y].from = e}}
      into  == UNION {Copies(x, inn[x], Ends[x].from) : x \in {y \in Edges : Ends[y].to = e}}
  IN  SetToSeq(IF dir = "incoming" THEN {} ELSE outOf)
        \o SetToSeq(IF dir = "outgoing" THEN {} ELSE into)

VisitAgain(t, rel, depth, cap) ==
  IF t.full THEN t
  ELSE [t EXCEPT !.steps = Append(@, rel.edge),
                 !.visited = @ \cup {rel.next},
                 !.full = Cardinality(t.visited \cup {rel.next}) >= cap,
                 !.queue = Append(@, <<rel.next, depth>>)]
Visit(t, rel, depth, cap) ==
  IF t.full THEN t
  ELSE IF rel.next \in t.visited THEN [t EXCEPT !.steps = Append(@, rel.edge)]
  ELSE LET visited == t.visited \cup {rel.next}
           full == Cardinality(visited) >= cap
       IN  [t EXCEPT !.steps = Append(@, rel.edge),
                     !.visited = visited, !.full = full,
                     !.queue = IF full THEN @ ELSE Append(@, <<rel.next, depth>>)]

VisitAll(t, rels, depth, cap) ==
  LET after[i \in 0..Len(rels)] ==
        IF i = 0 THEN t ELSE Visit(after[i - 1], rels[i], depth, cap)
  IN  after[Len(rels)]

Take(t, most, dir, cap) ==
  IF t.queue = <<>> \/ Cardinality(t.visited) >= cap THEN t
  ELSE LET e == Head(t.queue)[1]
           depth == Head(t.queue)[2]
           taken == [t EXCEPT !.queue = Tail(@), !.nodes = Append(@, <<e, depth>>)]
       IN  IF depth >= most THEN taken
           ELSE VisitAll(taken, Listing(e, dir), depth + 1, cap)

(* An id is queued once, when it is visited: cap is as often as any is taken. *)
Searched(t, most, dir, cap) ==
  LET after[i \in 0..cap] == IF i = 0 THEN t ELSE Take(after[i - 1], most, dir, cap)
  IN  after[cap]

Traverse(e, most, dir, cap) ==
  LET t == Searched([queue |-> <<<<e, 0>>>>, visited |-> {e}, nodes |-> <<>>,
                    steps |-> <<>>, full |-> FALSE], most, dir, cap)
  IN  [nodes |-> t.nodes, steps |-> t.steps,
       truncated |-> Cardinality(t.visited) >= cap]

(* walk: the rows one hop from a frontier that the cache holds.              *)
Hops(frontier, dir) ==
  {e \in Entities \ frontier :
     /\ ents[e] # 0
     /\ \E f \in frontier : e \in {rel.next : rel \in ToSet(Listing(f, dir))}}

(* get_entity asks the database itself, at most two hops away; it never       *)
(* follows a neighbour it has met.                                           *)
Neighbors(e, depth) ==
  LET Around(S) == {Ends[x].to : x \in {y \in Present(links) : Ends[y].from \in S}}
              \cup {Ends[x].from : x \in {y \in Present(links) : Ends[y].to \in S}}
      once == Around({e})
  IN  (IF depth = 1 THEN once ELSE once \cup Around(once)) \ {e}
-----------------------------------------------------------------------------
(* query_brain, after the refresh: hybrid_search and what it calls.          *)

Entry(e) ==
  LET row == Row(e, db[e])
  IN  [id |-> e, at |-> db[e], weight |-> row.weight, cluster |-> row.cluster,
       match |-> row.match, near |-> row.near, title |-> row.title]
Eligible(cluster) ==
  {r \in {Entry(e) : e \in Present(db)} : cluster \in {NoCluster, r.cluster}}
Among(ids) == {[edge |-> x, from |-> Ends[x].from, to |-> Ends[x].to] :
                 x \in {y \in Present(links) : {Ends[y].from, Ends[y].to} \cap ids # {}}}

(* The lists of a search: one more, found by method m.                       *)
With(lists, m, list) ==
  [k \in DOMAIN lists \cup {m} |-> IF k = m THEN list ELSE lists[k]]

Ask(mode, cluster) ==
  /\ rd.stage = "idle" /\ fresh /\ ask.stage = "none"
  /\ ask' = [NoAsk EXCEPT !.stage = IF mode = "semantic" THEN "vectors" ELSE "candidates",
                          !.mode = mode, !.cluster = cluster, !.seeds = mode = "graph"]
  /\ quiet' = TRUE
  /\ UNCHANGED <<db, links, clock, waiting, late, raced, cache, rd>>

Candidates ==
  /\ ask.stage = "candidates"
  /\ ask' = [ask EXCEPT !.stage = "connections", !.window = Window(Eligible(ask.cluster))]
  /\ UNCHANGED <<store, cache, rd>>

(* Lists wider than the answer, so that fusion has something to work with.   *)
Wide == Least(MostRows, IF ask.mode = "ppr" THEN Max({TopK, RankSeeds})
                        ELSE Max({4 * TopK, Seeds}))

(* What follows the lexical list: graph_search calls it for its seeds.       *)
Connections ==
  /\ ask.stage = "connections"
  /\ LET touching == Among(Ids(SetToSeq(ask.window)))
         list == Lexical(ask.window, touching, IF ask.seeds THEN Seeds ELSE Wide)
     IN  ask' = IF ask.mode = "titles"
                THEN [ask EXCEPT !.stage = "answered", !.window = {},
                                 !.answer = TitleSearch(ask.window, touching, TopK)]
                ELSE IF ask.seeds
                THEN [ask EXCEPT !.stage = "edges", !.answer = list, !.window = {}]
                ELSE [ask EXCEPT !.lists = With(@, "lexical", list), !.window = {},
                                 !.stage = IF ask.mode = "lexical" THEN "fuse"
                                           ELSE "vectors"]
  /\ UNCHANGED <<store, cache, rd>>

(* The query's own vector comes from a provider, which may fail: ppr goes on *)
(* without, the other modes raise.                                           *)
Vectors ==
  /\ ask.stage = "vectors"
  /\ ask' = [ask EXCEPT
       !.lists = With(@, "semantic", Semantic(Eligible(ask.cluster), Wide)),
       !.stage = CASE ask.mode = "semantic" -> "fuse"
                   [] ask.mode = "ppr"      -> "nodes"
                   [] OTHER                 -> "candidates",
       !.seeds = TRUE]
  /\ UNCHANGED <<store, cache, rd>>

ProviderFails ==
  /\ ask.stage = "vectors"
  /\ ask' = IF ask.mode = "ppr" THEN [ask EXCEPT !.stage = "nodes"] ELSE NoAsk
  /\ UNCHANGED <<store, cache, rd>>

EdgesOfSeeds ==
  /\ ask.stage = "edges"
  /\ ask' = IF ask.answer = <<>>
            THEN [ask EXCEPT !.stage = "fuse", !.lists = With(@, "graph", <<>>)]
            ELSE [ask EXCEPT !.stage = "map", !.near = Among(Ids(ask.answer))]
  /\ UNCHANGED <<store, cache, rd>>

EntityMap ==
  /\ ask.stage = "map"
  /\ ask' = [ask EXCEPT !.stage = "fuse", !.near = {}, !.answer = <<>>,
                        !.lists = With(@, "graph",
                          Graph(ask.answer, ask.near, Window(Eligible(ask.cluster)), Wide))]
  /\ UNCHANGED <<store, cache, rd>>

Answer ==
  /\ ask.stage = "fuse"
  /\ ask' = [ask EXCEPT !.stage = "answered", !.answer = Fuse(ask.lists, TopK),
                        !.lists = NoLists]
  /\ UNCHANGED <<store, cache, rd>>

(* personalized_pagerank_search, once it has its seeds.                      *)
SeedIds == InAny(ask.lists)
Nodes ==
  /\ ask.stage = "nodes"
  /\ ask' = IF SeedIds = {} THEN [ask EXCEPT !.stage = "answered", !.lists = NoLists]
            ELSE [ask EXCEPT !.stage = "rank", !.window = Window(Eligible(ask.cluster))]
  /\ UNCHANGED <<store, cache, rd>>

Unpropagated(links_) ==
  LET ids == Ids(SetToSeq(ask.window))
  IN  SeedIds \cap ids = {} \/ ~\E x \in links_ : {x.from, x.to} \subseteq ids

(* The ranks are left to choice: those with any may be listed.  Without a     *)
(* seed in the graph, or an edge, plain lexical search answers, as it does    *)
(* where the ranks do not converge.                                          *)
Rank ==
  /\ ask.stage = "rank"
  /\ LET near  == Among(Ids(SetToSeq(ask.window)))
         found == Associated(SeedIds, near, ask.window)
     IN  \/ ask' = [ask EXCEPT !.stage = "candidates", !.mode = "lexical",
                               !.seeds = FALSE, !.window = {}, !.lists = NoLists]
         \/ /\ ~Unpropagated(near)
            /\ \E top \in kSubset(Least(TopK, Cardinality(found)), found) :
                 ask' = [ask EXCEPT
                   !.stage = "answered", !.lists = NoLists, !.window = {},
                   !.answer = SetToSeq({[id |-> r.id, at |-> r.at] :
                                        r \in {s \in ask.window : s.id \in top}})]
  /\ UNCHANGED <<store, cache, rd>>

(* The answer is sent; the search's session fails at any statement.          *)
Close == /\ ask.stage # "none" /\ ask' = NoAsk /\ UNCHANGED <<store, cache, rd>>
-----------------------------------------------------------------------------
Write == \/ \E r \in Rows : Stamp(r)
         \/ \E w \in waiting : Commit(w)
         \/ \E x \in Edges : RemoveEdge(x)
         \/ \E e \in Entities : DeleteEntity(e)

Refresh == \/ CountEntities \/ CountEdges \/ NewestEntity \/ NewestEdge
           \/ AllEntities \/ FullRebuild \/ ChangedEntities \/ IncrementalSync

Search == \/ Candidates \/ Connections \/ Vectors \/ EdgesOfSeeds \/ EntityMap
          \/ Answer \/ Nodes \/ Rank

Asks == \E mode \in Modes, c \in Clusters : Ask(mode, c)

CacheNext ==
  \/ RefreshFails
  \/ /\ Write \/ TimesOut \/ Refresh \/ Asks \/ Search \/ ProviderFails \/ Close
     /\ UNCHANGED failures

CacheSpec == CacheInit /\ [][CacheNext]_cacheVars

(* Calls keep coming, so that a cache whose time has run out is refreshed,    *)
(* and each ends.                                                            *)
FairCacheSpec == /\ CacheSpec
                 /\ WF_cacheVars(TimesOut /\ UNCHANGED failures)
                 /\ WF_cacheVars(Refresh /\ UNCHANGED failures)
                 /\ WF_cacheVars(Close /\ UNCHANGED failures)
-----------------------------------------------------------------------------
(* Between refreshes the cache holds every row up to the newest timestamp it  *)
(* has seen, but for rows committed behind that timestamp: an incremental     *)
(* refresh that reads its figures before its rows leaves nothing out.         *)
MissesOnlyLateRows ==
  rd.stage = "idle" =>
    /\ \A e \in Present(db) \ late : db[e] <= sync.em => ents[e] = db[e]
    /\ \A x \in Present(links) \ late :
         links[x] <= sync.xm => out[x] > 0 /\ inn[x] > 0

(* An edge is in a list once, or twice if it was committed while a refresh    *)
(* was between reading the newest timestamp and reading the edges; never a    *)
(* third time, however many refreshes follow.                                *)
EdgesRepeatOnlyIfRaced ==
  \A x \in Edges : Max({out[x], inn[x]}) <= IF x \in raced THEN 2 ELSE 1

(* The cache, then, differs from what is committed by late rows, deleted rows  *)
(* and raced edges alone.                                                    *)
CacheMatchesDatabase == CacheTypeOK /\ MissesOnlyLateRows /\ EdgesRepeatOnlyIfRaced

(* traverse lists each id within reach once, at its distance, whatever the    *)
(* order and the repetitions of the lists; a truncated answer is part of      *)
(* that; walk offers those one hop away that the cache has rows of.  Where    *)
(* cache and database agree, traverse lists what get_entity finds.           *)
WithinReach(e, depth, dir) ==
  LET Hop(S) == S \cup {rel.next : rel \in UNION {ToSet(Listing(f, dir)) : f \in S}}
      ball[d \in 0..depth] == IF d = 0 THEN {e} ELSE Hop(ball[d - 1])
  IN  UNION {{<<f, d>> : f \in ball[d] \ (IF d = 0 THEN {} ELSE ball[d - 1])} :
             d \in 0..depth}
InStep == /\ \A e \in Entities : ents[e] = Max({db[e], 0})
          /\ \A x \in Edges : {out[x], inn[x]} = {IF links[x] > 0 THEN 1 ELSE 0}
ListsWhatIsWithinReach(e, depth, dir, cap) ==
  LET t == Traverse(e, depth, dir, cap)
      reach == WithinReach(e, depth, dir)
  IN  /\ IsInjective(t.nodes)
      /\ ToSet(t.nodes) \subseteq reach
      /\ ~t.truncated => ToSet(t.nodes) = reach
      /\ depth = 1 => Hops({e}, dir) = {f \in {n[1] : n \in reach} \ {e} : ents[f] # 0}
      /\ dir = "both" /\ depth <= 2 /\ InStep =>
           {n[1] : n \in reach} = Neighbors(e, depth) \cup {e}
TraversalIsExact ==
  rd.stage = "idle" /\ fresh /\ ask.stage = "none" =>
    \A e \in {f \in Entities : ents[f] # 0}, depth \in 1..MaxDepth,
       dir \in {"outgoing", "incoming", "both"}, cap \in Caps :
      ListsWhatIsWithinReach(e, depth, dir, cap)

(* An answer lists no row twice and at most as many as asked for, each one    *)
(* committed and in the cluster asked for; if nothing was committed           *)
(* meanwhile, it leaves out only rows that the window leaves out or that      *)
(* others crowd out.  Graph search takes as many matches as seeds, however    *)
(* many rows are asked for: where more match, it may miss what is beside the  *)
(* others.                                                                   *)
Matching == {r.id : r \in {s \in Window(Eligible(ask.cluster)) : s.match > 0}}
Nearby ==
  {r.id : r \in {s \in Window({t \in Eligible(ask.cluster) : t.near >= 0}) : s.near > 0}}
Connected ==
  Matching \cup {r.id : r \in {s \in Window(Eligible(ask.cluster)) :
           \E m \in Matching, x \in Among(Matching) : {x.from, x.to} = {m, s.id}}}
Found == CASE ask.mode \in {"titles", "lexical"} -> Matching
           [] ask.mode = "semantic" -> Nearby
           [] ask.mode = "graph"    -> Connected
           [] OTHER                 -> Connected \cup Nearby
AnswersAreExact ==
  ask.stage = "answered" =>
    /\ Cardinality(Ids(ask.answer)) = Len(ask.answer)
    /\ Len(ask.answer) <= TopK
    /\ quiet /\ ask.mode # "ppr" =>
         /\ Ids(ask.answer) \subseteq Found
         /\ \/ Len(ask.answer) = Least(TopK, Cardinality(Found))
            \/ /\ ask.mode \in {"graph", "hybrid"}
               /\ Seeds < Least(TopK, Cardinality(Matching))
               /\ Seeds <= Len(ask.answer)

(* Once the writing ends the cache comes to hold every row, but for those     *)
(* committed late, and keeps them.                                           *)
CacheCatchesUp ==
  <>[](/\ \A e \in Present(db) \ late : ents[e] = db[e]
       /\ \A x \in Present(links) \ late : out[x] > 0 /\ inn[x] > 0)
=============================================================================
