----------------------------- MODULE Retrieval -----------------------------
(* What a query of the brain finds in the rows it has read                  *)
(* (retrieval/search.py, retrieval/graph_rank.py, api/search.py).           *)
(*                                                                          *)
(* A row is a record [id, at, weight, cluster, match, near, title]: its      *)
(* entity, its updated_at, its composite importance, its cluster, how well   *)
(* its text and its title match the query, how close its vector is to the    *)
(* query's (-1 without a vector), and the place of its title in the alphabet. *)
(* Scores are millionths, the digits the code rounds to.  Everything here is  *)
(* a function of what was read: GraphCache reads it, one SELECT after the     *)
(* other.                                                                   *)
EXTENDS Integers, Sequences, FiniteSets, SequencesExt, FiniteSetsExt

CONSTANTS MaxCandidates   \* rows any query scores (MAX_CANDIDATES)
ASSUME MaxCandidatesAssumption == MaxCandidates \in Nat \ {0}

Methods == {"lexical", "semantic", "graph"}

Least(i, j) == IF i < j THEN i ELSE j

(* The rows in an order that puts none before a row that belongs before it;   *)
(* which of equals comes first is left open.                                 *)
Sorted(rows, Before(_, _)) ==
  CHOOSE seq \in [1..Cardinality(rows) -> rows] :
    /\ IsInjective(seq)
    /\ \A i, j \in DOMAIN seq : i < j => ~Before(seq[j], seq[i])

First(n, seq) == SubSeq(seq, 1, Least(n, Len(seq)))

Ids(list) == {list[i].id : i \in DOMAIN list}

(* The most important rows, the latest of equals first.                     *)
MoreImportant(r, s) ==
  \/ r.weight > s.weight
  \/ r.weight = s.weight /\ r.at > s.at
Window(rows) == ToSet(First(MaxCandidates, Sorted(rows, MoreImportant)))

(* What one method lists: scored rows, best first, then by importance, then *)
(* by title.                                                                *)
Better(x, y) ==
  \/ x.score > y.score
  \/ x.score = y.score /\ x.weight > y.weight
  \/ x.score = y.score /\ x.weight = y.weight /\ x.title < y.title
Listed(rows, Score(_), n) ==
  First(n, Sorted({[id |-> r.id, at |-> r.at, weight |-> r.weight, title |-> r.title,
                    score |-> Score(r)] : r \in rows}, Better))

(* An edge counts for both of its ends; a self-loop twice.                  *)
Degree(e, links) ==
  Cardinality({x \in links : x.from = e}) + Cardinality({x \in links : x.to = e})

(* A matching row scores its match and a little for each connection.        *)
Lexical(window, links, n) ==
  LET Score(r) == r.match + 5000 * Least(Degree(r.id, links), 10)
  IN  Listed({r \in window : r.match > 0}, Score, n)

(* The search box: rows whose title matches, the better connected first among *)
(* equals (api/search.py).                                                   *)
TitleBefore(x, y) ==
  \/ x.score > y.score
  \/ x.score = y.score /\ x.degree > y.degree
  \/ x.score = y.score /\ x.degree = y.degree /\ x.title < y.title
TitleSearch(window, links, n) ==
  First(n, Sorted({[id |-> r.id, at |-> r.at, title |-> r.title, score |-> r.match,
                    degree |-> Degree(r.id, links)] :
                   r \in {s \in window : s.match > 0}}, TitleBefore))

(* Only rows that have a vector compete for the window.                     *)
Semantic(rows, n) ==
  LET Score(r) == r.near
  IN  Listed({r \in Window({s \in rows : s.near >= 0}) : r.near > 0}, Score, n)

(* A neighbour of a seed, over an edge in either direction, scores 86       *)
(* hundredths of the best seed beside it; a seed keeps at least 72 of its    *)
(* own.  Both only if they are in the window read last.                      *)
BesideOutward(seed, e, links) == \E x \in links : x.from = seed /\ x.to = e
Beside(seed, e, links) ==
  \E x \in links : <<x.from, x.to>> \in {<<seed, e>>, <<e, seed>>}
GraphScores(e, seeds, links) ==
  {(72 * s.score) \div 100 : s \in {t \in ToSet(seeds) : t.id = e}}
    \cup {(86 * s.score) \div 100 : s \in {t \in ToSet(seeds) : Beside(t.id, e, links)}}

Graph(seeds, links, window, n) ==
  LET Score(r) == Max(GraphScores(r.id, seeds, links))
  IN  Listed({r \in window : GraphScores(r.id, seeds, links) # {}}, Score, n)

(* Reciprocal rank fusion: 1/(60 + rank) of every list that has the row,     *)
(* rounded to millionths; the row's own fields are those of the first list.  *)
RankOf(e, list) == CHOOSE i \in DOMAIN list : list[i].id = e
Having(e, lists) == {m \in DOMAIN lists : e \in Ids(lists[m])}
Share(e, m, lists) ==
  IF m \in Having(e, lists) THEN 1000000000 \div (60 + RankOf(e, lists[m])) ELSE 0
FusedScore(e, lists) ==
  (Share(e, "lexical", lists) + Share(e, "semantic", lists) + Share(e, "graph", lists) + 500)
    \div 1000
FirstHaving(e, lists) ==
  CHOOSE m \in Having(e, lists) :
    \/ m = "lexical"
    \/ m = "semantic" /\ "lexical" \notin Having(e, lists)
    \/ Having(e, lists) = {m}
FusedBefore(x, y) ==
  \/ x.score > y.score
  \/ x.score = y.score /\ x.methods > y.methods
  \/ x.score = y.score /\ x.methods = y.methods /\ x.title < y.title
Hit(e, lists) ==
  LET list == lists[FirstHaving(e, lists)]
      row == list[RankOf(e, list)]
  IN  [id |-> e, at |-> row.at, title |-> row.title, score |-> FusedScore(e, lists),
       methods |-> Cardinality(Having(e, lists))]
InAny(lists) == UNION {Ids(lists[m]) : m \in DOMAIN lists}
Fuse(lists, n) ==
  First(n, Sorted({Hit(e, lists) : e \in InAny(lists)}, FusedBefore))

(* Personalized PageRank gives weight to what can be reached from a seed     *)
(* along the edges between rows of the window, in their direction; the       *)
(* weight dead ends lose goes back to the seeds.  The figures are left out.   *)
Reached(from, links) ==
  LET after[n \in 0..Cardinality(links)] ==
        IF n = 0 THEN from
        ELSE after[n - 1] \cup {x.to : x \in {y \in links : y.from \in after[n - 1]}}
  IN  after[Cardinality(links)]

Associated(seeds, links, window) ==
  LET ids == {r.id : r \in window}
  IN  Reached(seeds \cap ids, {x \in links : {x.from, x.to} \subseteq ids})
=============================================================================
