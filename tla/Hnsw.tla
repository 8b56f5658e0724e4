-------------------------------- MODULE Hnsw --------------------------------
(***************************************************************************)
(* IndexHNSW: a layered graph that is searched from the top layer down.    *)
(* A removed row stays in the graph as a tombstone, on which searches may  *)
(* pass, until the tombstones are too many and the live rows are inserted  *)
(* into an empty graph.  Levels are drawn at random; everything else is a  *)
(* function of the graph.                                                  *)
(*                                                                         *)
(* Rows are places on a line.  Compressed rows, whose distances come from  *)
(* a table, differ only in the distances.  Equal distances keep their      *)
(* order when links are pruned; std::sort promises none.                   *)
(***************************************************************************)
EXTENDS Integers, Sequences, SequencesExt, FiniteSets

CONSTANTS
    Ids, PlacesOf, NoPlace,
    Levels,             \* levels that random_level() may draw: 0..n
    MaxConnections,     \* params_.max_connections
    EfConstruction, EfSearch,
    RatioParts, RatioWhole, \* params_.compaction_ratio, as a fraction
    MaxNodes            \* bound on the rows of the graph, tombstones included

ASSUME HnswAssumption ==
    /\ DOMAIN PlacesOf = Ids
    /\ \A id \in Ids : PlacesOf[id] \subseteq Nat /\ NoPlace \notin PlacesOf[id]
    /\ \A n \in Levels : n \in Nat /\ 0..n \subseteq Levels
    /\ MaxConnections \in Nat \ {0}
    /\ EfConstruction \in Nat \ {0} /\ EfSearch \in Nat \ {0}
    /\ RatioParts \in Nat /\ RatioWhole \in Nat \ {0}
    /\ MaxNodes \in Nat

VARIABLES
    graph,          \* its rows (ids_, data_, node_levels_, links_, deleted_),
                    \* entry_point_ and max_level_
    nodeOf,         \* id_to_node_
    deletedCount    \* deleted_count_

vars == <<graph, nodeOf, deletedCount>>

NoNode == 0
Empty == [nodes |-> <<>>, entry |-> NoNode, top |-> -1]

Live(G) == {n \in DOMAIN G.nodes : ~G.nodes[n].dead}

\* The index that the graph stands for.
Content ==
    [id \in Ids |-> LET own == {n \in Live(graph) : graph.nodes[n].id = id} IN
                    IF own = {} THEN NoPlace ELSE graph.nodes[CHOOSE n \in own : TRUE].at]

Index == INSTANCE VectorIndex WITH content <- Content

-----------------------------------------------------------------------------
(* Loops and orders. *)

\* What n turns of a loop make of a start.
Loop(Turn(_, _), start, n) ==
    LET after[i \in 0..n] == IF i = 0 THEN start ELSE Turn(after[i - 1], i) IN after[n]

\* The members of S, each after those that an order (a set of pairs) puts before it.
Sorted(S, order) ==
    [i \in 1..Cardinality(S) |->
        CHOOSE x \in S : Cardinality({y \in S : <<y, x>> \in order}) = i - 1]

-----------------------------------------------------------------------------
(* search_layer *)

Far(G, q, n) == Index!Distance(q, G.nodes[n].at)

\* The order of pairs of a distance and a node.
Before(G, q, m, n) ==
    \/ Far(G, q, m) < Far(G, q, n)
    \/ Far(G, q, m) = Far(G, q, n) /\ m < n

Farthest(G, q, S) == CHOOSE n \in S : \A m \in S \ {n} : Before(G, q, m, n)
Closest(G, q, S) == CHOOSE n \in S : \A m \in S \ {n} : Before(G, q, n, m)

Ascending(G, q, S) == Sorted(S, {p \in S \X S : Before(G, q, p[1], p[2])})

\* A neighbour joins the frontier and the result if it is nearer than the
\* farthest result, or if there is room.
Offer(G, q, ef, beam, n) ==
    IF n \in beam.visited THEN beam
    ELSE IF \/ Far(G, q, n) < Far(G, q, Farthest(G, q, beam.result))
            \/ Cardinality(beam.result) < ef
    THEN LET result == beam.result \union {n} IN
         [visited |-> beam.visited \union {n},
          frontier |-> beam.frontier \union {n},
          result |-> IF Cardinality(result) > ef
                     THEN result \ {Farthest(G, q, result)} ELSE result]
    ELSE [beam EXCEPT !.visited = @ \union {n}]

Finished(G, q, ef, beam) ==
    \/ beam.frontier = {}
    \/ /\ Far(G, q, Closest(G, q, beam.frontier)) > Far(G, q, Farthest(G, q, beam.result))
       /\ Cardinality(beam.result) >= ef

Expand(G, q, ef, level, beam) ==
    IF Finished(G, q, ef, beam) THEN beam
    ELSE LET n == Closest(G, q, beam.frontier)
             links == G.nodes[n].links[level]
         IN Loop(LAMBDA b, i : Offer(G, q, ef, b, links[i]),
                 [beam EXCEPT !.frontier = @ \ {n}], Len(links))

Entered(from) == [visited |-> {from}, frontier |-> {from}, result |-> {from}]

\* No node is expanded twice.
SearchLayer(G, q, from, ef, level) ==
    Ascending(G, q, Loop(LAMBDA beam, i : Expand(G, q, ef, level, beam),
                         Entered(from), Len(G.nodes)).result)

-----------------------------------------------------------------------------
(* connect *)

MaxLinks(level) == IF level = 0 THEN 2 * MaxConnections ELSE MaxConnections

\* The diversity heuristic: a candidate is linked unless it is nearer to one
\* already chosen than to the new node.
Diverse(G, q, chosen, c) ==
    \A i \in DOMAIN chosen : Far(G, G.nodes[c].at, chosen[i]) >= Far(G, q, c)

Select(G, q, found, most) ==
    Loop(LAMBDA chosen, i : IF Len(chosen) < most /\ Diverse(G, q, chosen, found[i])
                            THEN Append(chosen, found[i]) ELSE chosen,
         <<>>, Len(found))

\* A list that has grown too long keeps the nearest, nearest first.
Pruned(G, n, links, most) ==
    LET far(i) == Far(G, G.nodes[n].at, links[i])
        positions == Sorted(DOMAIN links,
            {p \in (DOMAIN links) \X (DOMAIN links) :
                far(p[1]) < far(p[2]) \/ (far(p[1]) = far(p[2]) /\ p[1] < p[2])})
    IN IF Len(links) <= most THEN links ELSE [i \in 1..most |-> links[positions[i]]]

Relinked(G, n, level, links) == [G EXCEPT !.nodes[n].links[level] = links]

Link(G, node, n, level) ==
    LET back == Append(G.nodes[n].links[level], node) IN
    Relinked(Relinked(G, node, level, Append(G.nodes[node].links[level], n)),
             n, level, Pruned(G, n, back, MaxLinks(level)))

Connect(G, node, found, level) ==
    LET chosen == Select(G, G.nodes[node].at, found, MaxLinks(level)) IN
    Loop(LAMBDA H, i : Link(H, node, chosen[i], level), G, Len(chosen))

-----------------------------------------------------------------------------
(* insert_unchecked *)

Row(id, at, level) ==
    [id |-> id, at |-> at, level |-> level, dead |-> FALSE,
     links |-> [l \in 0..level |-> <<>>]]

\* Mutant: the entry point stays where it is.
RaiseNothing(G, node, level) == G

Raise(G, node, level) ==
    IF level > G.top THEN [G EXCEPT !.entry = node, !.top = level] ELSE G

\* One layer: with a beam of one above the new node's own, and on each of its
\* layers find the nearest and link to them.
Descend(w, node, level, l) ==
    LET at == w.graph.nodes[node].at
        found == SearchLayer(w.graph, at, w.from, IF l > level THEN 1 ELSE EfConstruction, l)
    IN [graph |-> IF l > level THEN w.graph ELSE Connect(w.graph, node, found, l),
        from |-> Head(found)]

Insert(G, id, at, level) ==
    LET node == Len(G.nodes) + 1
        added == [G EXCEPT !.nodes = Append(@, Row(id, at, level))]
        walked == Loop(LAMBDA w, i : Descend(w, node, level, G.top + 1 - i),
                       [graph |-> added, from |-> G.entry], G.top + 1)
    IN IF G.entry = NoNode
       THEN [added EXCEPT !.entry = node, !.top = level]
       ELSE Raise(walked.graph, node, level)

\* A graph of the given rows, inserted in their order with the given levels.
Built(rows, levels) ==
    Loop(LAMBDA G, i : Insert(G, rows[i].id, rows[i].at, levels[i]), Empty, Len(rows))

\* Mutant: tombstones are carried over as live rows.
AllRows(nodes) == [n \in DOMAIN nodes |-> [nodes[n] EXCEPT !.dead = FALSE]]

\* The live rows, in their order.
LiveRows(nodes) ==
    LET alive == {n \in DOMAIN nodes : ~nodes[n].dead}
        positions == Sorted(alive, {p \in alive \X alive : p[1] < p[2]})
    IN [i \in 1..Cardinality(alive) |-> nodes[positions[i]]]

Numbered(nodes) ==
    [id \in Ids |-> IF \E n \in DOMAIN nodes : nodes[n].id = id
                    THEN CHOOSE n \in DOMAIN nodes : nodes[n].id = id ELSE NoNode]

\* The rest of vacuum(), and of import_snapshot() of what was exported: the graph
\* is made anew from the live rows of nodes.
Rebuild(nodes) ==
    LET rows == LiveRows(nodes) IN
    /\ \E levels \in [DOMAIN rows -> Levels] : graph' = Built(rows, levels)
    /\ nodeOf' = Numbered(rows)
    /\ deletedCount' = 0

-----------------------------------------------------------------------------
(* The operations of the index. *)

AddWithIds(id, at) ==
    /\ Content[id] = NoPlace
    /\ Len(graph.nodes) < MaxNodes
    /\ \E level \in Levels : graph' = Insert(graph, id, at, level)
    /\ nodeOf' = [nodeOf EXCEPT ![id] = Len(graph.nodes) + 1]
    /\ UNCHANGED deletedCount

Crowded(dead, total) == RatioParts > 0 /\ dead * RatioWhole >= RatioParts * total

\* The row becomes a tombstone; if there are too many, vacuum().
RemoveId(id) ==
    LET n == nodeOf[id] IN
    /\ n # NoNode /\ ~graph.nodes[n].dead
    /\ LET nodes == [graph.nodes EXCEPT ![n].dead = TRUE] IN
       IF Crowded(deletedCount + 1, Len(nodes))
       THEN Rebuild(nodes)
       ELSE /\ graph' = [graph EXCEPT !.nodes = nodes]
            /\ deletedCount' = deletedCount + 1
            /\ UNCHANGED nodeOf

Vacuum == deletedCount > 0 /\ Rebuild(graph.nodes)

ImportExported == graph.nodes # <<>> /\ Rebuild(graph.nodes)

\* Mutant: tombstones are hits.
WithTombstones(G, n) == TRUE

Counts(G, n) == ~G.nodes[n].dead

\* Mutant: the beam is not widened for the tombstones.
PlainBeam(k) == IF EfSearch >= k THEN EfSearch ELSE k

\* The beam is widened by the share of the tombstones, up to the whole graph.
Beam(k) ==
    LET ef == IF EfSearch >= k THEN EfSearch ELSE k
        total == Len(graph.nodes)
        live == total - deletedCount
        scaled == IF live = 0 THEN total ELSE (ef * total) \div live
        wide == IF scaled >= ef THEN scaled ELSE ef
    IN IF deletedCount = 0 THEN ef ELSE IF wide <= total THEN wide ELSE total

\* Tombstones are left out after the search.
Search(q, k) ==
    LET from == Loop(LAMBDA n, i : Head(SearchLayer(graph, q, n, 1, graph.top + 1 - i)),
                     graph.entry, graph.top)
        found == SearchLayer(graph, q, from, Beam(k), 0)
        hits == Ascending(graph, q, {n \in ToSet(found) : Counts(graph, n)})
    IN IF graph.entry = NoNode \/ k = 0 \/ Len(graph.nodes) = deletedCount THEN <<>>
       ELSE [i \in 1..(IF Len(hits) <= k THEN Len(hits) ELSE k) |-> graph.nodes[hits[i]].id]

-----------------------------------------------------------------------------
Init == graph = Empty /\ nodeOf = [id \in Ids |-> NoNode] /\ deletedCount = 0

Next ==
    \/ \E id \in Ids : RemoveId(id) \/ \E at \in PlacesOf[id] : AddWithIds(id, at)
    \/ Vacuum \/ ImportExported

Spec == Init /\ [][Next]_vars

-----------------------------------------------------------------------------
(* Properties. *)

Places == UNION {PlacesOf[id] : id \in Ids}

TypeOK ==
    /\ \A n \in DOMAIN graph.nodes :
          /\ graph.nodes[n].id \in Ids /\ graph.nodes[n].at \in PlacesOf[graph.nodes[n].id]
          /\ graph.nodes[n].level \in Levels /\ graph.nodes[n].dead \in BOOLEAN
          /\ DOMAIN graph.nodes[n].links = 0..graph.nodes[n].level
    /\ graph.entry \in 0..Len(graph.nodes) /\ graph.top \in Levels \union {-1}
    /\ nodeOf \in [Ids -> 0..MaxNodes] /\ deletedCount \in 0..MaxNodes

\* Every walk down the layers stays inside the graph: it begins at a node that
\* has the top layer, and a link in a layer leads to another node that has that
\* layer.  No list is longer than allowed, or names a node twice.
GraphIsNavigable ==
    /\ TypeOK
    /\ graph.entry = NoNode <=> graph.nodes = <<>>
    /\ graph.entry # NoNode =>
          /\ graph.nodes[graph.entry].level = graph.top
          /\ \A n \in DOMAIN graph.nodes : graph.nodes[n].level <= graph.top
    /\ \A n \in DOMAIN graph.nodes : \A l \in 0..graph.nodes[n].level :
          LET links == graph.nodes[n].links[l] IN
          /\ Len(links) <= MaxLinks(l)
          /\ \A i \in DOMAIN links :
                /\ links[i] \in DOMAIN graph.nodes \ {n}
                /\ l <= graph.nodes[links[i]].level
                /\ \A j \in DOMAIN links : links[i] = links[j] => i = j

\* A search returns records that are in the index, in the right order.  While no
\* list has to be pruned and the live rows fit the beam, the graph is an exact
\* index, whatever tombstones lie in the way.
SmallGraphsAreExact ==
    \A q \in Places, k \in 0..3 :
        /\ Index!Legal(Search(q, k), q, k)
        /\ Len(graph.nodes) <= MaxLinks(0) + 1 /\ Cardinality(Live(graph)) <= EfSearch
           => Index!Exact(Search(q, k), q, k)

\* Seen from outside the graph is an index: the compaction that a removal sets
\* off, vacuum() and a snapshot that is read back lose no row and bring none back.
IsAnIndex == Index!Spec
=============================================================================
