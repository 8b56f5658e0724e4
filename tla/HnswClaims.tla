----------------------------- MODULE HnswClaims -----------------------------
(***************************************************************************)
(* What is said of a graph with tombstones and the code does not keep.     *)
(***************************************************************************)
EXTENDS MCHnsw

\* IndexHNSW.hpp:28: "search widens its beam by the dead fraction, so a tombstoned
\* graph still returns k live results rather than silently fewer".
EnoughHits ==
    \A q \in Places, k \in 1..3 :
        Len(Search(q, k)) = (IF k <= Cardinality(Live(graph)) THEN k ELSE Cardinality(Live(graph)))

\* IndexHNSW.cpp:269: a rebuild "restores full graph connectivity".
RebuiltGraphsAreConnected ==
    deletedCount = 0 => \A n \in DOMAIN graph.nodes :
        n \in ToSet(SearchLayer(graph, graph.nodes[n].at, graph.entry, Len(graph.nodes), 0))
=============================================================================
