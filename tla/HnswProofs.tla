----------------------------- MODULE HnswProofs -----------------------------
(***************************************************************************)
(* A layered graph can always be walked from its entry point down, a       *)
(* search returns records of the index in their order, and all of the      *)
(* nearest ones while no list of the bottom layer has been pruned; and,    *)
(* seen from outside, the graph is an index.  For all ids, places, levels, *)
(* list lengths, beams and compaction ratios.                              *)
(***************************************************************************)
EXTENDS Hnsw, FiniteSetTheorems, SequenceTheorems, WellFoundedInduction, TLAPS

-----------------------------------------------------------------------------
(* Loops. *)

\* A set of natural numbers has a least one.
LEMMA LeastNumber ==
    ASSUME NEW T, T \subseteq Nat, T # {}
    PROVE  \E x \in T : \A y \in T : x <= y
<1> DEFINE R == {ss \in Nat \X Nat : ss[1] < ss[2]}
<1>1. IsWellFoundedOn(R, Nat)
  BY NatLessThanWellFounded, Zenon DEF OpToRel
<1>2. PICK x \in T : \A y \in T : <<y, x>> \notin R
  <2> HIDE DEF R
  <2> QED BY <1>1, WFMin
<1>3. \A y \in T : ~(y < x)
  BY <1>2
<1> QED BY <1>3

\* What holds before a loop, and after a turn if before it, holds after all turns.
LEMMA Turns ==
    ASSUME NEW n \in Nat, NEW T, 0 \in T, \A i \in 1..n : i - 1 \in T => i \in T
    PROVE  \A i \in 0..n : i \in T
<1> DEFINE B == {i \in 0..n : i \notin T}
<1>1. SUFFICES ASSUME B # {} PROVE FALSE
  OBVIOUS
<1>2. PICK i \in B : \A j \in B : i <= j
  <2>1. B \subseteq Nat
    OBVIOUS
  <2> HIDE DEF B
  <2> QED BY <1>1, <2>1, LeastNumber
<1>3. i \in 1..n /\ i - 1 \in 0..n
  BY <1>2
<1>4. i - 1 \notin B
  BY <1>2, <1>3
<1> QED BY <1>2, <1>3, <1>4

\* h lists what the first m turns F[1], F[2], ... make of a start.
IsRun(h, m, start, F) == h[0] = start /\ \A i \in 1..m : h[i] = F[i][h[i - 1]]

\* The values that a loop takes on exist.
LEMMA LoopExists ==
    ASSUME NEW n \in Nat, NEW V, NEW start \in V, NEW F \in [1..n -> [V -> V]]
    PROVE  \E h \in [0..n -> V] : IsRun(h, n, start, F)
<1> DEFINE T == {m \in 0..n : \E h \in [0..m -> V] : IsRun(h, m, start, F)}
<1>1. 0 \in T
  <2> DEFINE g == [i \in 0..0 |-> start]
  <2>1. g \in [0..0 -> V] /\ g[0] = start
    OBVIOUS
  <2> HIDE DEF g
  <2>2. IsRun(g, 0, start, F)
    BY <2>1 DEF IsRun
  <2> QED BY <2>1, <2>2
<1>2. ASSUME NEW m \in 1..n, m - 1 \in T
      PROVE  m \in T
  <2>1. PICK h \in [0..(m - 1) -> V] : IsRun(h, m - 1, start, F)
    BY <1>2
  <2> DEFINE g == [i \in 0..m |-> IF i = m THEN F[m][h[m - 1]] ELSE h[i]]
  <2>2. h[m - 1] \in V /\ F[m][h[m - 1]] \in V
    OBVIOUS
  <2>3. g \in [0..m -> V]
    BY <2>2
  <2>4. /\ g[0] = h[0] /\ g[m] = F[m][h[m - 1]] /\ g[m - 1] = h[m - 1]
        /\ \A i \in 1..(m - 1) : g[i] = h[i] /\ g[i - 1] = h[i - 1]
    OBVIOUS
  <2> HIDE DEF g
  <2>5. IsRun(g, m, start, F)
    BY <2>1, <2>4 DEF IsRun
  <2> QED BY <2>3, <2>5
<1>3. n \in T
  <2> HIDE DEF T
  <2>1. \A i \in 0..n : i \in T
    BY <1>1, <1>2, Turns
  <2> QED BY <2>1
<1> QED BY <1>3

-----------------------------------------------------------------------------
(* Orders. *)

IsOrder(S, R) ==
    /\ \A x \in S : <<x, x>> \notin R
    /\ \A x, y, z \in S : <<x, y>> \in R /\ <<y, z>> \in R => <<x, z>> \in R
    /\ \A x, y \in S : x = y \/ <<x, y>> \in R \/ <<y, x>> \in R

Ahead(S, R, x) == {y \in S : <<y, x>> \in R}
Rank(S, R, x) == Cardinality(Ahead(S, R, x))

\* A part that leaves something out has fewer elements.
LEMMA PartIsLess ==
    ASSUME NEW T, IsFiniteSet(T), NEW U \in SUBSET T, NEW x \in T \ U
    PROVE  Cardinality(U) < Cardinality(T)
<1>1. IsFiniteSet(U) /\ Cardinality(U) <= Cardinality(T) /\ Cardinality(T) # Cardinality(U)
  BY FS_Subset
<1> QED BY <1>1, FS_CardinalityType

\* The rank of a member, how many are before it, tells the members apart.
LEMMA RankFacts ==
    ASSUME NEW S, IsFiniteSet(S), NEW R, IsOrder(S, R)
    PROVE  /\ Cardinality(S) \in Nat
           /\ \A x \in S : Rank(S, R, x) \in 0..(Cardinality(S) - 1)
           /\ \A x, y \in S : <<x, y>> \in R <=> Rank(S, R, x) < Rank(S, R, y)
           /\ \A x, y \in S : Rank(S, R, x) = Rank(S, R, y) => x = y
<1>1. Cardinality(S) \in Nat
  BY FS_CardinalityType
<1>2. ASSUME NEW x \in S
      PROVE  IsFiniteSet(Ahead(S, R, x)) /\ Rank(S, R, x) \in Nat
  <2>1. Ahead(S, R, x) \in SUBSET S
    BY DEF Ahead
  <2> QED BY <2>1, FS_Subset, FS_CardinalityType DEF Rank
<1>3. ASSUME NEW x \in S
      PROVE  Rank(S, R, x) \in 0..(Cardinality(S) - 1)
  <2>1. x \in S \ Ahead(S, R, x) /\ Ahead(S, R, x) \in SUBSET S
    BY DEF Ahead, IsOrder
  <2>2. Rank(S, R, x) < Cardinality(S)
    BY <2>1, PartIsLess DEF Rank
  <2> QED BY <1>1, <1>2, <2>2
<1>4. ASSUME NEW x \in S, NEW y \in S, <<x, y>> \in R
      PROVE  Rank(S, R, x) < Rank(S, R, y)
  <2>1. x \in Ahead(S, R, y) \ Ahead(S, R, x)
    BY <1>4 DEF Ahead, IsOrder
  <2>2. Ahead(S, R, x) \in SUBSET Ahead(S, R, y)
    BY <1>4 DEF Ahead, IsOrder
  <2> QED BY <1>2, <2>1, <2>2, PartIsLess DEF Rank
<1>5. ASSUME NEW x \in S, NEW y \in S
      PROVE  /\ <<x, y>> \in R <=> Rank(S, R, x) < Rank(S, R, y)
             /\ Rank(S, R, x) = Rank(S, R, y) => x = y
  <2>1. x = y \/ <<x, y>> \in R \/ <<y, x>> \in R
    BY DEF IsOrder
  <2> QED BY <1>2, <1>4, <2>1
<1> QED BY <1>1, <1>3, <1>5

\* Every rank is taken.
LEMMA RankTaken ==
    ASSUME NEW S, IsFiniteSet(S), NEW R, IsOrder(S, R), NEW i \in 0..(Cardinality(S) - 1)
    PROVE  \E x \in S : Rank(S, R, x) = i
<1> DEFINE n == Cardinality(S)
<1> DEFINE I == 0..(n - 1)
<1> DEFINE rank == [x \in S |-> Rank(S, R, x)]
<1>1. n \in Nat
  BY RankFacts
<1>2. rank \in [S -> I] /\ \A x, y \in S : rank[x] = rank[y] => x = y
  BY RankFacts
<1>3. IsFiniteSet(I) /\ Cardinality(I) = n
  <2> HIDE DEF n
  <2> QED BY <1>1, FS_Interval
<1>4. rank \in Injection(S, I)
  <2> HIDE DEF rank, I
  <2> QED BY <1>2 DEF Injection, IsInjective
<1>5. rank \in Surjection(S, I)
  <2> HIDE DEF rank, I
  <2> QED BY <1>3, <1>4, FS_Injection
<1> QED BY <1>5 DEF Surjection

\* s lists the members of S, each once, in the order R.
Lists(s, S, R) ==
    /\ s \in Seq(S) /\ Len(s) = Cardinality(S) /\ DOMAIN s = 1..Len(s)
    /\ \A x \in S : \E i \in 1..Len(s) : s[i] = x
    /\ \A i, j \in 1..Len(s) : i < j => <<s[i], s[j]>> \in R
    /\ \A i, j \in 1..Len(s) : s[i] = s[j] => i = j

\* Sorted does what its name says.
LEMMA SortedFacts ==
    ASSUME NEW S, IsFiniteSet(S), NEW R, IsOrder(S, R)
    PROVE  Lists(Sorted(S, R), S, R)
<1> DEFINE n == Cardinality(S)
<1> DEFINE nth(i) == CHOOSE x \in S : Rank(S, R, x) = i - 1
<1> DEFINE s == [i \in 1..n |-> nth(i)]
<1>1. n \in Nat
  BY RankFacts
<1>2. Sorted(S, R) = s
  BY DEF Sorted, Rank, Ahead
<1>3. ASSUME NEW i \in 1..n
      PROVE  s[i] \in S /\ Rank(S, R, s[i]) = i - 1
  <2>1. i - 1 \in 0..(n - 1)
    <3> HIDE DEF n
    <3> QED BY <1>1
  <2>2. nth(i) \in S /\ Rank(S, R, nth(i)) = i - 1
    BY <2>1, RankTaken
  <2> HIDE DEF nth
  <2> QED BY <2>2
<1>4. s \in Seq(S) /\ Len(s) = n /\ DOMAIN s = 1..n
  <2> HIDE DEF n, nth
  <2>1. s \in [1..n -> S]
    BY <1>3
  <2> QED BY <1>1, <2>1
<1> HIDE DEF s, n
<1>5. \A i, j \in 1..n : i < j => <<s[i], s[j]>> \in R
  BY <1>1, <1>3, RankFacts
<1>6. \A i, j \in 1..n : s[i] = s[j] => i = j
  BY <1>1, <1>3
<1>7. ASSUME NEW x \in S
      PROVE  \E i \in 1..n : s[i] = x
  <2> DEFINE m == Rank(S, R, x)
  <2>1. m \in Nat /\ m < n
    BY <1>1, RankFacts DEF n
  <2> HIDE DEF m
  <2>2. m + 1 \in 1..n /\ (m + 1) - 1 = m
    BY <1>1, <2>1
  <2>3. s[m + 1] \in S /\ Rank(S, R, s[m + 1]) = m
    BY <1>3, <2>2
  <2> QED BY <2>2, <2>3, RankFacts DEF m
<1> QED BY <1>2, <1>4, <1>5, <1>6, <1>7 DEF Lists, n

-----------------------------------------------------------------------------
(* Graphs. *)

LinkLists == UNION {[0..l -> Seq(Nat)] : l \in Nat}

RowSet == [id : Ids, at : Nat, level : Levels, dead : BOOLEAN, links : LinkLists]

Graphs == [nodes : Seq(RowSet), entry : Nat, top : Int]

\* Each row has the layers up to its level, and is where its id may be.
IsGraph(G) ==
    /\ G \in Graphs
    /\ \A n \in 1..Len(G.nodes) :
          /\ DOMAIN G.nodes[n].links = 0..G.nodes[n].level
          /\ G.nodes[n].at \in PlacesOf[G.nodes[n].id]

\* What a graph is, row by row.
LEMMA GraphFacts ==
    ASSUME NEW G, IsGraph(G)
    PROVE  /\ Len(G.nodes) \in Nat /\ DOMAIN G.nodes = 1..Len(G.nodes)
           /\ G.nodes \in Seq(RowSet) /\ G.entry \in Nat /\ G.top \in Int
           /\ G = [nodes |-> G.nodes, entry |-> G.entry, top |-> G.top]
           /\ \A n \in 1..Len(G.nodes) :
                 /\ G.nodes[n] \in RowSet
                 /\ G.nodes[n].id \in Ids /\ G.nodes[n].at \in Nat
                 /\ G.nodes[n].level \in Levels /\ G.nodes[n].level \in Nat
                 /\ G.nodes[n].dead \in BOOLEAN
                 /\ \A l \in 0..G.nodes[n].level : G.nodes[n].links[l] \in Seq(Nat)
<1>1. /\ G.nodes \in Seq(RowSet) /\ G.entry \in Nat /\ G.top \in Int
      /\ G = [nodes |-> G.nodes, entry |-> G.entry, top |-> G.top]
  BY DEF IsGraph, Graphs
<1>2. Len(G.nodes) \in Nat /\ DOMAIN G.nodes = 1..Len(G.nodes)
      /\ \A n \in 1..Len(G.nodes) : G.nodes[n] \in RowSet
  BY <1>1
<1>3. ASSUME NEW n \in 1..Len(G.nodes)
      PROVE  /\ G.nodes[n].id \in Ids /\ G.nodes[n].at \in Nat
             /\ G.nodes[n].level \in Levels /\ G.nodes[n].level \in Nat
             /\ G.nodes[n].dead \in BOOLEAN
             /\ \A l \in 0..G.nodes[n].level : G.nodes[n].links[l] \in Seq(Nat)
  <2>1. G.nodes[n] \in RowSet
    BY <1>2
  <2>2. /\ G.nodes[n].id \in Ids /\ G.nodes[n].at \in Nat
        /\ G.nodes[n].level \in Levels
        /\ G.nodes[n].dead \in BOOLEAN /\ G.nodes[n].links \in LinkLists
    BY <2>1 DEF RowSet
  <2>3. G.nodes[n].level \in Nat
    BY <2>2, HnswAssumption
  <2>4. PICK l \in Nat : G.nodes[n].links \in [0..l -> Seq(Nat)]
    BY <2>2 DEF LinkLists
  <2>5. \A k \in DOMAIN G.nodes[n].links : G.nodes[n].links[k] \in Seq(Nat)
    BY <2>4
  <2> QED BY <2>2, <2>3, <2>5 DEF IsGraph
<1> QED BY <1>1, <1>2, <1>3

\* The nodes of a graph are as many as its rows.
LEMMA NodesAreFinite ==
    ASSUME NEW G, IsGraph(G)
    PROVE  IsFiniteSet(1..Len(G.nodes)) /\ Cardinality(1..Len(G.nodes)) = Len(G.nodes)
<1>1. Len(G.nodes) \in Nat
  BY GraphFacts
<1>2. \A k \in Nat : IsFiniteSet(1..k) /\ Cardinality(1..k) = k
  <2> TAKE k \in Nat
  <2> QED BY FS_Interval
<1> QED BY <1>1, <1>2

\* A distance is a number.
LEMMA FarFacts ==
    ASSUME NEW G, IsGraph(G), NEW q \in Nat, NEW n \in 1..Len(G.nodes)
    PROVE  Far(G, q, n) \in Nat
<1>1. G.nodes[n].at \in Nat
  BY GraphFacts
<1> QED BY <1>1 DEF Far, Index!Distance

Order(G, q, S) == {p \in S \X S : Before(G, q, p[1], p[2])}

\* Being nearer is an order of nodes.
LEMMA OrderFacts ==
    ASSUME NEW G, IsGraph(G), NEW q \in Nat, NEW S \in SUBSET (1..Len(G.nodes))
    PROVE  /\ IsFiniteSet(S) /\ IsOrder(S, Order(G, q, S))
           /\ \A m, n \in S : <<m, n>> \in Order(G, q, S) <=> Before(G, q, m, n)
<1>1. Len(G.nodes) \in Nat /\ \A n \in S : n \in Nat
  BY GraphFacts
<1>2. IsFiniteSet(S)
  <2>1. IsFiniteSet(1..Len(G.nodes))
    BY <1>1, FS_Interval
  <2> QED BY <2>1, FS_Subset
<1>3. \A m, n \in S : <<m, n>> \in Order(G, q, S) <=> Before(G, q, m, n)
  BY DEF Order
<1> DEFINE d(n) == Far(G, q, n)
<1>4. \A n \in S : d(n) \in Nat
  BY FarFacts
<1>5. \A m, n \in S : Before(G, q, m, n) <=> (d(m) < d(n) \/ (d(m) = d(n) /\ m < n))
  BY DEF Before
<1> HIDE DEF d
<1>6. /\ \A x \in S : ~Before(G, q, x, x)
      /\ \A x, y, z \in S : Before(G, q, x, y) /\ Before(G, q, y, z) => Before(G, q, x, z)
      /\ \A x, y \in S : x = y \/ Before(G, q, x, y) \/ Before(G, q, y, x)
  BY <1>1, <1>4, <1>5
<1>7. IsOrder(S, Order(G, q, S))
  BY <1>3, <1>6 DEF IsOrder
<1> QED BY <1>2, <1>3, <1>7

\* What is found is listed, nearest first.
LEMMA AscendingFacts ==
    ASSUME NEW G, IsGraph(G), NEW q \in Nat, NEW S \in SUBSET (1..Len(G.nodes))
    PROVE  Lists(Ascending(G, q, S), S, Order(G, q, S))
BY OrderFacts, SortedFacts DEF Ascending, Order

\* The frontier has a closest node.
LEMMA ClosestFacts ==
    ASSUME NEW G, IsGraph(G), NEW q \in Nat, NEW S \in SUBSET (1..Len(G.nodes)), S # {}
    PROVE  Closest(G, q, S) \in S
<1> DEFINE s == Ascending(G, q, S)
<1>1. Lists(s, S, Order(G, q, S))
  BY AscendingFacts
<1> HIDE DEF s
<1>2. Len(s) \in Nat /\ \A i \in 1..Len(s) : s[i] \in S
  BY <1>1 DEF Lists
<1>3. 1 \in 1..Len(s)
  <2>1. PICK x \in S : TRUE
    OBVIOUS
  <2>2. PICK i \in 1..Len(s) : s[i] = x
    BY <1>1, <2>1 DEF Lists
  <2> QED BY <1>2, <2>2
<1>4. ASSUME NEW m \in S \ {s[1]}
      PROVE  Before(G, q, s[1], m)
  <2>1. PICK i \in 1..Len(s) : s[i] = m
    BY <1>1 DEF Lists
  <2>2. 1 < i
    BY <1>2, <2>1
  <2>3. <<s[1], m>> \in Order(G, q, S)
    BY <1>1, <1>3, <2>1, <2>2 DEF Lists
  <2> QED BY <2>3 DEF Order
<1>5. \E n \in S : \A m \in S \ {n} : Before(G, q, n, m)
  BY <1>2, <1>3, <1>4
<1> QED BY <1>5 DEF Closest
-----------------------------------------------------------------------------
(* One layer is searched. *)

\* N has the layer, and its links in the layer stay in it.
IsLayer(G, N, level) ==
    /\ IsGraph(G) /\ N \subseteq 1..Len(G.nodes)
    /\ \A n \in N : /\ level \in 0..G.nodes[n].level
                    /\ \A i \in 1..Len(G.nodes[n].links[level]) :
                          G.nodes[n].links[level][i] \in N

Beams(N) ==
    {b \in [visited : SUBSET N, frontier : SUBSET N, result : SUBSET N] : b.result # {}}

\* No result has been dropped yet.
IsWide(b) == b.result = b.visited /\ b.frontier \subseteq b.visited

\* o is b after the nodes S were offered and none was dropped.
Takes(b, o, S) ==
    /\ IsWide(o)
    /\ o.visited = b.visited \union S /\ o.frontier = b.frontier \union (S \ b.visited)

\* What an offer makes of a beam; nothing is dropped while there is room for all.
LEMMA OfferFacts ==
    ASSUME NEW G, NEW N, IsFiniteSet(N), NEW q, NEW ef \in Nat \ {0}, NEW b \in Beams(N),
           NEW n \in N
    PROVE  /\ Offer(G, q, ef, b, n) \in Beams(N)
           /\ Cardinality(N) <= ef /\ IsWide(b) => Takes(b, Offer(G, q, ef, b, n), {n})
<1> DEFINE o == Offer(G, q, ef, b, n)
<1> DEFINE more == b.result \union {n}
<1>1. /\ b.visited \in SUBSET N /\ b.frontier \in SUBSET N /\ b.result \in SUBSET N
      /\ b.result # {} /\ more \in SUBSET N
      /\ b = [visited |-> b.visited, frontier |-> b.frontier, result |-> b.result]
  BY DEF Beams
<1>2. /\ IsFiniteSet(more) /\ Cardinality(more) \in Nat /\ Cardinality(more) <= Cardinality(N)
      /\ IsFiniteSet(b.result) /\ Cardinality(b.result) \in Nat /\ Cardinality(N) \in Nat
  BY <1>1, FS_Subset, FS_CardinalityType
<1>3. CASE n \in b.visited
  <2>1. o = b
    BY <1>3 DEF Offer
  <2> QED BY <1>1, <1>3, <2>1 DEF IsWide, Takes
<1>4. CASE n \notin b.visited
  <2> DEFINE joins == \/ Far(G, q, n) < Far(G, q, Farthest(G, q, b.result))
                      \/ Cardinality(b.result) < ef
  <2> DEFINE kept == IF Cardinality(more) > ef THEN more \ {Farthest(G, q, more)} ELSE more
  <2>1. CASE joins
    <3>1. o = [visited |-> b.visited \union {n}, frontier |-> b.frontier \union {n},
               result |-> kept]
      BY <1>4, <2>1 DEF Offer
    <3>2. kept \in SUBSET N /\ kept # {}
      <4>1. CASE Cardinality(more) > ef
        <5> DEFINE x == Farthest(G, q, more)
        <5>1. Cardinality({x}) = 1 /\ IsFiniteSet({x})
          BY FS_Singleton
        <5>2. SUFFICES ASSUME more \subseteq {x} PROVE FALSE
          BY <1>1, <4>1
        <5>3. Cardinality(more) <= 1
          <6> HIDE DEF x, more
          <6> QED BY <5>1, <5>2, FS_Subset
        <5> HIDE DEF more
        <5> QED BY <1>2, <4>1, <5>3
      <4>2. CASE ~(Cardinality(more) > ef)
        BY <1>1, <4>2
      <4> QED BY <4>1, <4>2
    <3>3. o \in Beams(N)
      <4> HIDE DEF kept
      <4> QED BY <1>1, <3>1, <3>2 DEF Beams
    <3>4. ASSUME Cardinality(N) <= ef
          PROVE  kept = more
      <4> HIDE DEF more
      <4> QED BY <1>2, <3>4
    <3> HIDE DEF kept, o
    <3> QED BY <1>1, <1>4, <3>1, <3>3, <3>4 DEF IsWide, Takes, o
  <2>2. CASE ~joins
    <3>1. o = [visited |-> b.visited \union {n}, frontier |-> b.frontier,
               result |-> b.result]
      BY <1>1, <1>4, <2>2 DEF Offer
    <3>2. o \in Beams(N)
      BY <1>1, <3>1 DEF Beams
    <3>3. ASSUME Cardinality(N) <= ef, IsWide(b)
          PROVE  FALSE
      <4>1. n \in N \ b.result
        BY <1>4, <3>3 DEF IsWide
      <4>2. Cardinality(b.result) < Cardinality(N)
        BY <1>1, <4>1, PartIsLess
      <4> QED BY <1>2, <2>2, <3>3, <4>2
    <3> QED BY <3>2, <3>3
  <2> QED BY <2>1, <2>2
<1> QED BY <1>3, <1>4
\* No member of a set is farther than its farthest.
LEMMA FarthestFacts ==
    ASSUME NEW G, IsGraph(G), NEW q \in Nat, NEW S \in SUBSET (1..Len(G.nodes)), S # {}
    PROVE  /\ Farthest(G, q, S) \in S
           /\ \A m \in S : Far(G, q, m) <= Far(G, q, Farthest(G, q, S))
<1> DEFINE s == Ascending(G, q, S)
<1>1. Lists(s, S, Order(G, q, S))
  BY AscendingFacts
<1> HIDE DEF s
<1>2. Len(s) \in Nat /\ \A i \in 1..Len(s) : s[i] \in S
  BY <1>1 DEF Lists
<1>3. Len(s) \in 1..Len(s)
  <2>1. PICK x \in S : TRUE
    OBVIOUS
  <2>2. PICK i \in 1..Len(s) : s[i] = x
    BY <1>1, <2>1 DEF Lists
  <2> QED BY <1>2, <2>2
<1>4. ASSUME NEW m \in S \ {s[Len(s)]}
      PROVE  Before(G, q, m, s[Len(s)])
  <2>1. PICK i \in 1..Len(s) : s[i] = m
    BY <1>1 DEF Lists
  <2>2. i < Len(s)
    BY <1>2, <2>1
  <2>3. <<m, s[Len(s)]>> \in Order(G, q, S)
    BY <1>1, <1>3, <2>1, <2>2 DEF Lists
  <2> QED BY <2>3 DEF Order
<1>5. \E n \in S : \A m \in S \ {n} : Before(G, q, m, n)
  BY <1>2, <1>3, <1>4
<1> DEFINE f == Farthest(G, q, S)
<1>6. f \in S /\ \A m \in S \ {f} : Before(G, q, m, f)
  BY <1>5 DEF Farthest
<1> HIDE DEF f
<1>7. \A m \in S : Far(G, q, m) \in Nat
  BY FarFacts
<1>8. \A m \in S : Far(G, q, m) <= Far(G, q, f)
  BY <1>6, <1>7 DEF Before
<1> QED BY <1>6, <1>8 DEF f

LinksOf(G, n, level) ==
    {G.nodes[n].links[level][i] : i \in 1..Len(G.nodes[n].links[level])}

Offered(G, q, ef, b, links) ==
    Loop(LAMBDA v, i : Offer(G, q, ef, v, links[i]), b, Len(links))

\* The neighbours of a node are offered one after the other.
LEMMA OffersFacts ==
    ASSUME NEW G, NEW N, IsFiniteSet(N), NEW q, NEW ef \in Nat \ {0}, NEW b \in Beams(N),
           NEW links \in Seq(N)
    PROVE  LET o == Offered(G, q, ef, b, links)
               all == {links[i] : i \in 1..Len(links)} IN
           /\ o \in Beams(N)
           /\ Cardinality(N) <= ef /\ IsWide(b) => Takes(b, o, all)
<1> DEFINE n == Len(links)
<1> DEFINE V == Beams(N)
<1> DEFINE F == [i \in 1..n |-> [v \in V |-> Offer(G, q, ef, v, links[i])]]
<1>1. n \in Nat /\ \A i \in 1..n : links[i] \in N
  OBVIOUS
<1>2. \A i \in 1..n : \A v \in V : Offer(G, q, ef, v, links[i]) \in V
  <2> HIDE DEF n
  <2> QED BY <1>1, OfferFacts
<1>3. F \in [1..n -> [V -> V]] /\ b \in V
  <2>1. b \in V
    OBVIOUS
  <2> HIDE DEF V, n
  <2> QED BY <1>2, <2>1
<1>4. PICK h \in [0..n -> V] : IsRun(h, n, b, F)
  <2> HIDE DEF V, n, F
  <2> QED BY <1>1, <1>3, LoopExists
<1> DEFINE after == CHOOSE g : g = [i \in 0..n |-> IF i = 0 THEN b
                                                   ELSE Offer(G, q, ef, g[i - 1], links[i])]
<1> DEFINE o == Offered(G, q, ef, b, links)
<1>5. o = after[n]
  BY Zenon DEF Loop, Offered
<1>6. h = [i \in 0..n |-> IF i = 0 THEN b ELSE Offer(G, q, ef, h[i - 1], links[i])]
  <2>1. \A i \in 1..n : i - 1 \in 0..n /\ F[i][h[i - 1]] = Offer(G, q, ef, h[i - 1], links[i])
    <3> HIDE DEF V, n
    <3> QED BY <1>1
  <2> HIDE DEF V, n, F
  <2> QED BY <1>1, <1>4, <2>1 DEF IsRun
<1>7. after = [i \in 0..n |-> IF i = 0 THEN b ELSE Offer(G, q, ef, after[i - 1], links[i])]
  <2> HIDE DEF n
  <2> QED BY <1>6
<1> HIDE DEF after, o, n, F
<1>8. after[0] = b /\ \A i \in 1..n : after[i] = Offer(G, q, ef, after[i - 1], links[i])
  BY <1>1, <1>7
<1>9. \A i \in 0..n : after[i] \in V
  <2> DEFINE T == {i \in 0..n : after[i] \in V}
  <2>1. 0 \in T
    BY <1>1, <1>8
  <2>2. \A i \in 1..n : i - 1 \in T => i \in T
    <3> HIDE DEF V
    <3> QED BY <1>1, <1>2, <1>8
  <2> HIDE DEF T
  <2>3. \A i \in 0..n : i \in T
    BY <1>1, <2>1, <2>2, Turns
  <2> QED BY <2>3 DEF T
<1>10. ASSUME Cardinality(N) <= ef, IsWide(b)
       PROVE  Takes(b, after[n], {links[i] : i \in 1..n})
  <2> DEFINE upto(i) == {links[j] : j \in 1..i}
  <2> DEFINE T == {i \in 0..n : Takes(b, after[i], upto(i))}
  <2>1. 0 \in T
    <3>1. upto(0) = {}
      OBVIOUS
    <3> HIDE DEF upto
    <3>2. Takes(b, after[0], {})
      BY <1>8, <1>10 DEF Takes
    <3> QED BY <1>1, <3>1, <3>2
  <2>2. ASSUME NEW i \in 1..n, i - 1 \in T
        PROVE  i \in T
    <3>1. upto(i) = upto(i - 1) \union {links[i]}
      <4>1. \A j : j \in 1..i <=> j \in 1..(i - 1) \/ j = i
        BY <1>1
      <4> QED BY <4>1
    <3> DEFINE w == after[i - 1]
    <3> DEFINE x == links[i]
    <3>2. w \in Beams(N) /\ x \in N /\ Takes(b, w, upto(i - 1))
      <4> HIDE DEF V, upto
      <4> QED BY <1>1, <1>9, <2>2 DEF V
    <3>3. after[i] = Offer(G, q, ef, w, x)
      BY <1>8
    <3> HIDE DEF w, x, upto, T
    <3>4. IsWide(w)
      BY <3>2 DEF Takes
    <3>5. Takes(w, after[i], {x})
      <4>1. Cardinality(N) <= ef /\ IsWide(w) => Takes(w, Offer(G, q, ef, w, x), {x})
        BY <3>2, OfferFacts
      <4> QED BY <1>10, <3>3, <3>4, <4>1
    <3>6. Takes(b, after[i], upto(i))
      BY <3>1, <3>2, <3>5 DEF Takes, x
    <3> QED BY <3>6 DEF T
  <2> HIDE DEF T
  <2>3. n \in T
    <3>1. \A i \in 0..n : i \in T
      BY <1>1, <2>1, <2>2, Turns
    <3> QED BY <1>1, <3>1
  <2> QED BY <2>3 DEF T
<1>11. after[n] \in Beams(N)
  BY <1>1, <1>9
<1> QED BY <1>5, <1>10, <1>11 DEF o, n
\* What expanding the closest node of the frontier makes of a beam.
LEMMA ExpandFacts ==
    ASSUME NEW G, NEW N, NEW level, IsLayer(G, N, level), NEW q \in Nat,
           NEW ef \in Nat \ {0}, NEW b \in Beams(N)
    PROVE  LET o == Expand(G, q, ef, level, b) IN
           /\ o \in Beams(N)
           /\ b.frontier = {} => o = b
           /\ Cardinality(N) <= ef /\ IsWide(b) /\ b.frontier # {} =>
                 \E n \in b.frontier :
                     Takes([b EXCEPT !.frontier = @ \ {n}], o, LinksOf(G, n, level))
<1> DEFINE o == Expand(G, q, ef, level, b)
<1>1. IsGraph(G) /\ N \in SUBSET (1..Len(G.nodes)) /\ IsFiniteSet(N)
  BY OrderFacts DEF IsLayer
<1>2. /\ b.visited \in SUBSET N /\ b.frontier \in SUBSET N /\ b.result \in SUBSET N
      /\ b.result # {}
      /\ b = [visited |-> b.visited, frontier |-> b.frontier, result |-> b.result]
  BY DEF Beams
<1>3. CASE Finished(G, q, ef, b)
  <2>1. o = b
    BY <1>3 DEF Expand
  <2>2. ASSUME IsWide(b), b.frontier # {}
        PROVE  FALSE
    <3> DEFINE c == Closest(G, q, b.frontier)
    <3> DEFINE f == Farthest(G, q, b.result)
    <3>1. Far(G, q, c) > Far(G, q, f)
      BY <1>3, <2>2 DEF Finished
    <3>2. b.frontier \in SUBSET (1..Len(G.nodes)) /\ b.result \in SUBSET (1..Len(G.nodes))
      BY <1>1, <1>2
    <3>3. c \in b.frontier /\ f \in b.result
      BY <1>1, <1>2, <2>2, <3>2, ClosestFacts, FarthestFacts
    <3>4. c \in b.result
      BY <2>2, <3>3 DEF IsWide
    <3>5. Far(G, q, c) <= Far(G, q, f)
      BY <1>1, <1>2, <3>2, <3>4, FarthestFacts
    <3>6. Far(G, q, c) \in Nat /\ Far(G, q, f) \in Nat
      BY <1>1, <3>2, <3>3, FarFacts
    <3> HIDE DEF c, f
    <3> QED BY <3>1, <3>5, <3>6
  <2> QED BY <2>1, <2>2
<1>4. CASE ~Finished(G, q, ef, b)
  <2> DEFINE n == Closest(G, q, b.frontier)
  <2> DEFINE links == G.nodes[n].links[level]
  <2> DEFINE rest == [b EXCEPT !.frontier = @ \ {n}]
  <2>1. b.frontier # {} /\ n \in b.frontier
    <3>1. b.frontier # {}
      BY <1>4 DEF Finished
    <3>2. b.frontier \in SUBSET (1..Len(G.nodes))
      BY <1>1, <1>2
    <3> QED BY <1>1, <3>1, <3>2, ClosestFacts
  <2>2. o = Offered(G, q, ef, rest, links)
    BY <1>4, Zenon DEF Expand, Offered
  <2>3. links \in Seq(N)
    <3>1. n \in N /\ n \in 1..Len(G.nodes)
      BY <1>1, <1>2, <2>1
    <3> HIDE DEF n
    <3>2. level \in 0..G.nodes[n].level /\ \A i \in 1..Len(links) : links[i] \in N
      BY <3>1 DEF IsLayer
    <3>3. links \in Seq(Nat)
      BY <1>1, <3>1, <3>2, GraphFacts
    <3> HIDE DEF links
    <3> QED BY <3>2, <3>3
  <2>4. rest \in Beams(N)
    <3> HIDE DEF n
    <3>1. rest = [visited |-> b.visited, frontier |-> b.frontier \ {n}, result |-> b.result]
      BY <1>2
    <3> QED BY <1>2, <3>1 DEF Beams
  <2>5. IsWide(b) => IsWide(rest)
    <3> HIDE DEF n
    <3> QED BY <1>2 DEF IsWide
  <2> DEFINE all == {links[i] : i \in 1..Len(links)}
  <2>6. all = LinksOf(G, n, level)
    BY DEF LinksOf
  <2> HIDE DEF rest, links, o
  <2>7. o \in Beams(N) /\ (Cardinality(N) <= ef /\ IsWide(rest) => Takes(rest, o, all))
    BY <1>1, <2>2, <2>3, <2>4, OffersFacts
  <2> HIDE DEF n, all
  <2>8. Cardinality(N) <= ef /\ IsWide(b) => Takes(rest, o, LinksOf(G, n, level))
    BY <2>5, <2>6, <2>7
  <2> QED BY <2>1, <2>7, <2>8 DEF rest, o
<1> QED BY <1>3, <1>4

\* No link of S leads out of it.
Closed(G, S, level) == \A n \in S : LinksOf(G, n, level) \subseteq S

Explored(G, q, from, ef, level) ==
    Loop(LAMBDA beam, i : Expand(G, q, ef, level, beam), Entered(from), Len(G.nodes))

\* The beam after each expansion: its expanded nodes and their links are visited,
\* and they are as many as the expansions unless the frontier is empty.
LEMMA ExpansionsFacts ==
    ASSUME NEW G, NEW N, NEW level, IsLayer(G, N, level), NEW q \in Nat,
           NEW ef \in Nat \ {0}, NEW from \in N
    PROVE  LET o == Explored(G, q, from, ef, level) IN
           /\ o \in Beams(N)
           /\ Cardinality(N) <= ef => Closed(G, o.result, level) /\ from \in o.result
<1> DEFINE n == Len(G.nodes)
<1> DEFINE V == Beams(N)
<1> DEFINE b == Entered(from)
<1> DEFINE F == [i \in 1..n |-> [v \in V |-> Expand(G, q, ef, level, v)]]
<1>1. /\ IsGraph(G) /\ N \in SUBSET (1..n) /\ IsFiniteSet(N) /\ n \in Nat
      /\ Cardinality(N) \in Nat /\ Cardinality(N) <= n
  <2>1. IsGraph(G) /\ N \in SUBSET (1..n) /\ IsFiniteSet(N) /\ n \in Nat
    BY OrderFacts, GraphFacts DEF IsLayer
  <2> HIDE DEF n
  <2>2. \A k \in Nat : IsFiniteSet(1..k) /\ Cardinality(1..k) = k
    BY FS_Interval
  <2>3. IsFiniteSet(1..n) /\ Cardinality(1..n) = n
    BY <2>1, <2>2
  <2>4. Cardinality(N) <= Cardinality(1..n)
    BY <2>1, <2>3, FS_Subset
  <2>5. Cardinality(N) \in Nat
    BY <2>1, FS_CardinalityType
  <2> QED BY <2>1, <2>3, <2>4, <2>5
<1>2. \A v \in V : Expand(G, q, ef, level, v) \in V
  BY ExpandFacts
<1>3. F \in [1..n -> [V -> V]] /\ b \in V
  <2>1. b \in V
    BY DEF Entered, Beams
  <2> HIDE DEF V, n
  <2> QED BY <1>2, <2>1
<1>4. PICK h \in [0..n -> V] : IsRun(h, n, b, F)
  <2> HIDE DEF V, n, F
  <2> QED BY <1>1, <1>3, LoopExists
<1> DEFINE after == CHOOSE g : g = [i \in 0..n |-> IF i = 0 THEN b
                                                   ELSE Expand(G, q, ef, level, g[i - 1])]
<1> DEFINE o == Explored(G, q, from, ef, level)
<1>5. o = after[n]
  BY Zenon DEF Loop, Explored
<1>6. h = [i \in 0..n |-> IF i = 0 THEN b ELSE Expand(G, q, ef, level, h[i - 1])]
  <2>1. \A i \in 1..n : i - 1 \in 0..n /\ F[i][h[i - 1]] = Expand(G, q, ef, level, h[i - 1])
    <3> HIDE DEF V, n
    <3> QED BY <1>1
  <2> HIDE DEF V, n, F, b
  <2> QED BY <1>1, <1>4, <2>1 DEF IsRun
<1>7. after = [i \in 0..n |-> IF i = 0 THEN b ELSE Expand(G, q, ef, level, after[i - 1])]
  <2> HIDE DEF n, b
  <2> QED BY <1>6
<1> HIDE DEF after, o, n, F, b
<1>8. after[0] = b /\ \A i \in 1..n : after[i] = Expand(G, q, ef, level, after[i - 1])
  BY <1>1, <1>7
<1>9. \A i \in 0..n : after[i] \in V
  <2> DEFINE T == {i \in 0..n : after[i] \in V}
  <2>1. 0 \in T
    BY <1>1, <1>3, <1>8
  <2>2. \A i \in 1..n : i - 1 \in T => i \in T
    <3> HIDE DEF V
    <3> QED BY <1>1, <1>2, <1>8
  <2> HIDE DEF T
  <2>3. \A i \in 0..n : i \in T
    BY <1>1, <2>1, <2>2, Turns
  <2> QED BY <2>3 DEF T
<1>10. ASSUME Cardinality(N) <= ef
       PROVE  Closed(G, after[n].result, level) /\ from \in after[n].result
  <2> DEFINE done(v) == v.visited \ v.frontier
  <2> DEFINE Good(v, i) ==
          /\ IsWide(v) /\ from \in v.visited
          /\ \A m \in done(v) : LinksOf(G, m, level) \subseteq v.visited
          /\ v.frontier = {} \/ Cardinality(done(v)) >= i
  <2> DEFINE T == {i \in 0..n : Good(after[i], i)}
  <2>1. \A v \in V : IsFiniteSet(done(v)) /\ Cardinality(done(v)) \in Nat
    <3>1. \A v \in V : done(v) \in SUBSET N
      BY DEF Beams
    <3> HIDE DEF done, V
    <3> QED BY <1>1, <3>1, FS_Subset, FS_CardinalityType
  <2>2. 0 \in T
    <3>1. b.visited = {from} /\ b.frontier = {from} /\ b.result = {from} /\ done(b) = {}
      BY DEF b, Entered
    <3>2. IsWide(b) /\ Cardinality(done(b)) = 0
      BY <3>1, FS_EmptySet DEF IsWide
    <3>3. Good(b, 0)
      <4> HIDE DEF done
      <4> QED BY <3>1, <3>2
    <3> HIDE DEF Good
    <3> QED BY <1>1, <1>8, <3>3
  <2>3. ASSUME NEW i \in 1..n, i - 1 \in T
        PROVE  i \in T
    <3> DEFINE v == after[i - 1]
    <3> DEFINE w == after[i]
    <3>1. v \in V /\ w \in V /\ i - 1 \in 0..n
      <4> HIDE DEF V
      <4> QED BY <1>1, <1>9
    <3>2. Good(v, i - 1)
      BY <2>3
    <3>3. w = Expand(G, q, ef, level, v)
      BY <1>8
    <3> HIDE DEF v, w
    <3>4. CASE v.frontier = {}
      <4>1. w = v
        BY <3>1, <3>3, <3>4, ExpandFacts
      <4>2. Good(w, i)
        <5> HIDE DEF done
        <5> QED BY <3>2, <3>4, <4>1
      <4> QED BY <4>2 DEF w
    <3>5. CASE v.frontier # {}
      <4>1. Cardinality(N) <= ef /\ IsWide(v) /\ v.frontier # {} =>
               \E m \in v.frontier :
                   Takes([v EXCEPT !.frontier = @ \ {m}], w, LinksOf(G, m, level))
        BY <3>1, <3>3, ExpandFacts
      <4>2. PICK m \in v.frontier :
               Takes([v EXCEPT !.frontier = @ \ {m}], w, LinksOf(G, m, level))
        BY <1>10, <3>2, <3>5, <4>1
      <4> DEFINE links == LinksOf(G, m, level)
      <4>3. /\ v = [visited |-> v.visited, frontier |-> v.frontier, result |-> v.result]
            /\ m \in v.visited
        BY <3>1, <3>2 DEF Beams, IsWide
      <4>4. /\ IsWide(w) /\ w.visited = v.visited \union links
            /\ w.frontier = (v.frontier \ {m}) \union (links \ v.visited)
        <5> HIDE DEF links
        <5> QED BY <4>2, <4>3 DEF Takes, links
      <4> HIDE DEF links
      <4>5. done(w) = done(v) \union {m} /\ m \notin done(v)
        BY <4>3, <4>4, <3>2 DEF IsWide
      <4>6. Cardinality(done(w)) >= i
        <5>1. Cardinality(done(v)) >= i - 1 /\ Cardinality(done(v)) \in Nat
          <6> HIDE DEF done, V
          <6> QED BY <2>1, <3>1, <3>2, <3>5
        <5>2. Cardinality(done(v) \union {m}) = Cardinality(done(v)) + 1
          <6> HIDE DEF done, V
          <6> QED BY <2>1, <3>1, <4>5, FS_AddElement
        <5> HIDE DEF done
        <5> QED BY <4>5, <5>1, <5>2
      <4>7. \A k \in done(w) : LinksOf(G, k, level) \subseteq w.visited
        <5>1. \A k \in done(v) : LinksOf(G, k, level) \subseteq v.visited
          BY <3>2
        <5> HIDE DEF done
        <5> QED BY <4>4, <4>5, <5>1 DEF links
      <4>8. from \in w.visited
        BY <3>2, <4>4
      <4>9. Good(w, i)
        <5> HIDE DEF done
        <5> QED BY <4>4, <4>6, <4>7, <4>8
      <4> QED BY <4>9 DEF w
    <3> QED BY <3>4, <3>5
  <2> HIDE DEF T
  <2>4. n \in T
    <3>1. \A i \in 0..n : i \in T
      BY <1>1, <2>2, <2>3, Turns
    <3> QED BY <1>1, <3>1
  <2> DEFINE v == after[n]
  <2>5. Good(v, n) /\ v \in V
    <3> HIDE DEF Good, V
    <3> QED BY <1>1, <1>9, <2>4 DEF T
  <2> HIDE DEF v
  <2>6. v.visited \in SUBSET N
    BY <2>5 DEF Beams
  <2>7. v.frontier = {}
    <3>1. SUFFICES ASSUME NEW m \in v.frontier PROVE FALSE
      OBVIOUS
    <3>2. Cardinality(done(v)) >= n /\ m \in N \ done(v) /\ done(v) \in SUBSET N
      BY <2>5, <2>6, <3>1 DEF IsWide
    <3>3. Cardinality(done(v)) < Cardinality(N)
      <4> HIDE DEF done
      <4> QED BY <1>1, <3>2, PartIsLess
    <3>4. Cardinality(done(v)) \in Nat
      <4> HIDE DEF done, V
      <4> QED BY <2>1, <2>5
    <3> HIDE DEF done
    <3> QED BY <1>1, <3>2, <3>3, <3>4
  <2>8. v.result = v.visited /\ done(v) = v.visited
    BY <2>5, <2>7 DEF IsWide
  <2>9. Closed(G, v.result, level) /\ from \in v.result
    BY <2>5, <2>8 DEF Closed
  <2> QED BY <2>9 DEF v
<1>11. after[n] \in Beams(N)
  BY <1>1, <1>9
<1> QED BY <1>5, <1>10, <1>11 DEF o, n, b

\* A search of a layer returns nodes of the layer, nearest first; if the beam has
\* room for the whole layer, all that can be reached from where it begins.
LEMMA SearchLayerFacts ==
    ASSUME NEW G, NEW N, NEW level, IsLayer(G, N, level), NEW q \in Nat,
           NEW ef \in Nat \ {0}, NEW from \in N
    PROVE  \E S \in SUBSET N :
               /\ S # {} /\ SearchLayer(G, q, from, ef, level) = Ascending(G, q, S)
               /\ Cardinality(N) <= ef => Closed(G, S, level) /\ from \in S
<1> DEFINE o == Explored(G, q, from, ef, level)
<1>1. /\ o \in Beams(N)
      /\ Cardinality(N) <= ef => Closed(G, o.result, level) /\ from \in o.result
  BY ExpansionsFacts
<1>2. SearchLayer(G, q, from, ef, level) = Ascending(G, q, o.result)
  BY Zenon DEF SearchLayer, Explored
<1> HIDE DEF o
<1>3. o.result \in SUBSET N /\ o.result # {}
  BY <1>1 DEF Beams
<1> QED BY <1>1, <1>2, <1>3
-----------------------------------------------------------------------------
(* Lists of neighbours. *)

\* s names no node twice.
NoTwins(s) == \A i, j \in 1..Len(s) : s[i] = s[j] => i = j

\* A sequence is one of any set that has its elements.
LEMMA IsSequenceOf ==
    ASSUME NEW S, NEW s \in Seq(S), NEW T, \A i \in 1..Len(s) : s[i] \in T
    PROVE  s \in Seq(T)
<1>1. Len(s) \in Nat /\ s = [i \in 1..Len(s) |-> s[i]]
  OBVIOUS
<1>2. [i \in 1..Len(s) |-> s[i]] \in [1..Len(s) -> T]
  OBVIOUS
<1> QED BY <1>1, <1>2

\* What a search of a layer finds is not empty, and names nodes of the layer.
LEMMA FoundFacts ==
    ASSUME NEW G, NEW N, NEW level, IsLayer(G, N, level), NEW q \in Nat,
           NEW ef \in Nat \ {0}, NEW from \in N
    PROVE  LET found == SearchLayer(G, q, from, ef, level) IN
           /\ found \in Seq(N) /\ Len(found) \in Nat \ {0} /\ NoTwins(found)
           /\ Head(found) \in N
<1> DEFINE found == SearchLayer(G, q, from, ef, level)
<1>1. PICK S \in SUBSET N : S # {} /\ found = Ascending(G, q, S)
  BY SearchLayerFacts
<1>2. IsGraph(G) /\ S \in SUBSET (1..Len(G.nodes))
  BY DEF IsLayer
<1> HIDE DEF found
<1>3. Lists(found, S, Order(G, q, S))
  BY <1>1, <1>2, AscendingFacts
<1>4. found \in Seq(S) /\ NoTwins(found)
  BY <1>3 DEF Lists, NoTwins
<1>5. Len(found) \in Nat \ {0}
  <2>1. PICK x \in S : TRUE
    BY <1>1
  <2>2. PICK i \in 1..Len(found) : found[i] = x
    BY <1>3, <2>1 DEF Lists
  <2> QED BY <1>4, <2>2
<1>6. found \in Seq(N) /\ Head(found) \in N
  <2>1. found \in Seq(N)
    BY <1>4
  <2> QED BY <1>5, <2>1
<1> QED BY <1>4, <1>5, <1>6 DEF found

MaxLinksFacts == \A l \in Nat : MaxLinks(l) \in Nat \ {0}

\* There is always room for a link.
LEMMA RoomForLinks == MaxLinksFacts
BY HnswAssumption DEF MaxLinksFacts, MaxLinks

\* One candidate is considered.
Chosen(G, q, found, most, chosen, i) ==
    IF Len(chosen) < most /\ Diverse(G, q, chosen, found[i])
    THEN Append(chosen, found[i]) ELSE chosen

\* The neighbours that are chosen are among those found, and the first is chosen.
LEMMA SelectFacts ==
    ASSUME NEW G, NEW q, NEW N, NEW found \in Seq(N), NEW most \in Nat \ {0},
           NoTwins(found), Len(found) # 0
    PROVE  LET chosen == Select(G, q, found, most) IN
           /\ chosen \in Seq(N) /\ NoTwins(chosen)
           /\ Len(chosen) \in Nat \ {0} /\ Len(chosen) <= most
<1> DEFINE n == Len(found)
<1> DEFINE V == Seq(N)
<1> DEFINE b == <<>>
<1> DEFINE Turn(v, i) == Chosen(G, q, found, most, v, i)
<1> DEFINE F == [i \in 1..n |-> [v \in V |-> Turn(v, i)]]
<1>1. n \in Nat /\ \A i \in 1..n : found[i] \in N
  OBVIOUS
<1>2. \A i \in 1..n : \A v \in V : Turn(v, i) \in V
  <2> HIDE DEF n
  <2> QED BY <1>1 DEF Chosen
<1>3. F \in [1..n -> [V -> V]] /\ b \in V
  <2>1. b \in V
    OBVIOUS
  <2> HIDE DEF V, n, Turn
  <2> QED BY <1>2, <2>1
<1>4. PICK h \in [0..n -> V] : IsRun(h, n, b, F)
  <2> HIDE DEF V, n, F, b
  <2> QED BY <1>1, <1>3, LoopExists
<1> DEFINE after == CHOOSE g : g = [i \in 0..n |-> IF i = 0 THEN b ELSE Turn(g[i - 1], i)]
<1> DEFINE o == Select(G, q, found, most)
<1>5. o = after[n]
  BY Zenon DEF Loop, Select, Chosen
<1> HIDE DEF Turn
<1>6. h = [i \in 0..n |-> IF i = 0 THEN b ELSE Turn(h[i - 1], i)]
  <2>1. \A i \in 1..n : i - 1 \in 0..n /\ F[i][h[i - 1]] = Turn(h[i - 1], i)
    <3> HIDE DEF V, n, b
    <3> QED BY <1>1
  <2> HIDE DEF V, n, F, b
  <2> QED BY <1>1, <1>4, <2>1 DEF IsRun
<1>7. after = [i \in 0..n |-> IF i = 0 THEN b ELSE Turn(after[i - 1], i)]
  <2> HIDE DEF n, b
  <2> QED BY <1>6
<1> HIDE DEF after, o, n, F
<1>8. after[0] = <<>> /\ \A i \in 1..n : after[i] = Turn(after[i - 1], i)
  BY <1>1, <1>7
<1> DEFINE Upto(v, i) ==
        /\ v \in Seq(N) /\ Len(v) <= most /\ NoTwins(v)
        /\ \A j \in 1..Len(v) : \E m \in 1..i : v[j] = found[m]
        /\ i > 0 => Len(v) > 0
<1> DEFINE T == {i \in 0..n : Upto(after[i], i)}
<1>9. 0 \in T
  <2>1. Upto(<<>>, 0)
    BY DEF NoTwins
  <2> HIDE DEF Upto
  <2> QED BY <1>1, <1>8, <2>1
<1>10. ASSUME NEW i \in 1..n, i - 1 \in T
       PROVE  i \in T
  <2> DEFINE v == after[i - 1]
  <2> DEFINE w == after[i]
  <2>1. Upto(v, i - 1)
    BY <1>10
  <2>2. w = Chosen(G, q, found, most, v, i)
    BY <1>8 DEF Turn
  <2>3. found[i] \in N
    BY <1>1
  <2>4. \A j \in 1..(i - 1) : found[j] # found[i]
    BY <1>1 DEF NoTwins, n
  <2> HIDE DEF v, w
  <2>5. CASE Len(v) < most /\ Diverse(G, q, v, found[i])
    <3>1. w = Append(v, found[i])
      BY <2>2, <2>5 DEF Chosen
    <3>2. /\ w \in Seq(N) /\ Len(w) = Len(v) + 1 /\ Len(v) \in Nat
          /\ \A j \in 1..Len(v) : w[j] = v[j]
          /\ w[Len(v) + 1] = found[i]
      BY <2>1, <2>3, <3>1
    <3> HIDE DEF Upto
    <3>3. \A j \in 1..Len(v) : \E m \in 1..(i - 1) : v[j] = found[m]
      BY <2>1 DEF Upto
    <3>4. \A j \in 1..Len(v) : w[j] # w[Len(v) + 1]
      BY <2>4, <3>2, <3>3
    <3>5. NoTwins(w)
      <4>1. NoTwins(v)
        BY <2>1 DEF Upto
      <4>2. SUFFICES ASSUME NEW j \in 1..Len(w), NEW k \in 1..Len(w), w[j] = w[k]
                     PROVE  j = k
        BY DEF NoTwins
      <4>3. j \in 1..Len(v) \/ j = Len(v) + 1
        BY <3>2
      <4>4. k \in 1..Len(v) \/ k = Len(v) + 1
        BY <3>2
      <4>5. CASE j \in 1..Len(v) /\ k \in 1..Len(v)
        <5>1. v[j] = v[k]
          BY <3>2, <4>2, <4>5
        <5> QED BY <4>1, <4>5, <5>1 DEF NoTwins
      <4> QED BY <3>4, <4>2, <4>3, <4>4, <4>5
    <3>6. \A j \in 1..Len(w) : \E m \in 1..i : w[j] = found[m]
      <4> TAKE j \in 1..Len(w)
      <4>1. CASE j = Len(v) + 1
        BY <1>1, <3>2, <4>1
      <4>2. CASE j \in 1..Len(v)
        <5>1. PICK m \in 1..(i - 1) : v[j] = found[m]
          BY <3>3, <4>2
        <5> QED BY <1>1, <3>2, <4>2, <5>1
      <4> QED BY <3>2, <4>1, <4>2
    <3>7. Upto(w, i)
      BY <2>5, <3>2, <3>5, <3>6 DEF Upto
    <3> QED BY <3>7 DEF w
  <2>6. CASE ~(Len(v) < most /\ Diverse(G, q, v, found[i]))
    <3>1. w = v
      BY <2>2, <2>6 DEF Chosen
    <3>2. Len(v) > 0
      <4>1. SUFFICES ASSUME Len(v) = 0 PROVE FALSE
        BY <2>1
      <4>2. Diverse(G, q, v, found[i])
        BY <2>1, <4>1 DEF Diverse
      <4> QED BY <2>6, <4>1, <4>2
    <3> HIDE DEF Upto
    <3>3. \A j \in 1..Len(v) : \E m \in 1..i : v[j] = found[m]
      <4> TAKE j \in 1..Len(v)
      <4>1. PICK m \in 1..(i - 1) : v[j] = found[m]
        BY <2>1 DEF Upto
      <4> QED BY <1>1, <4>1
    <3>4. Upto(w, i)
      BY <2>1, <3>1, <3>2, <3>3 DEF Upto
    <3> QED BY <3>4 DEF w
  <2> QED BY <2>5, <2>6
<1>11. Upto(after[n], n)
  <2> HIDE DEF T
  <2>1. \A i \in 0..n : i \in T
    BY <1>1, <1>9, <1>10, Turns
  <2>2. n \in T
    BY <1>1, <2>1
  <2> QED BY <2>2 DEF T
<1>12. n > 0
  BY <1>1 DEF n
<1>13. o \in Seq(N) /\ NoTwins(o) /\ Len(o) \in Nat \ {0} /\ Len(o) <= most
  BY <1>5, <1>11, <1>12
<1> QED BY <1>13 DEF o

\* p keeps some of the nodes of a list, all of them if there is room.
Trims(p, links, most) ==
    /\ p \in Seq({links[i] : i \in 1..Len(links)})
    /\ Len(p) \in Nat /\ Len(p) <= most
    /\ NoTwins(links) => NoTwins(p)
    /\ Len(links) <= most => p = links

\* Pruning trims a list.
LEMMA PrunedFacts ==
    ASSUME NEW G, IsGraph(G), NEW n \in 1..Len(G.nodes),
           NEW links \in Seq(1..Len(G.nodes)), NEW most \in Nat \ {0}
    PROVE  Trims(Pruned(G, n, links, most), links, most)
<1> DEFINE p == Pruned(G, n, links, most)
<1> DEFINE N == {links[i] : i \in 1..Len(links)}
<1>3. links \in Seq(N) /\ N \in SUBSET (1..Len(G.nodes)) /\ Len(links) \in Nat
  <2>1. N \in SUBSET (1..Len(G.nodes)) /\ Len(links) \in Nat
    OBVIOUS
  <2>2. \A i \in 1..Len(links) : links[i] \in N
    OBVIOUS
  <2> HIDE DEF N
  <2> QED BY <2>1, <2>2, IsSequenceOf
<1> HIDE DEF N
<1>1. CASE Len(links) <= most
  <2>1. p = links
    BY <1>1, Zenon DEF Pruned
  <2> HIDE DEF p
  <2>2. p \in Seq(N) /\ Len(p) \in Nat /\ Len(p) <= most
    BY <1>1, <1>3, <2>1
  <2> QED BY <1>1, <2>1, <2>2 DEF p, N, Trims
<1>2. CASE ~(Len(links) <= most)
  <2> DEFINE far(i) == Far(G, G.nodes[n].at, links[i])
  <2> DEFINE D == DOMAIN links
  <2> DEFINE R == {x \in D \X D :
                      far(x[1]) < far(x[2]) \/ (far(x[1]) = far(x[2]) /\ x[1] < x[2])}
  <2> DEFINE s == Sorted(D, R)
  <2>1. p = [i \in 1..most |-> links[s[i]]]
    BY <1>2, Zenon DEF Pruned
  <2>2. D = 1..Len(links) /\ Len(links) \in Nat /\ \A i \in D : links[i] \in N
    BY <1>3
  <2>3. \A i \in D : far(i) \in Nat
    <3>1. G.nodes[n].at \in Nat
      BY GraphFacts
    <3> HIDE DEF D
    <3> QED BY <1>3, <2>2, <3>1, FarFacts
  <2>4. IsFiniteSet(D) /\ Cardinality(D) = Len(links)
    <3>1. \A k \in Nat : IsFiniteSet(1..k) /\ Cardinality(1..k) = k
      BY FS_Interval
    <3> HIDE DEF D
    <3> QED BY <2>2, <3>1
  <2>5. IsOrder(D, R)
    <3> HIDE DEF far, D
    <3>1. \A x, y \in D : <<x, y>> \in R <=> (far(x) < far(y) \/ (far(x) = far(y) /\ x < y))
      OBVIOUS
    <3>2. \A x \in D : x \in Nat
      BY <2>2
    <3> HIDE DEF R
    <3>3. \A x \in D : <<x, x>> \notin R
      BY <2>3, <3>1, <3>2
    <3>4. ASSUME NEW x \in D, NEW y \in D, NEW z \in D, <<x, y>> \in R, <<y, z>> \in R
          PROVE  <<x, z>> \in R
      <4>1. far(x) \in Nat /\ far(y) \in Nat /\ far(z) \in Nat
        BY <2>3
      <4>2. x \in Nat /\ y \in Nat /\ z \in Nat
        BY <3>2
      <4>3. far(x) < far(y) \/ (far(x) = far(y) /\ x < y)
        BY <3>1, <3>4
      <4>4. far(y) < far(z) \/ (far(y) = far(z) /\ y < z)
        BY <3>1, <3>4
      <4>5. far(x) < far(z) \/ (far(x) = far(z) /\ x < z)
        BY <4>1, <4>2, <4>3, <4>4
      <4> QED BY <3>1, <4>5
    <3>5. ASSUME NEW x \in D, NEW y \in D
          PROVE  x = y \/ <<x, y>> \in R \/ <<y, x>> \in R
      <4>1. far(x) < far(y) \/ far(y) < far(x) \/ far(x) = far(y)
        BY <2>3
      <4>2. x < y \/ y < x \/ x = y
        BY <3>2
      <4> QED BY <3>1, <4>1, <4>2
    <3> QED BY <3>3, <3>4, <3>5 DEF IsOrder
  <2> HIDE DEF R, D, p
  <2>6. Lists(s, D, R)
    BY <2>4, <2>5, SortedFacts
  <2> HIDE DEF s
  <2>7. \A i \in 1..most : s[i] \in D /\ i \in 1..Len(s)
    <3>1. Len(s) = Len(links) /\ s \in Seq(D)
      BY <2>4, <2>6 DEF Lists
    <3>2. \A i \in 1..most : i \in 1..Len(s)
      BY <1>2, <2>2, <3>1
    <3> QED BY <3>1, <3>2
  <2>8. \A i, j \in 1..most : s[i] = s[j] => i = j
    BY <2>6, <2>7 DEF Lists
  <2>9. p \in Seq(N) /\ Len(p) = most
    <3>1. p = [i \in 1..most |-> links[s[i]]] /\ \A i \in 1..most : links[s[i]] \in N
      BY <2>1, <2>2, <2>7
    <3>2. p \in [1..most -> N] /\ most \in Nat
      BY <3>1
    <3> QED BY <3>2
  <2>10. ASSUME NoTwins(links)
         PROVE  NoTwins(p)
    <3>1. SUFFICES ASSUME NEW i \in 1..most, NEW j \in 1..most, p[i] = p[j]
                   PROVE  i = j
      BY <2>9 DEF NoTwins
    <3>2. links[s[i]] = links[s[j]] /\ s[i] \in 1..Len(links) /\ s[j] \in 1..Len(links)
      BY <2>1, <2>2, <2>7, <3>1
    <3>3. s[i] = s[j]
      BY <2>10, <3>2 DEF NoTwins
    <3> QED BY <2>8, <3>3
  <2>11. Len(p) \in Nat /\ Len(p) <= most
    BY <2>9
  <2> QED BY <1>2, <2>9, <2>10, <2>11 DEF p, N, Trims
<1> QED BY <1>1, <1>2
-----------------------------------------------------------------------------
(* A node is linked. *)

ListAt(G, n, level) == G.nodes[n].links[level]

\* H has the rows of G, whatever their links.
SameRows(G, H) ==
    /\ Len(H.nodes) = Len(G.nodes) /\ H.entry = G.entry /\ H.top = G.top
    /\ \A n \in 1..Len(G.nodes) :
          /\ H.nodes[n].id = G.nodes[n].id /\ H.nodes[n].at = G.nodes[n].at
          /\ H.nodes[n].level = G.nodes[n].level /\ H.nodes[n].dead = G.nodes[n].dead

\* One list is replaced.
LEMMA RelinkedFacts ==
    ASSUME NEW G, IsGraph(G), NEW n \in 1..Len(G.nodes),
           NEW level \in 0..G.nodes[n].level, NEW links \in Seq(Nat)
    PROVE  LET H == Relinked(G, n, level, links) IN
           /\ IsGraph(H) /\ SameRows(G, H) /\ ListAt(H, n, level) = links
           /\ \A m \in 1..Len(G.nodes) : \A l \in 0..G.nodes[m].level :
                 m # n \/ l # level => ListAt(H, m, l) = ListAt(G, m, l)
<1> DEFINE H == Relinked(G, n, level, links)
<1> DEFINE old == G.nodes[n]
<1> DEFINE row == [old EXCEPT !.links = [@ EXCEPT ![level] = links]]
<1>1. /\ Len(G.nodes) \in Nat /\ G.nodes \in Seq(RowSet) /\ G.entry \in Nat /\ G.top \in Int
      /\ G = [nodes |-> G.nodes, entry |-> G.entry, top |-> G.top]
      /\ old \in RowSet /\ DOMAIN old.links = 0..old.level
  BY GraphFacts DEF IsGraph
<1>2. H = [nodes |-> [G.nodes EXCEPT ![n] = row], entry |-> G.entry, top |-> G.top]
  <2>1. H = [G EXCEPT !.nodes = [G.nodes EXCEPT ![n] = row]]
    BY Zenon DEF Relinked
  <2> HIDE DEF H, row
  <2> QED BY <1>1, <2>1
<1>3. /\ old = [id |-> old.id, at |-> old.at, level |-> old.level, dead |-> old.dead,
                links |-> old.links]
      /\ old.id \in Ids /\ old.at \in Nat /\ old.level \in Levels /\ old.dead \in BOOLEAN
      /\ old.links \in LinkLists
  BY <1>1 DEF RowSet
<1> DEFINE lists == [old.links EXCEPT ![level] = links]
<1>4. /\ lists \in LinkLists /\ DOMAIN lists = 0..old.level /\ lists[level] = links
      /\ \A l \in 0..old.level : l # level => lists[l] = old.links[l]
  <2>1. PICK k \in Nat : old.links \in [0..k -> Seq(Nat)]
    BY <1>3 DEF LinkLists
  <2>2. lists \in [0..k -> Seq(Nat)] /\ DOMAIN old.links = 0..k
    BY <2>1
  <2>3. lists \in LinkLists
    <3> HIDE DEF lists
    <3> QED BY <2>2 DEF LinkLists
  <2>4. level \in DOMAIN old.links
    BY <1>1
  <2> HIDE DEF old
  <2> QED BY <1>1, <2>1, <2>3, <2>4
<1>5. row = [id |-> old.id, at |-> old.at, level |-> old.level, dead |-> old.dead,
             links |-> lists]
  <2> HIDE DEF old
  <2> QED BY <1>3
<1> HIDE DEF lists, row, old, H
<1>6. row \in RowSet
  BY <1>3, <1>4, <1>5 DEF RowSet
<1>7. /\ H.nodes = [G.nodes EXCEPT ![n] = row] /\ H.entry = G.entry /\ H.top = G.top
      /\ H.nodes \in Seq(RowSet) /\ Len(H.nodes) = Len(G.nodes)
      /\ H.nodes[n] = row /\ \A m \in 1..Len(G.nodes) : m # n => H.nodes[m] = G.nodes[m]
  BY <1>1, <1>2, <1>6
<1>8. H \in Graphs
  BY <1>1, <1>2, <1>7 DEF Graphs
<1>9. SameRows(G, H)
  BY <1>5, <1>7 DEF SameRows, old
<1>10. IsGraph(H)
  <2>1. ASSUME NEW m \in 1..Len(H.nodes)
        PROVE  /\ DOMAIN H.nodes[m].links = 0..H.nodes[m].level
               /\ H.nodes[m].at \in PlacesOf[H.nodes[m].id]
    <3>1. CASE m = n
      <4>1. G.nodes[n].at \in PlacesOf[G.nodes[n].id]
        BY DEF IsGraph
      <4> QED BY <1>4, <1>5, <1>7, <3>1, <4>1 DEF old
    <3>2. CASE m # n
      BY <1>7, <3>2 DEF IsGraph
    <3> QED BY <3>1, <3>2
  <2> QED BY <1>8, <2>1 DEF IsGraph
<1>11. ListAt(H, n, level) = links
  BY <1>4, <1>5, <1>7 DEF ListAt
<1>12. ASSUME NEW m \in 1..Len(G.nodes), NEW l \in 0..G.nodes[m].level, m # n \/ l # level
       PROVE  ListAt(H, m, l) = ListAt(G, m, l)
  <2>1. CASE m = n
    BY <1>4, <1>5, <1>7, <1>12, <2>1 DEF ListAt, old
  <2>2. CASE m # n
    BY <1>7, <2>2 DEF ListAt
  <2> QED BY <2>1, <2>2
<1> QED BY <1>9, <1>10, <1>11, <1>12 DEF H

\* Having the same rows is transitive, and distributes layers alike.
LEMMA SameRowsFacts ==
    ASSUME NEW G, NEW H, NEW J, SameRows(G, H), SameRows(H, J)
    PROVE  SameRows(G, J)
BY DEF SameRows

\* Two nodes are linked, each to the other unless pruning decides against it.
LEMMA LinkFacts ==
    ASSUME NEW G, IsGraph(G), NEW node \in 1..Len(G.nodes), NEW n \in 1..Len(G.nodes),
           node # n, NEW level \in Nat, level <= G.nodes[node].level,
           level <= G.nodes[n].level, ListAt(G, n, level) \in Seq(1..Len(G.nodes))
    PROVE  LET H == Link(G, node, n, level) IN
           /\ IsGraph(H) /\ SameRows(G, H)
           /\ ListAt(H, node, level) = Append(ListAt(G, node, level), n)
           /\ Trims(ListAt(H, n, level), Append(ListAt(G, n, level), node), MaxLinks(level))
           /\ \A m \in 1..Len(G.nodes) : \A l \in 0..G.nodes[m].level :
                 m \notin {node, n} \/ l # level => ListAt(H, m, l) = ListAt(G, m, l)
<1> DEFINE there == Append(ListAt(G, node, level), n)
<1> DEFINE back == Append(ListAt(G, n, level), node)
<1> DEFINE kept == Pruned(G, n, back, MaxLinks(level))
<1> DEFINE I == Relinked(G, node, level, there)
<1> DEFINE H == Relinked(I, n, level, kept)
<1>1. Link(G, node, n, level) = H
  BY DEF Link, ListAt
<1>2. /\ Len(G.nodes) \in Nat /\ level \in 0..G.nodes[node].level
      /\ level \in 0..G.nodes[n].level /\ ListAt(G, node, level) \in Seq(Nat)
  BY GraphFacts DEF ListAt
<1>3. there \in Seq(Nat) /\ back \in Seq(1..Len(G.nodes))
  BY <1>2
<1>4. Trims(kept, back, MaxLinks(level)) /\ kept \in Seq(Nat)
  <2>1. MaxLinks(level) \in Nat \ {0}
    BY RoomForLinks DEF MaxLinksFacts
  <2> HIDE DEF back, kept
  <2>2. Trims(kept, back, MaxLinks(level))
    BY <1>3, <2>1, PrunedFacts DEF kept
  <2> DEFINE S == {back[i] : i \in 1..Len(back)}
  <2>3. S \subseteq Nat
    BY <1>3
  <2>4. kept \in Seq(S)
    BY <2>2 DEF Trims
  <2> HIDE DEF S
  <2>5. \A i \in 1..Len(kept) : kept[i] \in Nat
    <3>1. \A i \in 1..Len(kept) : kept[i] \in S
      BY <2>4
    <3>2. S \subseteq Nat
      BY <2>3 DEF S
    <3> QED BY <3>1, <3>2
  <2>6. kept \in Seq(Nat)
    BY <2>4, <2>5, IsSequenceOf
  <2> QED BY <2>2, <2>6
<1> HIDE DEF there, back, kept, I, H
<1>5. /\ IsGraph(I) /\ SameRows(G, I) /\ ListAt(I, node, level) = there
      /\ \A m \in 1..Len(G.nodes) : \A l \in 0..G.nodes[m].level :
            m # node \/ l # level => ListAt(I, m, l) = ListAt(G, m, l)
  BY <1>2, <1>3, RelinkedFacts DEF I
<1>6. /\ Len(I.nodes) = Len(G.nodes)
      /\ \A m \in 1..Len(G.nodes) : I.nodes[m].level = G.nodes[m].level
  BY <1>5 DEF SameRows
<1>7. /\ IsGraph(H) /\ SameRows(I, H) /\ ListAt(H, n, level) = kept
      /\ \A m \in 1..Len(I.nodes) : \A l \in 0..I.nodes[m].level :
            m # n \/ l # level => ListAt(H, m, l) = ListAt(I, m, l)
  <2>1. n \in 1..Len(I.nodes) /\ level \in 0..I.nodes[n].level
    BY <1>2, <1>6
  <2> QED BY <1>4, <1>5, <2>1, RelinkedFacts DEF H
<1>8. SameRows(G, H)
  BY <1>5, <1>7, SameRowsFacts
<1>9. ListAt(H, node, level) = there
  BY <1>2, <1>5, <1>6, <1>7
<1>10. \A m \in 1..Len(G.nodes) : \A l \in 0..G.nodes[m].level :
          m \notin {node, n} \/ l # level => ListAt(H, m, l) = ListAt(G, m, l)
  BY <1>5, <1>6, <1>7
<1> QED BY <1>1, <1>4, <1>7, <1>8, <1>9, <1>10 DEF there, back
\* The lists of a layer name nodes of the graph.
IsBounded(G, level) ==
    \A n \in 1..Len(G.nodes) :
        level <= G.nodes[n].level => ListAt(G, n, level) \in Seq(1..Len(G.nodes))

\* Linking two nodes names nodes of the graph.
LEMMA LinkIsBounded ==
    ASSUME NEW G, IsGraph(G), NEW node \in 1..Len(G.nodes), NEW n \in 1..Len(G.nodes),
           node # n, NEW level \in Nat, level <= G.nodes[node].level,
           level <= G.nodes[n].level, IsBounded(G, level)
    PROVE  IsBounded(Link(G, node, n, level), level)
<1> DEFINE H == Link(G, node, n, level)
<1> DEFINE all == 1..Len(G.nodes)
<1> DEFINE back == Append(ListAt(G, n, level), node)
<1>1. ListAt(G, n, level) \in Seq(all) /\ ListAt(G, node, level) \in Seq(all)
  BY DEF IsBounded
<1>2. /\ IsGraph(H) /\ SameRows(G, H)
      /\ ListAt(H, node, level) = Append(ListAt(G, node, level), n)
      /\ Trims(ListAt(H, n, level), back, MaxLinks(level))
      /\ \A m \in 1..Len(G.nodes) : \A l \in 0..G.nodes[m].level :
            m \notin {node, n} \/ l # level => ListAt(H, m, l) = ListAt(G, m, l)
  BY <1>1, LinkFacts
<1>3. back \in Seq(all)
  BY <1>1
<1>4. \A m \in all : G.nodes[m].level \in Nat
  BY GraphFacts
<1>5. Len(H.nodes) = Len(G.nodes) /\ \A m \in all : H.nodes[m].level = G.nodes[m].level
  BY <1>2 DEF SameRows
<1> DEFINE elements == {back[i] : i \in 1..Len(back)}
<1>6. elements \subseteq all
  <2> HIDE DEF all, back
  <2> QED BY <1>3
<1> HIDE DEF H, back
<1>7. ListAt(H, n, level) \in Seq(all)
  <2>1. ListAt(H, n, level) \in Seq(elements)
    BY <1>2 DEF Trims
  <2> DEFINE s == ListAt(H, n, level)
  <2> HIDE DEF elements, s, all
  <2>2. \A i \in 1..Len(s) : s[i] \in elements
    BY <2>1 DEF s
  <2>3. \A i \in 1..Len(s) : s[i] \in all
    BY <1>6, <2>2 DEF elements
  <2>4. s \in Seq(elements)
    BY <2>1 DEF s
  <2>5. s \in Seq(all)
    BY <2>3, <2>4, IsSequenceOf
  <2> QED BY <2>5 DEF s
<1>8. ListAt(H, node, level) \in Seq(all)
  BY <1>1, <1>2
<1>9. ASSUME NEW m \in all, level <= G.nodes[m].level
      PROVE  ListAt(H, m, level) \in Seq(all)
  <2>1. CASE m \in {node, n}
    BY <1>7, <1>8, <2>1
  <2>2. CASE m \notin {node, n}
    <3>1. level \in 0..G.nodes[m].level
      BY <1>4, <1>9
    <3>2. ListAt(H, m, level) = ListAt(G, m, level)
      BY <1>2, <2>2, <3>1
    <3> QED BY <1>9, <3>2 DEF IsBounded
  <2> QED BY <2>1, <2>2
<1>10. IsBounded(H, level)
  BY <1>5, <1>9 DEF IsBounded
<1> QED BY <1>10 DEF H

\* H is G after a node was linked to the first k of those chosen.
IsLinked(G, H, node, chosen, k, level) ==
    /\ IsGraph(H) /\ SameRows(G, H)
    /\ ListAt(H, node, level) \in Seq(Nat) /\ Len(ListAt(H, node, level)) = k
    /\ \A j \in 1..k :
          /\ ListAt(H, node, level)[j] = chosen[j]
          /\ Trims(ListAt(H, chosen[j], level),
                   Append(ListAt(G, chosen[j], level), node), MaxLinks(level))
    /\ \A n \in 1..Len(G.nodes) : \A l \in 0..G.nodes[n].level :
          l # level \/ (n # node /\ \A j \in 1..k : n # chosen[j])
             => ListAt(H, n, l) = ListAt(G, n, l)

Linked(G, node, chosen, level) ==
    Loop(LAMBDA H, i : Link(H, node, chosen[i], level), G, Len(chosen))

\* A new node is linked to those that were chosen.
LEMMA LinkedFacts ==
    ASSUME NEW G, IsGraph(G), NEW node \in 1..Len(G.nodes), NEW level \in Nat,
           level <= G.nodes[node].level, IsBounded(G, level),
           ListAt(G, node, level) = <<>>, NEW N \in SUBSET (1..Len(G.nodes)), node \notin N,
           \A n \in N : level <= G.nodes[n].level, NEW chosen \in Seq(N), NoTwins(chosen)
    PROVE  IsLinked(G, Linked(G, node, chosen, level), node, chosen, Len(chosen), level)
<1> DEFINE n == Len(chosen)
<1> DEFINE V == {H \in Graphs : IsGraph(H) /\ SameRows(G, H) /\ IsBounded(H, level)}
<1> DEFINE Turn(H, i) == Link(H, node, chosen[i], level)
<1> DEFINE F == [i \in 1..n |-> [H \in V |-> Turn(H, i)]]
<1>1. n \in Nat /\ \A i \in 1..n : chosen[i] \in N
  OBVIOUS
<1>2. ASSUME NEW i \in 1..n, NEW H \in V
      PROVE  /\ H \in Graphs /\ IsGraph(H) /\ SameRows(G, H) /\ IsBounded(H, level)
             /\ node \in 1..Len(H.nodes) /\ chosen[i] \in 1..Len(H.nodes)
             /\ node # chosen[i] /\ level <= H.nodes[node].level
             /\ level <= H.nodes[chosen[i]].level
             /\ ListAt(H, chosen[i], level) \in Seq(1..Len(H.nodes))
  <2>1. H \in Graphs /\ IsGraph(H) /\ SameRows(G, H) /\ IsBounded(H, level)
    OBVIOUS
  <2> HIDE DEF V, n
  <2>2. /\ node \in 1..Len(H.nodes) /\ chosen[i] \in 1..Len(H.nodes)
        /\ node # chosen[i] /\ level <= H.nodes[node].level
        /\ level <= H.nodes[chosen[i]].level
    BY <1>1, <2>1 DEF SameRows
  <2>3. ListAt(H, chosen[i], level) \in Seq(1..Len(H.nodes))
    BY <2>1, <2>2 DEF IsBounded
  <2> QED BY <2>1, <2>2, <2>3
<1>3. ASSUME NEW i \in 1..n, NEW H \in V
      PROVE  Turn(H, i) \in V
  <2>1. IsGraph(Turn(H, i)) /\ SameRows(H, Turn(H, i))
    <3> HIDE DEF V, n
    <3> QED BY <1>2, LinkFacts
  <2>2. IsBounded(Turn(H, i), level)
    <3> HIDE DEF V, n
    <3> QED BY <1>2, LinkIsBounded
  <2>3. SameRows(G, Turn(H, i)) /\ Turn(H, i) \in Graphs
    BY <1>2, <2>1, SameRowsFacts DEF IsGraph
  <2> HIDE DEF Turn
  <2> QED BY <2>1, <2>2, <2>3
<1>4. F \in [1..n -> [V -> V]] /\ G \in V
  <2>1. G \in V
    BY DEF SameRows, IsGraph
  <2> HIDE DEF V, n, Turn
  <2> QED BY <1>3, <2>1
<1>5. PICK h \in [0..n -> V] : IsRun(h, n, G, F)
  <2> HIDE DEF V, n, F
  <2> QED BY <1>1, <1>4, LoopExists
<1> DEFINE after == CHOOSE g : g = [i \in 0..n |-> IF i = 0 THEN G ELSE Turn(g[i - 1], i)]
<1> DEFINE o == Linked(G, node, chosen, level)
<1>6. o = after[n]
  BY Zenon DEF Loop, Linked
<1> HIDE DEF Turn
<1>7. h = [i \in 0..n |-> IF i = 0 THEN G ELSE Turn(h[i - 1], i)]
  <2>1. \A i \in 1..n : i - 1 \in 0..n /\ F[i][h[i - 1]] = Turn(h[i - 1], i)
    <3> HIDE DEF V, n
    <3> QED BY <1>1
  <2> HIDE DEF V, n, F
  <2> QED BY <1>1, <1>5, <2>1 DEF IsRun
<1>8. after = [i \in 0..n |-> IF i = 0 THEN G ELSE Turn(after[i - 1], i)]
  <2> HIDE DEF n
  <2> QED BY <1>7
<1> HIDE DEF after, o, n, F
<1>9. after[0] = G /\ \A i \in 1..n : after[i] = Turn(after[i - 1], i)
  BY <1>1, <1>8
<1> DEFINE Upto(H, i) == H \in V /\ IsLinked(G, H, node, chosen, i, level)
<1> DEFINE T == {i \in 0..n : Upto(after[i], i)}
<1>10. 0 \in T
  <2>1. IsLinked(G, G, node, chosen, 0, level)
    BY DEF IsLinked, SameRows
  <2> HIDE DEF V
  <2> QED BY <1>1, <1>4, <1>9, <2>1
<1>11. ASSUME NEW i \in 1..n, i - 1 \in T
       PROVE  i \in T
  <2> DEFINE H == after[i - 1]
  <2> DEFINE J == after[i]
  <2> DEFINE c == chosen[i]
  <2> DEFINE all == 1..Len(G.nodes)
  <2>1. H \in V /\ IsLinked(G, H, node, chosen, i - 1, level)
    <3> HIDE DEF V
    <3> QED BY <1>11
  <2>2. J = Link(H, node, c, level)
    BY <1>9 DEF Turn
  <2>3. J \in V
    <3> HIDE DEF V
    <3> QED BY <1>3, <1>9, <2>1
  <2>4. /\ c \in N /\ c # node /\ c \in all /\ i \in Nat /\ level \in 0..G.nodes[c].level
        /\ \A j \in 1..(i - 1) : chosen[j] # c /\ chosen[j] \in N /\ j \in 1..n
    <3>1. /\ c \in N /\ c # node /\ c \in all /\ i \in Nat
          /\ \A j \in 1..(i - 1) : chosen[j] # c /\ chosen[j] \in N /\ j \in 1..n
      <4>1. c \in N /\ c # node /\ c \in all /\ i \in Nat
        <5>1. c \in N /\ i \in Nat
          BY <1>1
        <5> HIDE DEF c, V, T
        <5> QED BY <5>1
      <4>2. ASSUME NEW j \in 1..(i - 1)
            PROVE  chosen[j] # c /\ chosen[j] \in N /\ j \in 1..n
        <5>1. j \in 1..n /\ j # i
          BY <1>1
        <5> QED BY <1>1, <5>1 DEF NoTwins, n
      <4> QED BY <4>1, <4>2
    <3> HIDE DEF c
    <3>2. level \in 0..G.nodes[c].level
      BY <3>1, GraphFacts
    <3> QED BY <3>1, <3>2
  <2> HIDE DEF H, J
  <2>5. /\ IsGraph(H) /\ SameRows(G, H) /\ IsGraph(J) /\ SameRows(H, J)
        /\ ListAt(J, node, level) = Append(ListAt(H, node, level), c)
        /\ Trims(ListAt(J, c, level), Append(ListAt(H, c, level), node), MaxLinks(level))
        /\ \A m \in all : \A l \in 0..G.nodes[m].level :
              m \notin {node, c} \/ l # level => ListAt(J, m, l) = ListAt(H, m, l)
    <3>1. /\ IsGraph(H) /\ SameRows(G, H) /\ IsBounded(H, level)
          /\ node \in 1..Len(H.nodes) /\ c \in 1..Len(H.nodes)
          /\ node # c /\ level <= H.nodes[node].level /\ level <= H.nodes[c].level
          /\ ListAt(H, c, level) \in Seq(1..Len(H.nodes))
      <4> HIDE DEF V
      <4> QED BY <1>2, <2>1
    <3> HIDE DEF c, V
    <3>2. /\ IsGraph(J) /\ SameRows(H, J)
          /\ ListAt(J, node, level) = Append(ListAt(H, node, level), c)
          /\ Trims(ListAt(J, c, level), Append(ListAt(H, c, level), node), MaxLinks(level))
          /\ \A m \in 1..Len(H.nodes) : \A l \in 0..H.nodes[m].level :
                m \notin {node, c} \/ l # level => ListAt(J, m, l) = ListAt(H, m, l)
      BY <2>2, <3>1, LinkFacts
    <3>3. Len(H.nodes) = Len(G.nodes) /\ \A m \in all : H.nodes[m].level = G.nodes[m].level
      BY <3>1 DEF SameRows
    <3> QED BY <3>1, <3>2, <3>3
  <2>6. ListAt(H, c, level) = ListAt(G, c, level)
    BY <2>1, <2>4 DEF IsLinked
  <2>7. /\ ListAt(J, node, level) \in Seq(Nat) /\ Len(ListAt(J, node, level)) = i
        /\ \A j \in 1..i : ListAt(J, node, level)[j] = chosen[j]
    <3> DEFINE s == ListAt(H, node, level)
    <3>1. /\ s \in Seq(Nat) /\ Len(s) = i - 1 /\ \A j \in 1..(i - 1) : s[j] = chosen[j]
          /\ c \in Nat /\ c = chosen[i]
      BY <2>1, <2>4 DEF IsLinked
    <3> HIDE DEF s, c
    <3>2. /\ Append(s, c) \in Seq(Nat) /\ Len(Append(s, c)) = i
          /\ \A j \in 1..i : Append(s, c)[j] = chosen[j]
      <4>1. /\ Append(s, c) \in Seq(Nat) /\ Len(Append(s, c)) = i
            /\ Append(s, c)[i] = c /\ \A j \in 1..(i - 1) : Append(s, c)[j] = s[j]
        BY <2>4, <3>1
      <4>2. \A j \in 1..i : j = i \/ j \in 1..(i - 1)
        BY <2>4
      <4> QED BY <3>1, <4>1, <4>2
    <3> QED BY <2>5, <3>2 DEF s
  <2>8. ASSUME NEW j \in 1..i
        PROVE  Trims(ListAt(J, chosen[j], level),
                     Append(ListAt(G, chosen[j], level), node), MaxLinks(level))
    <3>1. CASE j = i
      BY <2>5, <2>6, <3>1
    <3>2. CASE j # i
      <4>1. j \in 1..(i - 1)
        BY <2>4, <3>2
      <4>2. chosen[j] \in all /\ chosen[j] \notin {node, c} /\ level \in 0..G.nodes[chosen[j]].level
        <5>1. chosen[j] \in N /\ chosen[j] # c
          BY <2>4, <4>1
        <5> HIDE DEF c
        <5> QED BY <5>1, GraphFacts
      <4>3. ListAt(J, chosen[j], level) = ListAt(H, chosen[j], level)
        BY <2>5, <4>2
      <4> QED BY <2>1, <4>1, <4>3 DEF IsLinked
    <3> QED BY <3>1, <3>2
  <2>9. ASSUME NEW m \in all, NEW l \in 0..G.nodes[m].level,
               l # level \/ (m # node /\ \A j \in 1..i : m # chosen[j])
        PROVE  ListAt(J, m, l) = ListAt(G, m, l)
    <3>1. i \in 1..i /\ 1..(i - 1) \subseteq 1..i
      BY <2>4
    <3>2. ListAt(J, m, l) = ListAt(H, m, l)
      BY <2>5, <2>9, <3>1
    <3>3. ListAt(H, m, l) = ListAt(G, m, l)
      BY <2>1, <2>9, <3>1 DEF IsLinked
    <3> QED BY <3>2, <3>3
  <2>10. SameRows(G, J)
    BY <2>5, SameRowsFacts
  <2>11. IsLinked(G, J, node, chosen, i, level)
    BY <2>5, <2>7, <2>8, <2>9, <2>10 DEF IsLinked
  <2> HIDE DEF V
  <2> QED BY <2>3, <2>11 DEF J
<1>12. Upto(after[n], n)
  <2> HIDE DEF T
  <2>1. \A i \in 0..n : i \in T
    BY <1>1, <1>10, <1>11, Turns
  <2>2. n \in T
    BY <1>1, <2>1
  <2> QED BY <2>2 DEF T
<1> QED BY <1>6, <1>12 DEF o, n
-----------------------------------------------------------------------------
(* Networks: the lists of a graph stay in their layers. *)

\* The nodes that have a layer.
Holders(G, level) == {n \in 1..Len(G.nodes) : level <= G.nodes[n].level}

\* A list is not too long, names no node twice, and stays in its layer.
IsWired(G, n, level) ==
    /\ NoTwins(ListAt(G, n, level)) /\ Len(ListAt(G, n, level)) <= MaxLinks(level)
    /\ \A i \in 1..Len(ListAt(G, n, level)) :
          ListAt(G, n, level)[i] \in Holders(G, level) \ {n}

IsNetwork(G) ==
    /\ IsGraph(G)
    /\ \A n \in 1..Len(G.nodes) : \A l \in 0..G.nodes[n].level : IsWired(G, n, l)

\* A list without twins is no longer than the nodes it may name are many.
LEMMA ListIsShort ==
    ASSUME NEW S, IsFiniteSet(S), NEW s \in Seq(S), NoTwins(s)
    PROVE  Len(s) <= Cardinality(S)
<1>1. Len(s) \in Nat
  OBVIOUS
<1>2. s \in Injection(1..Len(s), S)
  <2>1. s \in [1..Len(s) -> S]
    OBVIOUS
  <2>2. IsInjective(s)
    BY DEF IsInjective, NoTwins
  <2> QED BY <2>1, <2>2 DEF Injection
<1>3. \A k \in Nat : Cardinality(1..k) = k
  BY FS_Interval
<1> QED BY <1>1, <1>2, <1>3, FS_Injection

\* In a network, the nodes that have a layer are one that can be searched.
LEMMA HoldersAreALayer ==
    ASSUME NEW G, IsNetwork(G), NEW level \in Nat
    PROVE  /\ IsLayer(G, Holders(G, level), level) /\ IsBounded(G, level)
           /\ \A n \in Holders(G, level) : IsWired(G, n, level)
<1>1. IsGraph(G)
  BY DEF IsNetwork
<1>2. ASSUME NEW n \in 1..Len(G.nodes), level <= G.nodes[n].level
      PROVE  /\ level \in 0..G.nodes[n].level /\ IsWired(G, n, level)
             /\ ListAt(G, n, level) \in Seq(Nat)
  <2>1. level \in 0..G.nodes[n].level
    BY <1>1, <1>2, GraphFacts
  <2>2. ListAt(G, n, level) \in Seq(Nat)
    BY <1>1, <2>1, GraphFacts DEF ListAt
  <2> QED BY <2>1, <2>2 DEF IsNetwork
<1>3. IsLayer(G, Holders(G, level), level)
  BY <1>1, <1>2 DEF IsLayer, IsWired, Holders, ListAt
<1>4. ASSUME NEW n \in 1..Len(G.nodes), level <= G.nodes[n].level
      PROVE  ListAt(G, n, level) \in Seq(1..Len(G.nodes))
  <2>1. \A i \in 1..Len(ListAt(G, n, level)) : ListAt(G, n, level)[i] \in 1..Len(G.nodes)
    BY <1>2, <1>4 DEF IsWired, Holders
  <2> QED BY <1>2, <1>4, <2>1, IsSequenceOf
<1> QED BY <1>2, <1>3, <1>4 DEF IsBounded, Holders

\* A list to which a node that is new to it was added.
LEMMA AppendedFacts ==
    ASSUME NEW S, NEW s \in Seq(S), NoTwins(s), NEW x, \A i \in 1..Len(s) : s[i] # x
    PROVE  /\ NoTwins(Append(s, x)) /\ Len(Append(s, x)) = Len(s) + 1 /\ Len(s) \in Nat
           /\ Append(s, x)[Len(s) + 1] = x /\ \A i \in 1..Len(s) : Append(s, x)[i] = s[i]
           /\ \A i \in 1..Len(Append(s, x)) :
                 Append(s, x)[i] = x \/ \E j \in 1..Len(s) : Append(s, x)[i] = s[j]
<1> DEFINE t == Append(s, x)
<1>1. /\ Len(t) = Len(s) + 1 /\ Len(s) \in Nat
      /\ t[Len(s) + 1] = x /\ \A i \in 1..Len(s) : t[i] = s[i]
  OBVIOUS
<1> HIDE DEF t
<1>2. \A i \in 1..Len(t) : i \in 1..Len(s) \/ i = Len(s) + 1
  BY <1>1
<1>3. NoTwins(t)
  BY <1>1, <1>2 DEF NoTwins
<1> QED BY <1>1, <1>2, <1>3 DEF t

\* H is the network G after a node without links was linked, in a layer, to some of
\* the nodes N, none of which knew it.
IsJoin(G, H, node, N, chosen, level) ==
    /\ IsNetwork(G) /\ node \in 1..Len(G.nodes) /\ level \in Nat
    /\ level <= G.nodes[node].level /\ N \subseteq Holders(G, level) /\ node \notin N
    /\ chosen \in Seq(N) /\ NoTwins(chosen)
    /\ Len(chosen) # 0 /\ Len(chosen) <= MaxLinks(level)
    /\ \A n \in N : \A i \in 1..Len(ListAt(G, n, level)) : ListAt(G, n, level)[i] # node
    /\ ListAt(G, node, level) = <<>>
    /\ IsLinked(G, H, node, chosen, Len(chosen), level)

\* A network stays one when a node is linked to nodes of a layer that do not know it.
LEMMA LinkedIsANetwork ==
    ASSUME NEW G, NEW H, NEW node, NEW N, NEW chosen, NEW level,
           IsJoin(G, H, node, N, chosen, level)
    PROVE  IsNetwork(H)
<1> USE DEF IsJoin
<1> DEFINE k == Len(chosen)
<1>1. /\ IsGraph(G) /\ IsGraph(H) /\ SameRows(G, H) /\ k \in Nat
      /\ \A j \in 1..k : chosen[j] \in N
  BY DEF IsNetwork, IsLinked
<1>2. \A l : Holders(H, l) = Holders(G, l)
  BY <1>1 DEF Holders, SameRows
<1>3. node \in Holders(G, level)
  BY DEF Holders
<1>4. IsWired(H, node, level)
  <2> DEFINE s == ListAt(H, node, level)
  <2>1. s \in Seq(Nat) /\ Len(s) = k /\ \A j \in 1..k : s[j] = chosen[j]
    BY DEF IsLinked
  <2> HIDE DEF s
  <2>2. NoTwins(s)
    BY <2>1 DEF NoTwins
  <2>3. \A j \in 1..k : s[j] \in Holders(G, level) \ {node}
    BY <1>1, <2>1
  <2>4. Len(s) <= MaxLinks(level)
    BY <2>1
  <2> QED BY <1>2, <2>1, <2>2, <2>3, <2>4 DEF IsWired, s
<1>5. ASSUME NEW j \in 1..k
      PROVE  IsWired(H, chosen[j], level)
  <2> DEFINE c == chosen[j]
  <2> DEFINE old == ListAt(G, c, level)
  <2> DEFINE s == ListAt(H, c, level)
  <2> DEFINE back == Append(old, node)
  <2>1. Trims(s, back, MaxLinks(level))
    BY DEF IsLinked
  <2>2. c \in N /\ c \in Holders(G, level) /\ c # node
    BY <1>1
  <2> HIDE DEF c
  <2>3. old \in Seq(1..Len(G.nodes)) /\ IsWired(G, c, level)
    BY <2>2, HoldersAreALayer DEF IsBounded, Holders
  <2>4. /\ NoTwins(old) /\ \A i \in 1..Len(old) : old[i] # node
        /\ \A i \in 1..Len(old) : old[i] \in Holders(G, level) \ {c}
    BY <2>2, <2>3 DEF IsWired
  <2> HIDE DEF old, s
  <2>5. NoTwins(back) /\ \A i \in 1..Len(back) : back[i] \in Holders(G, level) \ {c}
    <3>1. /\ NoTwins(back)
          /\ \A i \in 1..Len(back) : back[i] = node \/ \E m \in 1..Len(old) : back[i] = old[m]
      BY <2>3, <2>4, AppendedFacts
    <3> HIDE DEF back
    <3> QED BY <1>3, <2>2, <2>4, <3>1
  <2> DEFINE elements == {back[i] : i \in 1..Len(back)}
  <2>6. elements \subseteq Holders(G, level) \ {c}
    <3> HIDE DEF back
    <3> QED BY <2>5
  <2>7. NoTwins(s) /\ Len(s) <= MaxLinks(level) /\ s \in Seq(elements)
    BY <2>1, <2>5 DEF Trims
  <2> HIDE DEF elements
  <2>8. \A i \in 1..Len(s) : s[i] \in Holders(G, level) \ {c}
    BY <2>6, <2>7
  <2>9. IsWired(H, c, level)
    BY <1>2, <2>7, <2>8 DEF IsWired, s
  <2> QED BY <2>9 DEF c
<1>6. ASSUME NEW n \in 1..Len(H.nodes), NEW l \in 0..H.nodes[n].level
      PROVE  IsWired(H, n, l)
  <2>1. n \in 1..Len(G.nodes) /\ l \in 0..G.nodes[n].level
    BY <1>1 DEF SameRows
  <2>2. CASE l = level /\ n = node
    BY <1>4, <2>2
  <2>3. CASE l = level /\ \E j \in 1..k : n = chosen[j]
    BY <1>5, <2>3
  <2>4. CASE l # level \/ (n # node /\ \A j \in 1..k : n # chosen[j])
    <3>1. ListAt(H, n, l) = ListAt(G, n, l)
      BY <2>1, <2>4 DEF IsLinked
    <3>2. IsWired(G, n, l)
      BY <2>1 DEF IsNetwork
    <3> QED BY <1>2, <3>1, <3>2 DEF IsWired
  <2> QED BY <2>2, <2>3, <2>4
<1> QED BY <1>1, <1>6 DEF IsNetwork

\* While there is room in the lists of a layer nothing is pruned, and the new node
\* and the first that was chosen know each other.
LEMMA NothingIsPruned ==
    ASSUME NEW G, NEW H, NEW node, NEW N, NEW chosen, NEW level,
           IsJoin(G, H, node, N, chosen, level)
    PROVE  /\ chosen[1] \in N /\ chosen[1] \in LinksOf(H, node, level)
           /\ Len(G.nodes) <= MaxLinks(level) + 1 =>
                 /\ node \in LinksOf(H, chosen[1], level)
                 /\ \A n \in Holders(G, level) : LinksOf(G, n, level) \subseteq LinksOf(H, n, level)
<1> USE DEF IsJoin
<1> DEFINE k == Len(chosen)
<1>1. IsGraph(G) /\ k \in Nat /\ 1 \in 1..k /\ \A j \in 1..k : chosen[j] \in N
  BY DEF IsNetwork
<1>2. chosen[1] \in LinksOf(H, node, level)
  <2> DEFINE s == ListAt(H, node, level)
  <2>1. Len(s) = k /\ s[1] = chosen[1]
    BY <1>1 DEF IsLinked
  <2>2. s[1] \in LinksOf(H, node, level)
    BY <1>1, <2>1 DEF LinksOf, ListAt
  <2> QED BY <2>1, <2>2
<1>3. ASSUME Len(G.nodes) <= MaxLinks(level) + 1, NEW j \in 1..k
      PROVE  /\ node \in LinksOf(H, chosen[j], level)
             /\ LinksOf(G, chosen[j], level) \subseteq LinksOf(H, chosen[j], level)
  <2> DEFINE c == chosen[j]
  <2> DEFINE old == ListAt(G, c, level)
  <2> DEFINE back == Append(old, node)
  <2> DEFINE s == ListAt(H, c, level)
  <2>1. Trims(s, back, MaxLinks(level))
    BY DEF IsLinked
  <2>2. c \in N /\ c \in Holders(G, level) /\ c # node /\ c \in 1..Len(G.nodes)
    BY <1>1 DEF Holders
  <2> HIDE DEF c
  <2>3. old \in Seq(1..Len(G.nodes)) /\ IsWired(G, c, level)
    BY <2>2, HoldersAreALayer DEF IsBounded, Holders
  <2>4. /\ NoTwins(old) /\ \A i \in 1..Len(old) : old[i] # node
        /\ \A i \in 1..Len(old) : old[i] \in Holders(G, level) \ {c}
    BY <2>2, <2>3 DEF IsWired
  <2> HIDE DEF old, s
  <2>5. /\ NoTwins(back) /\ Len(back) = Len(old) + 1 /\ Len(old) \in Nat
        /\ back[Len(old) + 1] = node /\ \A i \in 1..Len(old) : back[i] = old[i]
        /\ \A i \in 1..Len(back) : back[i] = node \/ \E m \in 1..Len(old) : back[i] = old[m]
    BY <2>3, <2>4, AppendedFacts
  <2>6. back \in Seq(1..Len(G.nodes))
    BY <2>3
  <2> HIDE DEF back
  <2> DEFINE others == (1..Len(G.nodes)) \ {c}
  <2>7. IsFiniteSet(others) /\ Cardinality(others) = Len(G.nodes) - 1
    <3> DEFINE all == 1..Len(G.nodes)
    <3>1. IsFiniteSet(all) /\ Cardinality(all) = Len(G.nodes) /\ c \in all
      BY <1>1, <2>2, NodesAreFinite
    <3> HIDE DEF all
    <3>2. IsFiniteSet(all \ {c}) /\ Cardinality(all \ {c}) = Len(G.nodes) - 1
      BY <3>1, FS_RemoveElement
    <3> QED BY <3>2 DEF all
  <2>8. back \in Seq(others)
    <3>1. \A i \in 1..Len(back) : back[i] \in others
      BY <2>2, <2>4, <2>5 DEF Holders
    <3> HIDE DEF others
    <3> QED BY <2>6, <3>1, IsSequenceOf
  <2>9. Len(back) <= Cardinality(others)
    <3> HIDE DEF others
    <3> QED BY <2>5, <2>7, <2>8, ListIsShort
  <2>10. MaxLinks(level) \in Nat /\ Len(G.nodes) \in Nat
    BY <1>1, RoomForLinks, GraphFacts DEF MaxLinksFacts
  <2>11. Len(back) <= MaxLinks(level)
    <3> HIDE DEF others
    <3> QED BY <1>3, <2>5, <2>7, <2>9, <2>10
  <2>12. s = back
    BY <2>1, <2>11 DEF Trims
  <2>13. node \in LinksOf(H, c, level)
    <3>1. node = s[Len(old) + 1] /\ Len(old) + 1 \in 1..Len(s)
      BY <2>5, <2>12
    <3> QED BY <3>1 DEF LinksOf, ListAt, s
  <2>14. ASSUME NEW i \in 1..Len(old)
         PROVE  old[i] \in LinksOf(H, c, level)
    <3>1. old[i] = s[i] /\ i \in 1..Len(s)
      BY <2>5, <2>12
    <3> QED BY <3>1 DEF LinksOf, ListAt, s
  <2>15. LinksOf(G, c, level) = {old[i] : i \in 1..Len(old)}
    BY DEF LinksOf, ListAt, old
  <2>16. LinksOf(G, c, level) \subseteq LinksOf(H, c, level)
    BY <2>14, <2>15
  <2> QED BY <2>13, <2>16 DEF c
<1>4. ASSUME Len(G.nodes) <= MaxLinks(level) + 1, NEW n \in Holders(G, level)
      PROVE  LinksOf(G, n, level) \subseteq LinksOf(H, n, level)
  <2>1. CASE \E j \in 1..k : n = chosen[j]
    BY <1>3, <1>4, <2>1
  <2>2. CASE n = node
    BY <2>2 DEF LinksOf, ListAt
  <2>3. CASE n # node /\ \A j \in 1..k : n # chosen[j]
    <3>1. n \in 1..Len(G.nodes) /\ level \in 0..G.nodes[n].level
      BY <1>1, GraphFacts DEF Holders
    <3>2. ListAt(H, n, level) = ListAt(G, n, level)
      BY <2>3, <3>1 DEF IsLinked
    <3> QED BY <3>2 DEF LinksOf, ListAt
  <2> QED BY <2>1, <2>2, <2>3
<1> QED BY <1>1, <1>2, <1>3, <1>4
-----------------------------------------------------------------------------
(* A row is inserted. *)

Added(G, id, at, level) == [G EXCEPT !.nodes = Append(@, Row(id, at, level))]

IsNewRow(row, id, at, level) ==
    /\ row \in RowSet /\ row.id = id /\ row.at = at /\ row.level = level /\ row.dead = FALSE
    /\ DOMAIN row.links = 0..level /\ \A l \in 0..level : row.links[l] = <<>>

\* A row without links is a row.
LEMMA RowIsARow ==
    ASSUME NEW id \in Ids, NEW at \in PlacesOf[id], NEW level \in Levels
    PROVE  IsNewRow(Row(id, at, level), id, at, level) /\ level \in Nat /\ at \in Nat
<1>1. level \in Nat /\ at \in Nat
  BY HnswAssumption
<1> DEFINE lists == [l \in 0..level |-> <<>>]
<1>2. lists \in [0..level -> Seq(Nat)]
  OBVIOUS
<1>3. lists \in LinkLists
  <2> HIDE DEF lists
  <2> QED BY <1>1, <1>2 DEF LinkLists
<1>4. DOMAIN lists = 0..level /\ \A l \in 0..level : lists[l] = <<>>
  OBVIOUS
<1>5. Row(id, at, level) =
        [id |-> id, at |-> at, level |-> level, dead |-> FALSE, links |-> lists]
  BY DEF Row
<1> HIDE DEF lists
<1> QED BY <1>1, <1>3, <1>4, <1>5 DEF RowSet, IsNewRow

\* A row without links is added.
LEMMA AddedFacts ==
    ASSUME NEW G, IsNetwork(G), NEW id \in Ids, NEW at \in PlacesOf[id], NEW level \in Levels
    PROVE  LET A == Added(G, id, at, level) IN
           /\ IsNetwork(A) /\ Len(A.nodes) = Len(G.nodes) + 1
           /\ A.entry = G.entry /\ A.top = G.top
           /\ \A n \in 1..Len(G.nodes) : A.nodes[n] = G.nodes[n]
           /\ A.nodes[Len(G.nodes) + 1] = Row(id, at, level)
<1> DEFINE A == Added(G, id, at, level)
<1> DEFINE row == Row(id, at, level)
<1> DEFINE node == Len(G.nodes) + 1
<1>1. /\ IsGraph(G) /\ Len(G.nodes) \in Nat /\ G.nodes \in Seq(RowSet) /\ G.entry \in Nat
      /\ G.top \in Int
      /\ G = [nodes |-> G.nodes, entry |-> G.entry, top |-> G.top]
  BY GraphFacts DEF IsNetwork
<1>2. /\ row \in RowSet /\ level \in Nat /\ row.id = id /\ row.at = at /\ row.level = level
      /\ DOMAIN row.links = 0..level /\ \A l \in 0..level : row.links[l] = <<>>
  <2>1. IsNewRow(Row(id, at, level), id, at, level) /\ level \in Nat
    BY RowIsARow
  <2> HIDE DEF row
  <2>2. IsNewRow(row, id, at, level)
    BY <2>1 DEF row
  <2> QED BY <2>1, <2>2 DEF IsNewRow
<1> HIDE DEF row
<1>3. A = [nodes |-> Append(G.nodes, row), entry |-> G.entry, top |-> G.top]
  <2>1. G \in Graphs
    BY <1>1 DEF IsGraph
  <2> QED BY <2>1 DEF Added, row, Graphs
<1> HIDE DEF A
<1>4. /\ A.nodes \in Seq(RowSet) /\ Len(A.nodes) = node /\ A.nodes[node] = row
      /\ \A n \in 1..Len(G.nodes) : A.nodes[n] = G.nodes[n]
      /\ A.entry = G.entry /\ A.top = G.top
  BY <1>1, <1>2, <1>3
<1>5. \A n \in 1..Len(A.nodes) : n \in 1..Len(G.nodes) \/ n = node
  BY <1>1, <1>4
<1> HIDE DEF node
<1>6. IsGraph(A)
  <2>1. A \in Graphs
    BY <1>1, <1>3, <1>4 DEF Graphs
  <2>2. ASSUME NEW n \in 1..Len(A.nodes)
        PROVE  /\ DOMAIN A.nodes[n].links = 0..A.nodes[n].level
               /\ A.nodes[n].at \in PlacesOf[A.nodes[n].id]
    <3>1. CASE n \in 1..Len(G.nodes)
      BY <1>1, <1>4, <3>1 DEF IsGraph
    <3>2. CASE n = node
      BY <1>2, <1>4, <3>2
    <3> QED BY <1>5, <3>1, <3>2
  <2> QED BY <2>1, <2>2 DEF IsGraph
<1>7. \A l : Holders(G, l) \subseteq Holders(A, l)
  BY <1>1, <1>4 DEF Holders, node
<1>8. ASSUME NEW n \in 1..Len(A.nodes), NEW l \in 0..A.nodes[n].level
      PROVE  IsWired(A, n, l)
  <2>1. CASE n \in 1..Len(G.nodes)
    <3>1. ListAt(A, n, l) = ListAt(G, n, l)
      BY <1>4, <2>1 DEF ListAt
    <3>2. IsWired(G, n, l)
      BY <1>4, <2>1 DEF IsNetwork
    <3> QED BY <1>7, <3>1, <3>2 DEF IsWired
  <2>2. CASE n = node
    <3>1. ListAt(A, n, l) = <<>> /\ l \in Nat
      BY <1>2, <1>4, <2>2 DEF ListAt
    <3>2. MaxLinks(l) \in Nat
      BY <3>1, RoomForLinks DEF MaxLinksFacts
    <3> QED BY <3>1, <3>2 DEF IsWired, NoTwins
  <2> QED BY <1>5, <2>1, <2>2
<1> QED BY <1>4, <1>6, <1>8 DEF IsNetwork, A, node, row

Crowned(G, e, t) == [G EXCEPT !.entry = e, !.top = t]

\* The entry point says nothing of the links.
LEMMA CrownedFacts ==
    ASSUME NEW G, IsNetwork(G), NEW e \in Nat, NEW t \in Int
    PROVE  /\ IsNetwork(Crowned(G, e, t)) /\ Crowned(G, e, t).nodes = G.nodes
           /\ Crowned(G, e, t).entry = e /\ Crowned(G, e, t).top = t
<1> USE DEF Crowned
<1> DEFINE H == Crowned(G, e, t)
<1>1. IsGraph(G) /\ G.nodes \in Seq(RowSet)
      /\ G = [nodes |-> G.nodes, entry |-> G.entry, top |-> G.top]
  BY GraphFacts DEF IsNetwork
<1>2. H = [nodes |-> G.nodes, entry |-> e, top |-> t]
  <2> DEFINE raised == [G EXCEPT !.entry = e]
  <2>1. PICK a, b, c : G = [nodes |-> a, entry |-> b, top |-> c]
    BY <1>1
  <2>2. raised = [nodes |-> a, entry |-> e, top |-> c] /\ a = G.nodes
    BY <2>1
  <2>3. H = [raised EXCEPT !.top = t]
    OBVIOUS
  <2> HIDE DEF raised, H
  <2> QED BY <2>2, <2>3
<1> HIDE DEF H
<1>3. H.nodes = G.nodes /\ H.entry = e /\ H.top = t /\ H \in Graphs
  BY <1>1, <1>2 DEF Graphs
<1>4. IsGraph(H)
  BY <1>1, <1>3 DEF IsGraph
<1>5. IsNetwork(H)
  BY <1>3, <1>4 DEF IsNetwork, IsWired, Holders, ListAt
<1> QED BY <1>3, <1>5 DEF H

\* After a node was inserted: the node and one of the others know each other, and
\* the others what they knew, while there is room for all in the bottom layer.
IsAttached(G, H) ==
    \E c \in 1..Len(G.nodes) :
        /\ c \in LinksOf(H, Len(G.nodes) + 1, 0)
        /\ Len(G.nodes) + 1 <= MaxLinks(0) + 1 =>
              /\ Len(G.nodes) + 1 \in LinksOf(H, c, 0)
              /\ \A n \in 1..Len(G.nodes) : LinksOf(G, n, 0) \subseteq LinksOf(H, n, 0)

\* On its way down through G, before layer l: A is G with the row that is inserted.
IsDescent(G, A, w, l) ==
    /\ IsNetwork(w.graph) /\ SameRows(A, w.graph)
    /\ w.from \in 1..Len(G.nodes) /\ l <= G.nodes[w.from].level
    /\ \A n \in 1..Len(A.nodes) : \A k \in 0..A.nodes[n].level :
          k <= l => ListAt(w.graph, n, k) = ListAt(A, n, k)
    /\ l = -1 => IsAttached(G, w.graph)

\* One layer down.
LEMMA DescendFacts ==
    ASSUME NEW G, IsNetwork(G), NEW id \in Ids, NEW at \in PlacesOf[id], NEW level \in Levels,
           NEW l \in Nat, NEW w, IsDescent(G, Added(G, id, at, level), w, l)
    PROVE  IsDescent(G, Added(G, id, at, level), Descend(w, Len(G.nodes) + 1, level, l), l - 1)
<1> DEFINE A == Added(G, id, at, level)
<1> DEFINE node == Len(G.nodes) + 1
<1> DEFINE H == w.graph
<1> DEFINE q == H.nodes[node].at
<1> DEFINE ef == IF l > level THEN 1 ELSE EfConstruction
<1> DEFINE found == SearchLayer(H, q, w.from, ef, l)
<1> DEFINE v == Descend(w, node, level, l)
<1> DEFINE N == Holders(G, l)
<1>1. /\ IsNetwork(A) /\ Len(A.nodes) = node
      /\ \A n \in 1..Len(G.nodes) : A.nodes[n] = G.nodes[n]
      /\ A.nodes[node] = Row(id, at, level)
  BY AddedFacts
<1>2. v = [graph |-> IF l > level THEN H ELSE Connect(H, node, found, l), from |-> Head(found)]
  BY DEF Descend
<1>3. /\ Row(id, at, level).at = at /\ Row(id, at, level).level = level
      /\ \A k \in 0..level : Row(id, at, level).links[k] = <<>>
      /\ level \in Nat /\ at \in Nat
  <2> DEFINE row == Row(id, at, level)
  <2>1. IsNewRow(row, id, at, level) /\ level \in Nat /\ at \in Nat
    BY RowIsARow
  <2> HIDE DEF row
  <2>2. row.at = at /\ row.level = level /\ \A k \in 0..level : row.links[k] = <<>>
    BY <2>1 DEF IsNewRow
  <2> QED BY <2>1, <2>2 DEF row
<1>4. IsGraph(G) /\ Len(G.nodes) \in Nat /\ \A n \in 1..Len(G.nodes) : G.nodes[n].level \in Nat
  BY GraphFacts DEF IsNetwork
<1> HIDE DEF A, found, v, H
<1>5. /\ IsNetwork(H) /\ IsGraph(H) /\ SameRows(A, H) /\ w.from \in N
      /\ \A n \in 1..Len(A.nodes) : \A k \in 0..A.nodes[n].level :
            k <= l => ListAt(H, n, k) = ListAt(A, n, k)
  BY DEF IsDescent, A, H, Holders, IsNetwork
<1>6. /\ Len(H.nodes) = node /\ node \in 1..Len(H.nodes)
      /\ \A n \in 1..Len(G.nodes) : n \in 1..Len(H.nodes) /\ n # node
                                    /\ H.nodes[n].level = G.nodes[n].level
      /\ q = at /\ H.nodes[node].level = level
  BY <1>1, <1>3, <1>4, <1>5 DEF SameRows
<1> HIDE DEF q
<1>7. \A n \in N : n \in 1..Len(G.nodes) /\ l \in 0..G.nodes[n].level /\ l <= H.nodes[n].level
  BY <1>4, <1>6 DEF Holders
<1>8. \A n \in N : ListAt(H, n, l) = ListAt(G, n, l)
  <2> TAKE n \in N
  <2>1. n \in 1..Len(A.nodes) /\ l \in 0..A.nodes[n].level
    BY <1>1, <1>4, <1>7
  <2>2. ListAt(H, n, l) = ListAt(A, n, l)
    BY <1>5, <2>1
  <2> QED BY <1>1, <1>7, <2>2 DEF ListAt
<1>9. \A n \in N : \A i \in 1..Len(ListAt(H, n, l)) : ListAt(H, n, l)[i] \in N
  BY <1>8, HoldersAreALayer DEF IsWired
<1>10. IsLayer(H, N, l)
  BY <1>5, <1>6, <1>7, <1>9 DEF IsLayer, ListAt
<1>11. ef \in Nat \ {0}
  BY HnswAssumption
<1> HIDE DEF ef, N
<1>12. found \in Seq(N) /\ Len(found) \in Nat \ {0} /\ NoTwins(found) /\ Head(found) \in N
  BY <1>3, <1>5, <1>6, <1>10, <1>11, FoundFacts DEF found
<1>13. v.from \in 1..Len(G.nodes) /\ l - 1 <= G.nodes[v.from].level
  BY <1>2, <1>4, <1>7, <1>12
<1>14. CASE l > level
  <2>1. v.graph = H /\ l - 1 # -1
    BY <1>2, <1>3, <1>14
  <2>2. \A n \in 1..Len(A.nodes) : \A k \in 0..A.nodes[n].level :
            k <= l - 1 => ListAt(v.graph, n, k) = ListAt(A, n, k)
    <3> TAKE n \in 1..Len(A.nodes)
    <3> TAKE k \in 0..A.nodes[n].level
    <3> HAVE k <= l - 1
    <3>1. k \in Int /\ k <= l
      OBVIOUS
    <3> QED BY <1>5, <2>1, <3>1
  <2>3. IsDescent(G, A, v, l - 1)
    BY <1>5, <1>13, <2>1, <2>2 DEF IsDescent
  <2> QED BY <2>3 DEF A, v
<1>15. CASE ~(l > level)
  <2> DEFINE J == v.graph
  <2> DEFINE chosen == Select(H, q, found, MaxLinks(l))
  <2>1. J = Linked(H, node, chosen, l)
    BY <1>2, <1>15, Zenon DEF Connect, Linked, q
  <2> HIDE DEF J
  <2>2. MaxLinks(l) \in Nat \ {0}
    BY RoomForLinks DEF MaxLinksFacts
  <2>3. chosen \in Seq(N) /\ NoTwins(chosen) /\ Len(chosen) # 0 /\ Len(chosen) <= MaxLinks(l)
    BY <1>12, <2>2, SelectFacts
  <2> HIDE DEF chosen
  <2>4. l <= H.nodes[node].level /\ l <= level /\ l \in 0..level
    BY <1>3, <1>6, <1>15
  <2>5. /\ N \in SUBSET Holders(H, l) /\ N \in SUBSET (1..Len(H.nodes)) /\ node \notin N
        /\ \A n \in N : \A i \in 1..Len(ListAt(H, n, l)) : ListAt(H, n, l)[i] # node
    BY <1>6, <1>7, <1>9 DEF Holders
  <2>6. ListAt(H, node, l) = <<>>
    <3>1. node \in 1..Len(A.nodes) /\ l \in 0..A.nodes[node].level
      BY <1>1, <1>3, <1>6, <2>4
    <3>2. ListAt(H, node, l) = ListAt(A, node, l)
      BY <1>5, <3>1
    <3> QED BY <1>1, <1>3, <2>4, <3>2 DEF ListAt
  <2>7. IsLinked(H, J, node, chosen, Len(chosen), l)
    <3>1. IsBounded(H, l)
      BY <1>5, HoldersAreALayer
    <3> QED BY <1>5, <1>6, <1>7, <2>1, <2>3, <2>4, <2>5, <2>6, <3>1, LinkedFacts
  <2> HIDE DEF node
  <2>8. IsNetwork(J) /\ IsJoin(H, J, node, N, chosen, l)
    <3>1. IsJoin(H, J, node, N, chosen, l)
      BY <1>5, <1>6, <2>3, <2>4, <2>5, <2>6, <2>7 DEF IsJoin
    <3> QED BY <3>1, LinkedIsANetwork
  <2>9. SameRows(A, J)
    BY <1>5, <2>7, SameRowsFacts DEF IsLinked
  <2>10. ASSUME NEW n \in 1..Len(A.nodes), NEW k \in 0..A.nodes[n].level, k <= l - 1
         PROVE  ListAt(J, n, k) = ListAt(A, n, k)
    <3>1. k # l /\ k <= l
      BY <2>10
    <3>2. n \in 1..Len(H.nodes) /\ k \in 0..H.nodes[n].level
      BY <1>5 DEF SameRows
    <3>3. ListAt(J, n, k) = ListAt(H, n, k)
      BY <2>7, <3>1, <3>2 DEF IsLinked
    <3> QED BY <1>5, <3>1, <3>3
  <2>11. ASSUME l - 1 = -1
         PROVE  IsAttached(G, J)
    <3>1. l = 0
      BY <2>11
    <3>2. /\ chosen[1] \in N /\ chosen[1] \in LinksOf(J, node, 0)
          /\ Len(H.nodes) <= MaxLinks(0) + 1 =>
                /\ node \in LinksOf(J, chosen[1], 0)
                /\ \A n \in Holders(H, 0) : LinksOf(H, n, 0) \subseteq LinksOf(J, n, 0)
      <4>1. /\ chosen[1] \in N /\ chosen[1] \in LinksOf(J, node, l)
            /\ Len(H.nodes) <= MaxLinks(l) + 1 =>
                  /\ node \in LinksOf(J, chosen[1], l)
                  /\ \A n \in Holders(H, l) : LinksOf(H, n, l) \subseteq LinksOf(J, n, l)
        BY <2>8, NothingIsPruned
      <4> QED BY <3>1, <4>1
    <3>3. \A n \in 1..Len(G.nodes) : n \in N /\ n \in Holders(H, 0)
      BY <1>4, <1>6, <3>1 DEF Holders, N
    <3>4. \A n \in 1..Len(G.nodes) : LinksOf(H, n, 0) = LinksOf(G, n, 0)
      BY <1>8, <3>1, <3>3 DEF LinksOf, ListAt
    <3>5. chosen[1] \in 1..Len(G.nodes)
      BY <1>7, <3>2
    <3> QED BY <1>6, <3>2, <3>3, <3>4, <3>5 DEF IsAttached, node
  <2>12. IsDescent(G, A, v, l - 1)
    BY <1>13, <2>8, <2>9, <2>10, <2>11 DEF IsDescent, J
  <2> QED BY <2>12 DEF A, v, node
<1> QED BY <1>14, <1>15
\* The entry point is a node that has the top layer, if there is one.
IsAnchored(G) ==
    IF Len(G.nodes) = 0 THEN G.entry = NoNode /\ G.top = -1
    ELSE /\ G.entry \in 1..Len(G.nodes) /\ G.nodes[G.entry].level = G.top
         /\ \A n \in 1..Len(G.nodes) : G.nodes[n].level <= G.top

\* In the bottom layer, all nodes can be reached from each.
IsConnected(G) ==
    \A S \in SUBSET (1..Len(G.nodes)) : S # {} /\ Closed(G, S, 0) => S = 1..Len(G.nodes)

IsGood(G) ==
    /\ IsNetwork(G) /\ IsAnchored(G)
    /\ Len(G.nodes) <= MaxLinks(0) + 1 => IsConnected(G)

\* H has the rows of G, whatever their links, and one that is new.
IsExtended(G, H, id, at) ==
    /\ Len(H.nodes) = Len(G.nodes) + 1
    /\ \A n \in 1..Len(G.nodes) :
          /\ H.nodes[n].id = G.nodes[n].id /\ H.nodes[n].at = G.nodes[n].at
          /\ H.nodes[n].dead = G.nodes[n].dead
    /\ H.nodes[Len(G.nodes) + 1].id = id /\ H.nodes[Len(G.nodes) + 1].at = at
    /\ H.nodes[Len(G.nodes) + 1].dead = FALSE

\* The whole way down.
LEMMA DescentFacts ==
    ASSUME NEW G, IsNetwork(G), IsAnchored(G), Len(G.nodes) # 0,
           NEW id \in Ids, NEW at \in PlacesOf[id], NEW level \in Levels
    PROVE  LET A == Added(G, id, at, level)
               w == Loop(LAMBDA v, i : Descend(v, Len(G.nodes) + 1, level, G.top + 1 - i),
                         [graph |-> A, from |-> G.entry], G.top + 1) IN
           IsDescent(G, A, w, -1)
<1> DEFINE A == Added(G, id, at, level)
<1> DEFINE node == Len(G.nodes) + 1
<1> DEFINE n == G.top + 1
<1> DEFINE Turn(v, i) == Descend(v, node, level, G.top + 1 - i)
<1> DEFINE b == [graph |-> A, from |-> G.entry]
<1> DEFINE V == [graph : Graphs, from : Nat]
<1> DEFINE Stage(i) == {v \in V : IsDescent(G, A, v, G.top - i)}
<1> DEFINE F == [i \in 1..n |-> [v \in V |-> IF v \in Stage(i - 1) THEN Turn(v, i) ELSE v]]
<1>1. /\ Len(G.nodes) \in Nat /\ G.entry \in 1..Len(G.nodes) /\ G.top \in Nat /\ n \in Nat
      /\ G.nodes[G.entry].level = G.top
  <2>1. IsGraph(G) /\ G.entry \in 1..Len(G.nodes) /\ G.nodes[G.entry].level = G.top
    BY DEF IsNetwork, IsAnchored
  <2> QED BY <2>1, GraphFacts
<1>2. /\ IsNetwork(A) /\ Len(A.nodes) = node /\ A \in Graphs
      /\ \A m \in 1..Len(G.nodes) : A.nodes[m] = G.nodes[m]
  <2>1. /\ IsNetwork(A) /\ Len(A.nodes) = node
        /\ \A m \in 1..Len(G.nodes) : A.nodes[m] = G.nodes[m]
    BY AddedFacts
  <2> HIDE DEF A
  <2> QED BY <2>1 DEF IsNetwork, IsGraph
<1> HIDE DEF A
<1>3. b \in Stage(0)
  <2>1. b \in V
    BY <1>1, <1>2
  <2>2. b.graph = A /\ b.from = G.entry /\ G.top - 0 = G.top
    BY <1>1
  <2> HIDE DEF b
  <2>3. IsDescent(G, A, b, G.top)
    BY <1>1, <1>2, <2>2 DEF IsDescent, SameRows
  <2> QED BY <2>1, <2>2, <2>3
<1>4. ASSUME NEW i \in 1..n, NEW v \in Stage(i - 1)
      PROVE  Turn(v, i) \in Stage(i)
  <2>1. G.top - (i - 1) = G.top + 1 - i /\ G.top + 1 - i \in Nat
        /\ (G.top + 1 - i) - 1 = G.top - i
    BY <1>1
  <2>2. IsDescent(G, A, v, G.top + 1 - i)
    BY <2>1
  <2>3. IsDescent(G, A, Turn(v, i), G.top - i)
    <3> DEFINE l == G.top + 1 - i
    <3> HIDE DEF V, l
    <3>1. l \in Nat /\ IsDescent(G, Added(G, id, at, level), v, l)
      BY <2>1, <2>2 DEF l, A
    <3>2. IsDescent(G, Added(G, id, at, level), Descend(v, Len(G.nodes) + 1, level, l), l - 1)
      BY <3>1, DescendFacts
    <3> QED BY <2>1, <3>2 DEF A, l
  <2> DEFINE w == Turn(v, i)
  <2>4. w.graph \in Graphs /\ w.from \in Nat
    <3> HIDE DEF w, V, b, n
    <3>1. IsDescent(G, A, w, G.top - i)
      BY <2>3 DEF w
    <3> HIDE DEF Turn
    <3>2. IsNetwork(w.graph) /\ w.from \in 1..Len(G.nodes)
      BY <3>1 DEF IsDescent
    <3>3. w.graph \in Graphs
      BY <3>2 DEF IsNetwork, IsGraph
    <3> QED BY <1>1, <3>2, <3>3
  <2>5. w = [graph |-> w.graph, from |-> w.from]
    BY DEF Descend
  <2> HIDE DEF w
  <2>6. w \in V
    BY <2>4, <2>5
  <2> HIDE DEF V
  <2> QED BY <2>3, <2>6 DEF w
<1>5. F \in [1..n -> [V -> V]] /\ b \in V
  <2>1. \A i \in 1..n : \A v \in V : v \in Stage(i - 1) => Turn(v, i) \in V
    <3> HIDE DEF V, n, Turn
    <3> QED BY <1>4
  <2>2. b \in V
    BY <1>3
  <2> HIDE DEF V, n, Turn, Stage, b
  <2> QED BY <2>1, <2>2
<1>6. PICK h \in [0..n -> V] : IsRun(h, n, b, F)
  <2> HIDE DEF V, n, F, b
  <2> QED BY <1>1, <1>5, LoopExists
<1> DEFINE after == CHOOSE g : g = [i \in 0..n |-> IF i = 0 THEN b ELSE Turn(g[i - 1], i)]
<1> DEFINE o == Loop(LAMBDA v, i : Descend(v, Len(G.nodes) + 1, level, G.top + 1 - i), b, n)
<1>7. o = after[n]
  BY Zenon DEF Loop
<1> HIDE DEF Turn, Stage, V, b, n, o
<1>8. \A i \in 0..n : h[i] \in Stage(i)
  <2> DEFINE T == {i \in 0..n : h[i] \in Stage(i)}
  <2>1. 0 \in T
    BY <1>1, <1>3, <1>6 DEF IsRun
  <2>2. ASSUME NEW i \in 1..n, i - 1 \in T
        PROVE  i \in T
    <3>1. h[i - 1] \in Stage(i - 1) /\ h[i - 1] \in V /\ h[i] = F[i][h[i - 1]]
      BY <1>1, <1>6, <2>2 DEF IsRun
    <3>2. h[i] = Turn(h[i - 1], i)
      BY <3>1
    <3> HIDE DEF F
    <3> QED BY <1>1, <1>4, <3>1, <3>2
  <2> HIDE DEF T
  <2>3. \A i \in 0..n : i \in T
    BY <1>1, <2>1, <2>2, Turns
  <2> QED BY <2>3 DEF T
<1>9. h = [i \in 0..n |-> IF i = 0 THEN b ELSE Turn(h[i - 1], i)]
  <2>1. \A i \in 1..n : i - 1 \in 0..n /\ F[i][h[i - 1]] = Turn(h[i - 1], i)
    BY <1>1, <1>8
  <2> HIDE DEF F
  <2> QED BY <1>1, <1>6, <2>1 DEF IsRun
<1>10. after = [i \in 0..n |-> IF i = 0 THEN b ELSE Turn(after[i - 1], i)]
  BY <1>9
<1> HIDE DEF after, F
<1>11. after[0] = b /\ \A i \in 1..n : after[i] = Turn(after[i - 1], i)
  BY <1>1, <1>10
<1>12. after[n] \in Stage(n)
  <2> DEFINE T == {i \in 0..n : after[i] \in Stage(i)}
  <2>1. 0 \in T
    BY <1>1, <1>3, <1>11
  <2>2. \A i \in 1..n : i - 1 \in T => i \in T
    BY <1>1, <1>4, <1>11
  <2> HIDE DEF T
  <2>3. \A i \in 0..n : i \in T
    BY <1>1, <2>1, <2>2, Turns
  <2> QED BY <1>1, <2>3 DEF T
<1>13. IsDescent(G, A, o, -1)
  <2>1. G.top - n = -1
    BY <1>1 DEF n
  <2> QED BY <1>7, <1>12, <2>1 DEF Stage
<1> QED BY <1>13, Zenon DEF o, A, b, n

\* Who is attached to a connected graph is part of it.
LEMMA AttachedIsConnected ==
    ASSUME NEW G, IsNetwork(G), IsConnected(G), NEW H, IsNetwork(H),
           Len(H.nodes) = Len(G.nodes) + 1, Len(H.nodes) <= MaxLinks(0) + 1, IsAttached(G, H)
    PROVE  IsConnected(H)
<1> DEFINE node == Len(G.nodes) + 1
<1> DEFINE all == 1..Len(G.nodes)
<1>1. Len(G.nodes) \in Nat /\ \A n \in 1..node : n \in all \/ n = node
  <2>1. Len(G.nodes) \in Nat
    BY GraphFacts DEF IsNetwork
  <2> QED BY <2>1
<1>2. PICK c \in all :
          /\ c \in LinksOf(H, node, 0) /\ node \in LinksOf(H, c, 0)
          /\ \A n \in all : LinksOf(G, n, 0) \subseteq LinksOf(H, n, 0)
  BY DEF IsAttached
<1>3. \A n \in all : LinksOf(G, n, 0) \subseteq all
  <2> TAKE n \in all
  <2>1. n \in Holders(G, 0)
    BY GraphFacts DEF IsNetwork, Holders
  <2>2. IsWired(G, n, 0)
    BY <2>1, HoldersAreALayer
  <2> QED BY <2>2 DEF IsWired, Holders, LinksOf, ListAt
<1>4. ASSUME NEW S \in SUBSET (1..Len(H.nodes)), S # {}, Closed(H, S, 0)
      PROVE  S = 1..Len(H.nodes)
  <2>1. S \in SUBSET (1..node) /\ 1..Len(H.nodes) = 1..node
    BY <1>4
  <2> HIDE DEF node
  <2>2. \A n \in S : LinksOf(H, n, 0) \subseteq S
    BY <1>4 DEF Closed
  <2>3. Closed(G, S \intersect all, 0)
    BY <1>2, <1>3, <2>2 DEF Closed
  <2>4. c \in S
    <3>1. CASE node \in S
      BY <1>2, <2>2, <3>1
    <3>2. CASE node \notin S
      <4>1. S \intersect all # {} /\ S \intersect all \in SUBSET all
        BY <1>1, <1>4, <2>1, <3>2
      <4>2. S \intersect all = all
        BY <2>3, <4>1 DEF IsConnected
      <4> QED BY <4>2
    <3> QED BY <3>1, <3>2
  <2>5. S \intersect all = all
    <3>1. S \intersect all # {} /\ S \intersect all \in SUBSET all
      BY <2>4
    <3> QED BY <2>3, <3>1 DEF IsConnected
  <2>6. node \in S
    BY <1>2, <2>2, <2>4
  <2> QED BY <1>1, <2>1, <2>5, <2>6
<1> QED BY <1>4 DEF IsConnected

\* Inserting a row leaves a good graph, with its rows and the new one.
LEMMA InsertFacts ==
    ASSUME NEW G, IsGood(G), NEW id \in Ids, NEW at \in PlacesOf[id], NEW level \in Levels
    PROVE  IsGood(Insert(G, id, at, level)) /\ IsExtended(G, Insert(G, id, at, level), id, at)
<1> DEFINE A == Added(G, id, at, level)
<1> DEFINE node == Len(G.nodes) + 1
<1> DEFINE row == Row(id, at, level)
<1> DEFINE J == Insert(G, id, at, level)
<1>1. IsNetwork(G) /\ IsGraph(G) /\ IsAnchored(G) /\ Len(G.nodes) \in Nat
      /\ G.top \in Int /\ \A n \in 1..Len(G.nodes) : G.nodes[n].level \in Nat
  BY GraphFacts DEF IsGood, IsNetwork
<1>2. /\ IsNetwork(A) /\ Len(A.nodes) = node /\ A.entry = G.entry /\ A.top = G.top
      /\ A.nodes[node] = row
      /\ \A n \in 1..Len(G.nodes) : A.nodes[n] = G.nodes[n]
  BY <1>1, AddedFacts
<1>3. /\ row.id = id /\ row.at = at /\ row.level = level /\ row.dead = FALSE /\ level \in Nat
      /\ LinksOf(A, node, 0) = {} /\ node \in 1..node
  <2>1. IsNewRow(row, id, at, level) /\ level \in Nat
    BY RowIsARow
  <2> HIDE DEF row, A
  <2>2. /\ row.id = id /\ row.at = at /\ row.level = level /\ row.dead = FALSE
        /\ row.links[0] = <<>>
    BY <2>1 DEF IsNewRow
  <2> QED BY <1>1, <1>2, <2>1, <2>2 DEF LinksOf
<1> HIDE DEF A, row, J
<1>4. ASSUME NEW H, SameRows(A, H), NEW K, K.nodes = H.nodes
      PROVE  IsExtended(G, K, id, at)
  <2>1. /\ Len(K.nodes) = node
        /\ \A n \in 1..node : /\ K.nodes[n].id = A.nodes[n].id
                              /\ K.nodes[n].at = A.nodes[n].at
                              /\ K.nodes[n].dead = A.nodes[n].dead
    BY <1>2, <1>4 DEF SameRows
  <2>2. \A n \in 1..Len(G.nodes) : n \in 1..node
    BY <1>1
  <2>3. \A n \in 1..Len(G.nodes) : /\ K.nodes[n].id = G.nodes[n].id
                                   /\ K.nodes[n].at = G.nodes[n].at
                                   /\ K.nodes[n].dead = G.nodes[n].dead
    BY <1>2, <2>1, <2>2
  <2>4. K.nodes[node].id = id /\ K.nodes[node].at = at /\ K.nodes[node].dead = FALSE
    BY <1>2, <1>3, <2>1
  <2> QED BY <2>1, <2>3, <2>4 DEF IsExtended
<1>5. CASE Len(G.nodes) = 0
  <2>1. G.entry = NoNode /\ node = 1
    BY <1>1, <1>5 DEF IsAnchored
  <2>2. J = Crowned(A, node, level)
    BY <2>1, Zenon DEF J, A, Added, Insert, Crowned
  <2>3. SameRows(A, A)
    BY DEF SameRows
  <2>4. /\ IsNetwork(J) /\ IsExtended(G, J, id, at) /\ J.nodes = A.nodes
        /\ J.entry = node /\ J.top = level
    <3>1. node \in Nat /\ level \in Int
      BY <1>1, <1>3
    <3>2. IsNetwork(J) /\ J.nodes = A.nodes /\ J.entry = node /\ J.top = level
      <4> HIDE DEF node
      <4> QED BY <1>2, <2>2, <3>1, CrownedFacts
    <3>3. IsExtended(G, J, id, at)
      BY <1>4, <2>3, <3>2
    <3> QED BY <3>2, <3>3
  <2>5. IsAnchored(J)
    BY <1>1, <1>2, <1>3, <1>5, <2>4 DEF IsAnchored
  <2>6. IsConnected(J)
    <3>1. Len(J.nodes) = 1
      BY <1>2, <2>1, <2>4
    <3>2. \A S \in SUBSET (1..1) : S # {} => S = 1..1
      <4>1. 1..1 = {1}
        OBVIOUS
      <4> QED BY <4>1
    <3> QED BY <3>1, <3>2 DEF IsConnected
  <2> QED BY <2>4, <2>5, <2>6 DEF IsGood, J
<1>6. CASE Len(G.nodes) # 0
  <2> DEFINE w == Loop(LAMBDA v, i : Descend(v, Len(G.nodes) + 1, level, G.top + 1 - i),
                       [graph |-> A, from |-> G.entry], G.top + 1)
  <2> DEFINE H == w.graph
  <2>1. IsDescent(G, A, w, -1)
    BY <1>1, <1>6, DescentFacts, Zenon DEF A
  <2>2. G.entry # NoNode /\ G.entry \in 1..Len(G.nodes) /\ G.nodes[G.entry].level = G.top
        /\ \A n \in 1..Len(G.nodes) : G.nodes[n].level <= G.top
    BY <1>1, <1>6 DEF IsAnchored, NoNode
  <2>3. J = Raise(H, node, level)
    BY <2>2, Zenon DEF Insert, Added, A, J
  <2> HIDE DEF w
  <2>4. IsNetwork(H) /\ SameRows(A, H) /\ IsAttached(G, H)
    BY <2>1 DEF IsDescent
  <2> HIDE DEF H
  <2>5. H.entry = G.entry /\ H.top = G.top /\ Len(H.nodes) = node
        /\ H.nodes[node].level = level
        /\ \A n \in 1..Len(G.nodes) : H.nodes[n].level = G.nodes[n].level
    <3>1. H.entry = G.entry /\ H.top = G.top /\ Len(H.nodes) = node
          /\ \A n \in 1..node : H.nodes[n].level = A.nodes[n].level
      BY <1>2, <2>4 DEF SameRows
    <3>2. \A n \in 1..Len(G.nodes) : n \in 1..node
      BY <1>1
    <3>3. H.nodes[node].level = level
      BY <1>2, <1>3, <3>1
    <3>4. \A n \in 1..Len(G.nodes) : H.nodes[n].level = G.nodes[n].level
      BY <1>2, <3>1, <3>2
    <3> QED BY <3>1, <3>3, <3>4
  <2>6. /\ J = IF level > G.top THEN Crowned(H, node, level) ELSE H
        /\ IsNetwork(Crowned(H, node, level)) /\ Crowned(H, node, level).nodes = H.nodes
        /\ Crowned(H, node, level).entry = node /\ Crowned(H, node, level).top = level
    <3>1. J = IF level > G.top THEN Crowned(H, node, level) ELSE H
      BY <2>3, <2>5, Zenon DEF Raise, Crowned
    <3>2. node \in Nat /\ level \in Int
      BY <1>1, <1>3
    <3> HIDE DEF node
    <3> QED BY <2>4, <3>1, <3>2, CrownedFacts
  <2>7. /\ IsNetwork(J) /\ IsExtended(G, J, id, at) /\ J.nodes = H.nodes
    <3>1. IsNetwork(J) /\ J.nodes = H.nodes
      BY <2>4, <2>6
    <3> QED BY <1>4, <2>4, <3>1
  <2>8. IsAnchored(J)
    <3>1. CASE level > G.top
      <4>1. J.entry = node /\ J.top = level
        BY <2>6, <3>1
      <4> HIDE DEF node
      <4>3. \A n \in 1..node : n \in 1..Len(G.nodes) \/ n = node
        BY <1>1 DEF node
      <4>4. \A n \in 1..node : H.nodes[n].level <= level
        BY <1>1, <1>3, <2>2, <2>5, <3>1, <4>3
      <4>5. node # 0
        BY <1>1 DEF node
      <4> QED BY <1>3, <2>5, <2>7, <4>1, <4>4, <4>5 DEF IsAnchored
    <3>2. CASE ~(level > G.top)
      <4>1. J = H
        BY <2>6, <3>2
      <4> HIDE DEF node
      <4>2. \A n \in 1..node : n \in 1..Len(G.nodes) \/ n = node
        BY <1>1 DEF node
      <4>3. \A n \in 1..node : H.nodes[n].level <= G.top
        BY <1>1, <1>3, <2>2, <2>5, <3>2, <4>2
      <4>4. node # 0 /\ G.entry \in 1..node
        BY <1>1, <2>2 DEF node
      <4> QED BY <2>2, <2>5, <4>1, <4>3, <4>4 DEF IsAnchored
    <3> QED BY <3>1, <3>2
  <2>9. ASSUME Len(J.nodes) <= MaxLinks(0) + 1
        PROVE  IsConnected(J)
    <3>1. Len(J.nodes) = Len(G.nodes) + 1
      BY <2>5, <2>7
    <3>2. MaxLinks(0) \in Nat
      BY RoomForLinks DEF MaxLinksFacts
    <3>3. Len(G.nodes) <= MaxLinks(0) + 1
      BY <1>1, <2>9, <3>1, <3>2
    <3>4. IsConnected(G)
      BY <3>3 DEF IsGood
    <3>5. IsAttached(G, J)
      <4>1. \A n, l : LinksOf(J, n, l) = LinksOf(H, n, l)
        BY <2>7 DEF LinksOf
      <4> QED BY <2>4, <4>1 DEF IsAttached
    <3> QED BY <1>1, <2>7, <2>9, <3>1, <3>4, <3>5, AttachedIsConnected
  <2> QED BY <2>7, <2>8, <2>9 DEF IsGood, J
<1> QED BY <1>5, <1>6
-----------------------------------------------------------------------------
(* A graph is built from rows. *)

\* Rows whose ids are not twice among the live ones.
IsTable(nodes) ==
    /\ nodes \in Seq(RowSet)
    /\ \A n \in 1..Len(nodes) : nodes[n].at \in PlacesOf[nodes[n].id]
    /\ \A m, n \in 1..Len(nodes) :
          ~nodes[m].dead /\ ~nodes[n].dead /\ nodes[m].id = nodes[n].id => m = n

\* A live row says that id is at a place.
Holds(nodes, id, p) ==
    \E n \in 1..Len(nodes) : ~nodes[n].dead /\ nodes[n].id = id /\ nodes[n].at = p

\* The empty graph is good.
LEMMA EmptyIsGood == Empty \in Graphs /\ IsGood(Empty)
<1>1. /\ Empty.nodes = <<>> /\ Empty.entry = 0 /\ Empty.top = -1 /\ Len(Empty.nodes) = 0
      /\ 1..Len(Empty.nodes) = {}
  BY DEF Empty, NoNode
<1>2. Empty \in Graphs
  BY DEF Empty, NoNode, Graphs
<1>3. IsGraph(Empty)
  BY <1>1, <1>2 DEF IsGraph
<1>4. IsNetwork(Empty)
  BY <1>1, <1>3 DEF IsNetwork
<1>5. IsAnchored(Empty)
  BY <1>1 DEF IsAnchored, NoNode
<1>6. IsConnected(Empty)
  BY <1>1 DEF IsConnected
<1> QED BY <1>2, <1>4, <1>5, <1>6 DEF IsGood

\* G consists of the first k rows, alive.
IsMadeOf(G, rows, k) ==
    /\ Len(G.nodes) = k
    /\ \A n \in 1..k : /\ G.nodes[n].id = rows[n].id /\ G.nodes[n].at = rows[n].at
                       /\ G.nodes[n].dead = FALSE

\* Rows that are inserted one after the other make a good graph.
LEMMA BuiltFacts ==
    ASSUME NEW rows \in Seq(RowSet), NEW levels \in [1..Len(rows) -> Levels],
           \A n \in 1..Len(rows) : rows[n].at \in PlacesOf[rows[n].id]
    PROVE  IsGood(Built(rows, levels)) /\ IsMadeOf(Built(rows, levels), rows, Len(rows))
<1> DEFINE n == Len(rows)
<1> DEFINE V == {G \in Graphs : IsGood(G)}
<1> DEFINE Turn(G, i) == Insert(G, rows[i].id, rows[i].at, levels[i])
<1> DEFINE b == Empty
<1> DEFINE F == [i \in 1..n |-> [G \in V |-> Turn(G, i)]]
<1>1. /\ n \in Nat
      /\ \A i \in 1..n : /\ rows[i].id \in Ids /\ rows[i].at \in PlacesOf[rows[i].id]
                         /\ levels[i] \in Levels
  <2>1. n \in Nat /\ \A i \in 1..n : rows[i] \in RowSet /\ levels[i] \in Levels
    OBVIOUS
  <2>2. \A i \in 1..n : rows[i].id \in Ids
    BY <2>1 DEF RowSet
  <2> QED BY <2>1, <2>2
<1> HIDE DEF n
<1>2. ASSUME NEW i \in 1..n, NEW G, IsGood(G)
      PROVE  /\ Turn(G, i) \in V
             /\ IsExtended(G, Turn(G, i), rows[i].id, rows[i].at)
  <2> DEFINE H == Turn(G, i)
  <2>1. IsGood(H) /\ IsExtended(G, H, rows[i].id, rows[i].at)
    BY <1>1, <1>2, InsertFacts
  <2> HIDE DEF H
  <2>2. H \in Graphs
    BY <2>1 DEF IsGood, IsNetwork, IsGraph
  <2> QED BY <2>1, <2>2 DEF H
<1>3. F \in [1..n -> [V -> V]] /\ b \in V
  <2>1. b \in V
    BY EmptyIsGood
  <2>2. \A i \in 1..n : \A G \in V : Turn(G, i) \in V
    BY <1>2
  <2> HIDE DEF V, Turn, b
  <2> QED BY <2>1, <2>2
<1>4. PICK h \in [0..n -> V] : IsRun(h, n, b, F)
  <2> HIDE DEF V, F, b
  <2> QED BY <1>1, <1>3, LoopExists
<1> DEFINE after == CHOOSE g : g = [i \in 0..n |-> IF i = 0 THEN b ELSE Turn(g[i - 1], i)]
<1> DEFINE o == Built(rows, levels)
<1>5. o = after[n]
  BY Zenon DEF Loop, Built, n
<1> HIDE DEF Turn, b
<1>6. h = [i \in 0..n |-> IF i = 0 THEN b ELSE Turn(h[i - 1], i)]
  <2>1. \A i \in 1..n : i - 1 \in 0..n /\ F[i][h[i - 1]] = Turn(h[i - 1], i)
    <3> HIDE DEF V
    <3> QED BY <1>1
  <2> HIDE DEF V, F
  <2> QED BY <1>1, <1>4, <2>1 DEF IsRun
<1>7. after = [i \in 0..n |-> IF i = 0 THEN b ELSE Turn(after[i - 1], i)]
  <2> QED BY <1>6
<1> HIDE DEF after, o, F
<1>8. after[0] = b /\ \A i \in 1..n : after[i] = Turn(after[i - 1], i)
  BY <1>1, <1>7
<1> DEFINE T == {i \in 0..n : IsGood(after[i]) /\ IsMadeOf(after[i], rows, i)}
<1>9. 0 \in T
  <2>1. IsMadeOf(Empty, rows, 0) /\ IsGood(Empty)
    BY EmptyIsGood DEF IsMadeOf, Empty
  <2> QED BY <1>1, <1>8, <2>1 DEF b
<1>10. ASSUME NEW i \in 1..n, i - 1 \in T
       PROVE  i \in T
  <2> DEFINE G == after[i - 1]
  <2> DEFINE H == after[i]
  <2>1. IsGood(G) /\ IsMadeOf(G, rows, i - 1)
    BY <1>10
  <2>2. H \in V /\ IsExtended(G, H, rows[i].id, rows[i].at)
    <3> HIDE DEF V
    <3> QED BY <1>2, <1>8, <2>1
  <2> HIDE DEF G, H
  <2>3. Len(H.nodes) = i /\ Len(G.nodes) = i - 1 /\ Len(G.nodes) + 1 = i
    BY <1>1, <2>1, <2>2 DEF IsMadeOf, IsExtended
  <2>4. \A m \in 1..i : m \in 1..(i - 1) \/ m = i
    BY <1>1
  <2>5. IsMadeOf(H, rows, i)
    <3>1. \A m \in 1..(i - 1) : /\ H.nodes[m].id = rows[m].id /\ H.nodes[m].at = rows[m].at
                                /\ H.nodes[m].dead = FALSE
      BY <2>1, <2>2, <2>3 DEF IsMadeOf, IsExtended
    <3>2. H.nodes[i].id = rows[i].id /\ H.nodes[i].at = rows[i].at /\ H.nodes[i].dead = FALSE
      BY <2>2, <2>3 DEF IsExtended
    <3> QED BY <2>3, <2>4, <3>1, <3>2 DEF IsMadeOf
  <2>6. IsGood(H)
    BY <2>2
  <2> QED BY <2>5, <2>6 DEF H
<1>11. n \in T
  <2> HIDE DEF T
  <2>1. \A i \in 0..n : i \in T
    BY <1>1, <1>9, <1>10, Turns
  <2> QED BY <1>1, <2>1
<1> QED BY <1>5, <1>11 DEF o, n

\* The live rows of a table, in their order, are a table that holds the same.
LEMMA LiveRowsFacts ==
    ASSUME NEW nodes, IsTable(nodes)
    PROVE  LET rows == LiveRows(nodes) IN
           /\ IsTable(rows) /\ DOMAIN rows = 1..Len(rows)
           /\ Len(rows) \in Nat /\ Len(rows) <= Len(nodes)
           /\ \A i \in 1..Len(rows) : rows[i].dead = FALSE
           /\ \A id, p : Holds(rows, id, p) <=> Holds(nodes, id, p)
<1> DEFINE all == 1..Len(nodes)
<1> DEFINE alive == {n \in DOMAIN nodes : ~nodes[n].dead}
<1> DEFINE R == {p \in alive \X alive : p[1] < p[2]}
<1> DEFINE s == Sorted(alive, R)
<1> DEFINE rows == LiveRows(nodes)
<1>1. /\ Len(nodes) \in Nat /\ DOMAIN nodes = all /\ alive \in SUBSET all
      /\ \A n \in all : nodes[n] \in RowSet
  BY DEF IsTable
<1>2. IsFiniteSet(alive) /\ Cardinality(alive) \in Nat /\ Cardinality(alive) <= Len(nodes)
  <2>1. \A k \in Nat : IsFiniteSet(1..k) /\ Cardinality(1..k) = k
    <3> TAKE k \in Nat
    <3> QED BY FS_Interval
  <2>2. IsFiniteSet(all) /\ Cardinality(all) = Len(nodes)
    BY <1>1, <2>1
  <2> HIDE DEF all, alive
  <2> QED BY <1>1, <2>2, FS_Subset, FS_CardinalityType
<1>3. IsOrder(alive, R)
  <2>1. \A x \in alive : x \in Nat
    BY <1>1
  <2> HIDE DEF alive
  <2>2. \A x, y \in alive : <<x, y>> \in R <=> x < y
    OBVIOUS
  <2> HIDE DEF R
  <2> QED BY <2>1, <2>2 DEF IsOrder
<1>4. rows = [i \in 1..Cardinality(alive) |-> nodes[s[i]]]
  BY Zenon DEF LiveRows
<1> HIDE DEF R, rows
<1>5. Lists(s, alive, R)
  <2> HIDE DEF alive
  <2> QED BY <1>2, <1>3, SortedFacts
<1> HIDE DEF s
<1>6. /\ Len(s) = Cardinality(alive) /\ Len(s) \in Nat
      /\ \A i \in 1..Len(s) : s[i] \in alive
      /\ \A n \in alive : \E i \in 1..Len(s) : s[i] = n
      /\ \A i, j \in 1..Len(s) : s[i] = s[j] => i = j
  <2> HIDE DEF alive
  <2> QED BY <1>5 DEF Lists
<1>7. \A n \in alive : n \in all /\ nodes[n] \in RowSet /\ ~nodes[n].dead
                       /\ nodes[n].dead = FALSE
  BY <1>1 DEF RowSet
<1>8. \A n \in all : ~nodes[n].dead => n \in alive
  BY <1>1
<1> HIDE DEF alive
<1>9. /\ rows \in Seq(RowSet) /\ Len(rows) = Len(s) /\ DOMAIN rows = 1..Len(rows)
      /\ \A i \in 1..Len(rows) : rows[i] = nodes[s[i]] /\ s[i] \in alive
  <2>1. rows \in [1..Len(s) -> RowSet]
    BY <1>4, <1>6, <1>7
  <2> QED BY <1>4, <1>6, <2>1
<1>10. IsTable(rows)
  <2>1. \A n \in 1..Len(rows) : rows[n].at \in PlacesOf[rows[n].id]
    BY <1>7, <1>9 DEF IsTable
  <2>2. ASSUME NEW m \in 1..Len(rows), NEW n \in 1..Len(rows), rows[m].id = rows[n].id
        PROVE  m = n
    <3>1. s[m] \in all /\ s[n] \in all /\ ~nodes[s[m]].dead /\ ~nodes[s[n]].dead
          /\ nodes[s[m]].id = nodes[s[n]].id
      BY <1>7, <1>9, <2>2
    <3>2. s[m] = s[n]
      BY <3>1 DEF IsTable
    <3> QED BY <1>6, <1>9, <3>2
  <2> QED BY <1>9, <2>1, <2>2 DEF IsTable
<1>11. \A i \in 1..Len(rows) : rows[i].dead = FALSE
  BY <1>7, <1>9
<1>12. ASSUME NEW id, NEW p
       PROVE  Holds(rows, id, p) <=> Holds(nodes, id, p)
  <2>1. ASSUME Holds(rows, id, p)
        PROVE  Holds(nodes, id, p)
    <3>1. PICK i \in 1..Len(rows) : rows[i].id = id /\ rows[i].at = p
      BY <2>1 DEF Holds
    <3> QED BY <1>7, <1>9, <3>1 DEF Holds
  <2>2. ASSUME Holds(nodes, id, p)
        PROVE  Holds(rows, id, p)
    <3>1. PICK n \in all : ~nodes[n].dead /\ nodes[n].id = id /\ nodes[n].at = p
      BY <2>2 DEF Holds
    <3>2. PICK i \in 1..Len(s) : s[i] = n
      BY <1>6, <1>8, <3>1
    <3> QED BY <1>9, <1>11, <3>1, <3>2 DEF Holds
  <2> QED BY <2>1, <2>2
<1> QED BY <1>2, <1>6, <1>9, <1>10, <1>11, <1>12 DEF rows
-----------------------------------------------------------------------------
(* The invariant. *)

Dead(nodes) == {n \in 1..Len(nodes) : nodes[n].dead}

\* The graph is good, each live row is the one under which its id is known, and
\* the tombstones are counted.
IInv ==
    /\ IsGood(graph) /\ Len(graph.nodes) <= MaxNodes
    /\ nodeOf \in [Ids -> 0..Len(graph.nodes)]
    /\ \A id \in Ids : nodeOf[id] # NoNode => graph.nodes[nodeOf[id]].id = id
    /\ \A n \in 1..Len(graph.nodes) :
          ~graph.nodes[n].dead => nodeOf[graph.nodes[n].id] = n
    /\ deletedCount = Cardinality(Dead(graph.nodes))

\* The rows of the graph are a table.
LEMMA GraphIsATable ==
    ASSUME IInv
    PROVE  IsTable(graph.nodes) /\ IsGraph(graph) /\ Len(graph.nodes) \in Nat
<1>1. IsGraph(graph)
  BY DEF IInv, IsGood, IsNetwork
<1>2. graph.nodes \in Seq(RowSet) /\ Len(graph.nodes) \in Nat
  BY <1>1, GraphFacts
<1>3. \A n \in 1..Len(graph.nodes) : graph.nodes[n].at \in PlacesOf[graph.nodes[n].id]
  BY <1>1 DEF IsGraph
<1>4. ASSUME NEW m \in 1..Len(graph.nodes), NEW n \in 1..Len(graph.nodes),
             ~graph.nodes[m].dead, ~graph.nodes[n].dead, graph.nodes[m].id = graph.nodes[n].id
      PROVE  m = n
  BY <1>4 DEF IInv
<1> QED BY <1>1, <1>2, <1>3, <1>4 DEF IsTable

\* c says of each id where the live rows say it is.
Agrees(c, nodes) ==
    \A id \in Ids : \A p : Holds(nodes, id, p) <=> p # NoPlace /\ c[id] = p

\* The content says where the live rows are.
LEMMA ContentFacts == IInv => Agrees(Content, graph.nodes)
<1> SUFFICES ASSUME IInv PROVE Agrees(Content, graph.nodes)
  OBVIOUS
<1>1. IsTable(graph.nodes) /\ IsGraph(graph) /\ DOMAIN graph.nodes = 1..Len(graph.nodes)
  BY GraphIsATable, GraphFacts
<1>2. ASSUME NEW id \in Ids, NEW p
      PROVE  Holds(graph.nodes, id, p) <=> p # NoPlace /\ Content[id] = p
  <2> DEFINE own == {n \in Live(graph) : graph.nodes[n].id = id}
  <2>1. Content[id] = IF own = {} THEN NoPlace ELSE graph.nodes[CHOOSE n \in own : TRUE].at
    BY DEF Content
  <2>2. \A n \in own : n \in 1..Len(graph.nodes) /\ ~graph.nodes[n].dead /\ graph.nodes[n].id = id
    BY <1>1 DEF Live
  <2>3. \A n \in 1..Len(graph.nodes) :
            ~graph.nodes[n].dead /\ graph.nodes[n].id = id => n \in own
    BY <1>1 DEF Live
  <2> HIDE DEF own
  <2>4. CASE own = {}
    BY <2>1, <2>3, <2>4 DEF Holds
  <2>5. CASE own # {}
    <3> DEFINE n == CHOOSE n \in own : TRUE
    <3>1. n \in own
      BY <2>5
    <3>2. Content[id] = graph.nodes[n].at
      BY <2>1, <2>5
    <3> HIDE DEF n
    <3>3. \A m \in own : m = n
      BY <1>1, <2>2, <3>1 DEF IsTable
    <3>4. graph.nodes[n].at # NoPlace
      <4>1. graph.nodes[n].at \in PlacesOf[id]
        BY <1>1, <2>2, <3>1 DEF IsTable
      <4> QED BY <4>1, HnswAssumption
    <3>5. Holds(graph.nodes, id, p) <=> p = graph.nodes[n].at
      BY <2>2, <2>3, <3>1, <3>3 DEF Holds
    <3> QED BY <3>2, <3>4, <3>5
  <2> QED BY <2>4, <2>5
<1> QED BY <1>2 DEF Agrees

\* Only one function of the ids agrees with the rows.
LEMMA AgreeingIsUnique ==
    ASSUME NEW nodes, NEW c, NEW d, Agrees(c, nodes), Agrees(d, nodes),
           c = [id \in Ids |-> c[id]], d = [id \in Ids |-> d[id]]
    PROVE  c = d
<1>1. ASSUME NEW id \in Ids
      PROVE  c[id] = d[id]
  <2>1. \A p : p # NoPlace => (c[id] = p <=> d[id] = p)
    BY DEF Agrees
  <2> QED BY <2>1
<1> QED BY <1>1

\* At first nothing is in the graph.
LEMMA InitialInvariant == Init => IInv /\ Index!Init
<1> SUFFICES ASSUME Init PROVE IInv /\ Index!Init
  OBVIOUS
<1>1. graph = Empty /\ nodeOf = [id \in Ids |-> NoNode] /\ deletedCount = 0
  BY DEF Init
<1>2. graph.nodes = <<>> /\ Len(graph.nodes) = 0 /\ IsGood(graph)
  BY <1>1, EmptyIsGood DEF Empty
<1>3. Dead(graph.nodes) = {} /\ Cardinality(Dead(graph.nodes)) = 0
  BY <1>2, FS_EmptySet DEF Dead
<1>4. IInv
  BY <1>1, <1>2, <1>3, HnswAssumption DEF IInv, NoNode
<1>5. \A id \in Ids : {n \in Live(graph) : graph.nodes[n].id = id} = {}
  BY <1>2 DEF Live
<1>6. Content = [id \in Ids |-> NoPlace]
  BY <1>5 DEF Content
<1> QED BY <1>4, <1>6 DEF Index!Init

\* A graph that is made anew from the live rows of a table holds what they hold.
LEMMA RebuildFacts ==
    ASSUME NEW nodes, IsTable(nodes), Len(nodes) <= MaxNodes, Rebuild(nodes)
    PROVE  IInv' /\ \A id, p : Holds(graph'.nodes, id, p) <=> Holds(nodes, id, p)
<1> DEFINE rows == LiveRows(nodes)
<1>1. /\ \E levels \in [DOMAIN rows -> Levels] : graph' = Built(rows, levels)
      /\ nodeOf' = Numbered(rows) /\ deletedCount' = 0
  BY DEF Rebuild
<1>2. /\ IsTable(rows) /\ DOMAIN rows = 1..Len(rows)
      /\ Len(rows) \in Nat /\ Len(rows) <= Len(nodes)
      /\ \A i \in 1..Len(rows) : rows[i].dead = FALSE
      /\ \A id, p : Holds(rows, id, p) <=> Holds(nodes, id, p)
  BY LiveRowsFacts
<1> HIDE DEF rows
<1>3. IsGood(graph') /\ IsMadeOf(graph', rows, Len(rows))
  <2>1. PICK levels \in [1..Len(rows) -> Levels] : graph' = Built(rows, levels)
    BY <1>1, <1>2
  <2>2. rows \in Seq(RowSet) /\ \A n \in 1..Len(rows) : rows[n].at \in PlacesOf[rows[n].id]
    BY <1>2 DEF IsTable
  <2> QED BY <2>1, <2>2, BuiltFacts
<1>4. /\ Len(graph'.nodes) = Len(rows)
      /\ \A n \in 1..Len(rows) : /\ graph'.nodes[n].id = rows[n].id
                                 /\ graph'.nodes[n].at = rows[n].at
                                 /\ graph'.nodes[n].dead = FALSE
  BY <1>3 DEF IsMadeOf
<1>5. \A id \in Ids :
          nodeOf'[id] = IF \E n \in 1..Len(rows) : rows[n].id = id
                        THEN CHOOSE n \in 1..Len(rows) : rows[n].id = id ELSE NoNode
  BY <1>1, <1>2 DEF Numbered
<1>6. \A n \in 1..Len(rows) : rows[n].id \in Ids
  <2>1. \A n \in 1..Len(rows) : rows[n] \in RowSet
    BY <1>2 DEF IsTable
  <2> QED BY <2>1 DEF RowSet
<1>7. \A m, n \in 1..Len(rows) : rows[m].id = rows[n].id => m = n
  BY <1>2 DEF IsTable
<1>8. \A n \in 1..Len(rows) : nodeOf'[rows[n].id] = n
  BY <1>5, <1>6, <1>7
<1>9. \A id \in Ids : \/ nodeOf'[id] = NoNode
                      \/ nodeOf'[id] \in 1..Len(rows) /\ rows[nodeOf'[id]].id = id
  BY <1>5
<1>10. nodeOf' \in [Ids -> 0..Len(graph'.nodes)]
  <2>1. nodeOf' = [id \in Ids |-> nodeOf'[id]]
    BY <1>1 DEF Numbered
  <2>2. \A id \in Ids : nodeOf'[id] \in 0..Len(rows)
    BY <1>2, <1>9 DEF NoNode
  <2> QED BY <1>4, <2>1, <2>2
<1>11. Dead(graph'.nodes) = {}
  BY <1>4 DEF Dead
<1>12. deletedCount' = Cardinality(Dead(graph'.nodes))
  BY <1>1, <1>11, FS_EmptySet
<1>13. Len(graph'.nodes) <= MaxNodes
  <2>1. Len(nodes) \in Nat /\ MaxNodes \in Nat
    BY HnswAssumption DEF IsTable
  <2> QED BY <1>2, <1>4, <2>1
<1>14. \A id \in Ids : nodeOf'[id] # NoNode => graph'.nodes[nodeOf'[id]].id = id
  BY <1>4, <1>9
<1>15. \A n \in 1..Len(graph'.nodes) : nodeOf'[graph'.nodes[n].id] = n
  BY <1>4, <1>8
<1>16. IInv'
  BY <1>3, <1>10, <1>12, <1>13, <1>14, <1>15 DEF IInv
<1>17. ASSUME NEW id, NEW p
       PROVE  Holds(graph'.nodes, id, p) <=> Holds(rows, id, p)
  BY <1>2, <1>4 DEF Holds
<1> QED BY <1>2, <1>16, <1>17

\* Making the graph anew changes nothing that can be seen from outside.
LEMMA RebuildIsAStutter ==
    ASSUME IInv, Rebuild(graph.nodes)
    PROVE  IInv' /\ Content' = Content
<1>1. IInv' /\ \A id, p : Holds(graph'.nodes, id, p) <=> Holds(graph.nodes, id, p)
  <2>1. IsTable(graph.nodes) /\ Len(graph.nodes) <= MaxNodes
    BY GraphIsATable DEF IInv
  <2> QED BY <2>1, RebuildFacts
<1>2. Agrees(Content, graph.nodes)
  BY ContentFacts
<1>3. Agrees(Content', graph'.nodes)
  <2>1. (IInv => Agrees(Content, graph.nodes))'
    BY ContentFacts, PTL
  <2> QED BY <1>1, <2>1
<1>4. Agrees(Content', graph.nodes)
  BY <1>1, <1>3 DEF Agrees
<1>5. Content = [id \in Ids |-> Content[id]] /\ Content' = [id \in Ids |-> Content'[id]]
  BY DEF Content
<1> QED BY <1>1, <1>2, <1>4, <1>5, AgreeingIsUnique
\* The content after a step, from what the rows hold.
LEMMA NextContent ==
    ASSUME IInv, IInv'
    PROVE  /\ Agrees(Content, graph.nodes) /\ Agrees(Content', graph'.nodes)
           /\ Content = [id \in Ids |-> Content[id]] /\ Content' = [id \in Ids |-> Content'[id]]
<1>1. (IInv => Agrees(Content, graph.nodes))'
  BY ContentFacts, PTL
<1>2. Content = [id \in Ids |-> Content[id]] /\ Content' = [id \in Ids |-> Content'[id]]
  BY DEF Content
<1> QED BY <1>1, <1>2, ContentFacts

\* Adding a row keeps the invariant, and adds to the content.
LEMMA AddKeeps ==
    ASSUME IInv, NEW id \in Ids, NEW at \in PlacesOf[id], AddWithIds(id, at)
    PROVE  IInv' /\ Index!Add(id, at)
<1> DEFINE node == Len(graph.nodes) + 1
<1>1. IsTable(graph.nodes) /\ IsGraph(graph) /\ Len(graph.nodes) \in Nat
  BY GraphIsATable
<1>2. PICK level \in Levels : graph' = Insert(graph, id, at, level)
  BY DEF AddWithIds
<1>3. IsGood(graph') /\ IsExtended(graph, graph', id, at)
  <2>1. IsGood(graph)
    BY DEF IInv
  <2> QED BY <1>2, <2>1, InsertFacts
<1>4. /\ Len(graph'.nodes) = node
      /\ \A n \in 1..Len(graph.nodes) :
            /\ graph'.nodes[n].id = graph.nodes[n].id /\ graph'.nodes[n].at = graph.nodes[n].at
            /\ graph'.nodes[n].dead = graph.nodes[n].dead
      /\ graph'.nodes[node].id = id /\ graph'.nodes[node].at = at
      /\ graph'.nodes[node].dead = FALSE
      /\ \A n \in 1..node : n \in 1..Len(graph.nodes) \/ n = node
      /\ \A n \in 1..Len(graph.nodes) : n \in 1..node
      /\ node \in 1..node
  BY <1>1, <1>3 DEF IsExtended
<1>5. /\ Content[id] = NoPlace /\ Len(graph.nodes) < MaxNodes /\ deletedCount' = deletedCount
      /\ nodeOf' = [nodeOf EXCEPT ![id] = node]
  BY DEF AddWithIds
<1>6. Agrees(Content, graph.nodes)
  BY ContentFacts
<1>7. \A n \in 1..Len(graph.nodes) : ~graph.nodes[n].dead => graph.nodes[n].id # id
  <2> TAKE n \in 1..Len(graph.nodes)
  <2> HAVE ~graph.nodes[n].dead
  <2>1. SUFFICES ASSUME graph.nodes[n].id = id PROVE FALSE
    OBVIOUS
  <2>2. Holds(graph.nodes, id, graph.nodes[n].at)
    BY <2>1 DEF Holds
  <2>3. graph.nodes[n].at # NoPlace /\ Content[id] = graph.nodes[n].at
    BY <1>6, <2>2 DEF Agrees
  <2> QED BY <1>5, <2>3
<1>8. \A n \in 1..Len(graph.nodes) : graph.nodes[n].id \in Ids
  BY <1>1, GraphFacts
<1>9. nodeOf \in [Ids -> 0..Len(graph.nodes)]
  BY DEF IInv
<1> DEFINE size == Len(graph.nodes)
<1>10. /\ size \in Nat /\ node = size + 1 /\ nodeOf' \in [Ids -> 0..node]
       /\ nodeOf'[id] = node /\ \A i \in Ids \ {id} : nodeOf'[i] = nodeOf[i]
  <2> HIDE DEF size
  <2>1. 0..size \subseteq 0..(size + 1) /\ size + 1 \in 0..(size + 1) /\ size \in Nat
    BY <1>1 DEF size
  <2> QED BY <1>5, <1>9, <2>1 DEF size
<1>11. \A i \in Ids : nodeOf'[i] # NoNode => graph'.nodes[nodeOf'[i]].id = i
  <2> TAKE i \in Ids
  <2> HAVE nodeOf'[i] # NoNode
  <2>1. CASE i = id
    BY <1>4, <1>10, <2>1
  <2>2. CASE i # id
    <3>1. nodeOf[i] \in 1..Len(graph.nodes) /\ nodeOf'[i] = nodeOf[i]
      BY <1>9, <1>10, <2>2 DEF NoNode
    <3>2. graph.nodes[nodeOf[i]].id = i
      BY <3>1 DEF IInv, NoNode
    <3> QED BY <1>4, <3>1, <3>2
  <2> QED BY <2>1, <2>2
<1>12. \A n \in 1..Len(graph'.nodes) :
           ~graph'.nodes[n].dead => nodeOf'[graph'.nodes[n].id] = n
  <2> TAKE n \in 1..Len(graph'.nodes)
  <2> HAVE ~graph'.nodes[n].dead
  <2>1. CASE n = node
    BY <1>4, <1>10, <2>1
  <2>2. CASE n \in 1..Len(graph.nodes)
    <3>1. ~graph.nodes[n].dead /\ graph'.nodes[n].id = graph.nodes[n].id
      BY <1>4, <2>2
    <3>2. nodeOf[graph.nodes[n].id] = n /\ graph.nodes[n].id \in Ids \ {id}
      BY <1>7, <1>8, <2>2, <3>1 DEF IInv
    <3> QED BY <1>10, <3>1, <3>2
  <2> QED BY <1>4, <2>1, <2>2
<1> HIDE DEF size
<1>13. Dead(graph'.nodes) = Dead(graph.nodes)
  <2> HIDE DEF node
  <2>1. \A n : n \in Dead(graph'.nodes) <=> n \in Dead(graph.nodes)
    BY <1>4 DEF Dead
  <2> QED BY <2>1
<1>14. Len(graph'.nodes) <= MaxNodes
  BY <1>1, <1>4, <1>5, HnswAssumption
<1>15. IInv'
  <2>1. deletedCount' = Cardinality(Dead(graph'.nodes))
    BY <1>5, <1>13 DEF IInv
  <2>2. nodeOf' \in [Ids -> 0..Len(graph'.nodes)]
    BY <1>4, <1>10
  <2> QED BY <1>3, <1>11, <1>12, <1>14, <2>1, <2>2 DEF IInv
<1>16. \A i, p : Holds(graph'.nodes, i, p) <=> Holds(graph.nodes, i, p) \/ (i = id /\ p = at)
  <2> TAKE i, p
  <2>1. ASSUME Holds(graph'.nodes, i, p)
        PROVE  Holds(graph.nodes, i, p) \/ (i = id /\ p = at)
    <3>1. PICK n \in 1..node : ~graph'.nodes[n].dead /\ graph'.nodes[n].id = i
                               /\ graph'.nodes[n].at = p
      BY <1>4, <2>1 DEF Holds
    <3> HIDE DEF node
    <3> QED BY <1>4, <3>1 DEF Holds
  <2>2. ASSUME Holds(graph.nodes, i, p)
        PROVE  Holds(graph'.nodes, i, p)
    <3>1. PICK n \in 1..Len(graph.nodes) : ~graph.nodes[n].dead /\ graph.nodes[n].id = i
                                           /\ graph.nodes[n].at = p
      BY <2>2 DEF Holds
    <3> HIDE DEF node
    <3> QED BY <1>4, <3>1 DEF Holds
  <2>3. Holds(graph'.nodes, id, at)
    <3> HIDE DEF node
    <3> QED BY <1>4 DEF Holds
  <2> QED BY <2>1, <2>2, <2>3
<1>17. Index!Add(id, at)
  <2>1. at # NoPlace
    BY HnswAssumption
  <2>2. /\ Agrees(Content', graph'.nodes)
        /\ Content = [i \in Ids |-> Content[i]] /\ Content' = [i \in Ids |-> Content'[i]]
    BY <1>15, NextContent
  <2> DEFINE added == [Content EXCEPT ![id] = at]
  <2>3. added = [i \in Ids |-> added[i]] /\ added[id] = at
        /\ \A i \in Ids \ {id} : added[i] = Content[i]
    BY <2>2
  <2> HIDE DEF added
  <2>4. Agrees(added, graph'.nodes)
    BY <1>5, <1>6, <1>16, <2>1, <2>3 DEF Agrees
  <2>5. Content' = added
    BY <2>2, <2>3, <2>4, AgreeingIsUnique
  <2> QED BY <1>5, <2>5 DEF Index!Add, added
<1> QED BY <1>15, <1>17

Marked(nodes, n) == [nodes EXCEPT ![n].dead = TRUE]

\* What marked is to nodes when row n has become a tombstone.
IsMarked(nodes, marked, n) ==
    /\ IsTable(marked) /\ Len(marked) = Len(nodes)
    /\ Dead(marked) = Dead(nodes) \union {n} /\ n \notin Dead(nodes)
    /\ IsFiniteSet(Dead(nodes))
    /\ \A m \in 1..Len(nodes) :
          /\ marked[m].id = nodes[m].id /\ marked[m].at = nodes[m].at
          /\ marked[m].level = nodes[m].level /\ marked[m].links = nodes[m].links
          /\ marked[m].dead = (m = n \/ nodes[m].dead)
    /\ \A id, p : Holds(marked, id, p) <=> Holds(nodes, id, p) /\ id # nodes[n].id

\* Making a live row a tombstone takes its place out of a table, and no other.
LEMMA MarkedFacts ==
    ASSUME NEW nodes, IsTable(nodes), NEW n \in 1..Len(nodes), ~nodes[n].dead
    PROVE  IsMarked(nodes, Marked(nodes, n), n)
<1> DEFINE marked == [nodes EXCEPT ![n].dead = TRUE]
<1> DEFINE old == nodes[n]
<1> DEFINE row == [old EXCEPT !.dead = TRUE]
<1>1. nodes \in Seq(RowSet) /\ Len(nodes) \in Nat /\ old \in RowSet
      /\ \A m \in 1..Len(nodes) : nodes[m] \in RowSet
  BY DEF IsTable
<1>2. /\ row \in RowSet /\ row.id = old.id /\ row.at = old.at /\ row.level = old.level
      /\ row.links = old.links /\ row.dead = TRUE
  <2> HIDE DEF old
  <2> QED BY <1>1 DEF RowSet
<1>3. marked = [nodes EXCEPT ![n] = row]
  OBVIOUS
<1> HIDE DEF row, marked
<1>4. /\ marked \in Seq(RowSet) /\ Len(marked) = Len(nodes) /\ marked[n] = row
      /\ \A m \in 1..Len(nodes) : m # n => marked[m] = nodes[m]
  BY <1>1, <1>2, <1>3
<1>5. ASSUME NEW m \in 1..Len(nodes)
      PROVE  /\ marked[m].id = nodes[m].id /\ marked[m].at = nodes[m].at
             /\ marked[m].level = nodes[m].level /\ marked[m].links = nodes[m].links
             /\ marked[m].dead = (m = n \/ nodes[m].dead)
  <2>1. CASE m = n
    BY <1>2, <1>4, <2>1
  <2>2. CASE m # n
    <3>1. marked[m] = nodes[m] /\ nodes[m].dead \in BOOLEAN
      BY <1>1, <1>4, <2>2 DEF RowSet
    <3> QED BY <2>2, <3>1
  <2> QED BY <2>1, <2>2
<1>6. \A m \in 1..Len(nodes) : marked[m].dead <=> m = n \/ nodes[m].dead
  BY <1>5
<1>7. IsTable(marked)
  BY <1>4, <1>5, <1>6 DEF IsTable
<1>8. Dead(marked) = Dead(nodes) \union {n} /\ n \notin Dead(nodes)
  BY <1>4, <1>6 DEF Dead
<1>9. IsFiniteSet(Dead(nodes))
  <2>1. \A k \in Nat : IsFiniteSet(1..k)
    <3> TAKE k \in Nat
    <3> QED BY FS_Interval
  <2>2. Dead(nodes) \in SUBSET (1..Len(nodes))
    BY DEF Dead
  <2> QED BY <1>1, <2>1, <2>2, FS_Subset
<1>10. ASSUME NEW id, NEW p
       PROVE  Holds(marked, id, p) <=> Holds(nodes, id, p) /\ id # nodes[n].id
  <2>1. ASSUME Holds(marked, id, p)
        PROVE  Holds(nodes, id, p) /\ id # nodes[n].id
    <3>1. PICK m \in 1..Len(nodes) : ~marked[m].dead /\ marked[m].id = id /\ marked[m].at = p
      BY <1>4, <2>1 DEF Holds
    <3>2. m # n /\ ~nodes[m].dead /\ nodes[m].id = id /\ nodes[m].at = p
      BY <1>5, <1>6, <3>1
    <3>3. nodes[m].id # nodes[n].id
      BY <3>2 DEF IsTable
    <3> QED BY <3>2, <3>3 DEF Holds
  <2>2. ASSUME Holds(nodes, id, p), id # nodes[n].id
        PROVE  Holds(marked, id, p)
    <3>1. PICK m \in 1..Len(nodes) : ~nodes[m].dead /\ nodes[m].id = id /\ nodes[m].at = p
      BY <2>2 DEF Holds
    <3>2. m # n
      BY <2>2, <3>1
    <3> QED BY <1>4, <1>5, <1>6, <3>1, <3>2 DEF Holds
  <2> QED BY <2>1, <2>2
<1>11. IsMarked(nodes, marked, n)
  BY <1>4, <1>5, <1>7, <1>8, <1>9, <1>10 DEF IsMarked
<1> QED BY <1>11 DEF marked, Marked

\* A good graph stays one when rows become tombstones.
LEMMA MarkedIsGood ==
    ASSUME NEW G, IsGood(G), NEW nodes, IsTable(nodes), Len(nodes) = Len(G.nodes),
           \A m \in 1..Len(nodes) : /\ nodes[m].level = G.nodes[m].level
                                    /\ nodes[m].links = G.nodes[m].links
    PROVE  LET H == [G EXCEPT !.nodes = nodes] IN IsGood(H) /\ H.nodes = nodes
<1> DEFINE H == [G EXCEPT !.nodes = nodes]
<1>1. IsGraph(G) /\ IsNetwork(G)
  BY DEF IsGood, IsNetwork
<1>2. H = [nodes |-> nodes, entry |-> G.entry, top |-> G.top]
  <2>1. PICK a, b, c : G = [nodes |-> a, entry |-> b, top |-> c]
    BY <1>1, GraphFacts
  <2> QED BY <2>1
<1> HIDE DEF H
<1>3. H.nodes = nodes /\ H.entry = G.entry /\ H.top = G.top
  BY <1>2
<1>4. IsGraph(H)
  <2>1. H \in Graphs
    BY <1>1, <1>2, GraphFacts DEF Graphs, IsTable
  <2> QED BY <1>1, <1>3, <2>1 DEF IsGraph, IsTable
<1>5. /\ \A n \in 1..Len(G.nodes) : \A l : ListAt(H, n, l) = ListAt(G, n, l)
                                           /\ LinksOf(H, n, l) = LinksOf(G, n, l)
      /\ \A l : Holders(H, l) = Holders(G, l)
  BY <1>3 DEF ListAt, LinksOf, Holders
<1>6. IsNetwork(H)
  BY <1>1, <1>3, <1>4, <1>5 DEF IsNetwork, IsWired
<1>7. IsAnchored(H)
  BY <1>3 DEF IsGood, IsAnchored
<1>8. IsConnected(G) => IsConnected(H)
  BY <1>3, <1>5 DEF IsConnected, Closed
<1> QED BY <1>3, <1>6, <1>7, <1>8 DEF IsGood, H

\* Removing a row keeps the invariant, and takes it out of the content.
LEMMA RemoveKeeps ==
    ASSUME IInv, NEW id \in Ids, RemoveId(id)
    PROVE  IInv' /\ Index!Remove(id)
<1> DEFINE n == nodeOf[id]
<1> DEFINE nodes == [graph.nodes EXCEPT ![n].dead = TRUE]
<1>1. IsTable(graph.nodes) /\ IsGraph(graph) /\ Len(graph.nodes) \in Nat
  BY GraphIsATable
<1>2. n # NoNode /\ ~graph.nodes[n].dead
  BY DEF RemoveId
<1>3. nodeOf \in [Ids -> 0..Len(graph.nodes)]
  BY DEF IInv
<1>4. n \in 1..Len(graph.nodes) /\ graph.nodes[n].id = id
  BY <1>2, <1>3 DEF IInv, NoNode
<1>5. IF Crowded(deletedCount + 1, Len(nodes))
      THEN Rebuild(nodes)
      ELSE /\ graph' = [graph EXCEPT !.nodes = nodes]
           /\ deletedCount' = deletedCount + 1 /\ nodeOf' = nodeOf
  BY Zenon DEF RemoveId
<1> HIDE DEF n
<1>6. IsMarked(graph.nodes, nodes, n)
  <2>1. IsMarked(graph.nodes, Marked(graph.nodes, n), n)
    BY <1>1, <1>2, <1>4, MarkedFacts
  <2> QED BY <2>1, Zenon DEF nodes, Marked
<1> HIDE DEF nodes
<1> USE DEF IsMarked
<1>7. IInv' /\ \A i, p : Holds(graph'.nodes, i, p) <=> Holds(nodes, i, p)
  <2>1. CASE Crowded(deletedCount + 1, Len(nodes))
    <3>1. Rebuild(nodes)
      BY <1>5, <2>1
    <3>2. Len(nodes) <= MaxNodes
      BY <1>6 DEF IInv
    <3> QED BY <1>6, <3>1, <3>2, RebuildFacts
  <2>2. CASE ~Crowded(deletedCount + 1, Len(nodes))
    <3>1. /\ graph' = [graph EXCEPT !.nodes = nodes]
          /\ deletedCount' = deletedCount + 1 /\ nodeOf' = nodeOf
      BY <1>5, <2>2
    <3>2. IsGood(graph') /\ graph'.nodes = nodes
      <4>1. IsGood(graph)
        BY DEF IInv
      <4>2. IsGood([graph EXCEPT !.nodes = nodes])
            /\ [graph EXCEPT !.nodes = nodes].nodes = nodes
        BY <1>6, <4>1, MarkedIsGood
      <4> QED BY <3>1, <4>2
    <3>3. deletedCount' = Cardinality(Dead(graph'.nodes))
      <4>1. Cardinality(Dead(graph.nodes) \union {n}) = Cardinality(Dead(graph.nodes)) + 1
        BY <1>6, FS_AddElement
      <4> QED BY <1>6, <3>1, <3>2, <4>1 DEF IInv
    <3>4. \A i \in Ids : nodeOf'[i] # NoNode => graph'.nodes[nodeOf'[i]].id = i
      <4> TAKE i \in Ids
      <4> HAVE nodeOf'[i] # NoNode
      <4>1. nodeOf[i] \in 1..Len(graph.nodes)
        BY <1>3, <3>1 DEF NoNode
      <4>2. graph.nodes[nodeOf[i]].id = i
        BY <4>1 DEF IInv, NoNode
      <4> QED BY <1>6, <3>1, <3>2, <4>1, <4>2
    <3>5. \A m \in 1..Len(graph'.nodes) :
              ~graph'.nodes[m].dead => nodeOf'[graph'.nodes[m].id] = m
      <4> TAKE m \in 1..Len(graph'.nodes)
      <4> HAVE ~graph'.nodes[m].dead
      <4>1. m \in 1..Len(graph.nodes) /\ ~nodes[m].dead /\ nodes[m].id = graph.nodes[m].id
        BY <1>6, <3>2
      <4>2. ~graph.nodes[m].dead
        BY <1>6, <4>1
      <4>3. nodeOf[graph.nodes[m].id] = m
        BY <4>1, <4>2 DEF IInv
      <4> QED BY <3>1, <3>2, <4>1, <4>3
    <3>6. Len(graph'.nodes) <= MaxNodes /\ nodeOf' \in [Ids -> 0..Len(graph'.nodes)]
      BY <1>3, <1>6, <3>1, <3>2 DEF IInv
    <3>7. IInv'
      BY <3>2, <3>3, <3>4, <3>5, <3>6 DEF IInv
    <3> QED BY <3>2, <3>7
  <2> QED BY <2>1, <2>2
<1>8. Index!Remove(id)
  <2>1. /\ Agrees(Content, graph.nodes) /\ Agrees(Content', graph'.nodes)
        /\ Content = [i \in Ids |-> Content[i]] /\ Content' = [i \in Ids |-> Content'[i]]
    BY <1>7, NextContent
  <2>2. Content[id] # NoPlace
    <3>1. Holds(graph.nodes, id, graph.nodes[n].at)
      BY <1>2, <1>4 DEF Holds
    <3> QED BY <2>1, <3>1 DEF Agrees
  <2> DEFINE removed == [Content EXCEPT ![id] = NoPlace]
  <2>3. removed = [i \in Ids |-> removed[i]] /\ removed[id] = NoPlace
        /\ \A i \in Ids \ {id} : removed[i] = Content[i]
    BY <2>1
  <2> HIDE DEF removed
  <2>4. Agrees(removed, graph'.nodes)
    BY <1>4, <1>6, <1>7, <2>1, <2>3 DEF Agrees
  <2>5. Content' = removed
    BY <2>1, <2>3, <2>4, AgreeingIsUnique
  <2> QED BY <2>2, <2>5 DEF Index!Remove, removed
<1> QED BY <1>7, <1>8

\* Every step keeps the invariant, and is a step of the abstract index or none.
LEMMA Step ==
    ASSUME IInv, [Next]_vars
    PROVE  IInv' /\ [Index!Next]_Content
<1>1. ASSUME NEW id \in Ids, RemoveId(id)
      PROVE  IInv' /\ Index!Next
  BY <1>1, RemoveKeeps DEF Index!Next
<1>2. ASSUME NEW id \in Ids, NEW at \in PlacesOf[id], AddWithIds(id, at)
      PROVE  IInv' /\ Index!Next
  BY <1>2, AddKeeps DEF Index!Next
<1>3. CASE Vacuum
  BY <1>3, RebuildIsAStutter DEF Vacuum
<1>4. CASE ImportExported
  BY <1>4, RebuildIsAStutter DEF ImportExported
<1>5. CASE UNCHANGED vars
  <2>1. graph' = graph /\ nodeOf' = nodeOf /\ deletedCount' = deletedCount
    BY <1>5 DEF vars
  <2>2. IInv'
    BY <2>1 DEF IInv
  <2>3. Content' = Content
    BY <2>1 DEF Content, Live
  <2> QED BY <2>2, <2>3
<1> QED BY <1>1, <1>2, <1>3, <1>4, <1>5 DEF Next

\* In every state the graph is good, each live row is the one under which its id is
\* known, and the tombstones are counted.
THEOREM Invariant == Spec => []IInv
<1>1. Init => IInv
  BY InitialInvariant
<1>2. IInv /\ [Next]_vars => IInv'
  BY Step
<1> QED BY <1>1, <1>2, PTL DEF Spec

\* Seen from outside the graph is an index: no compaction and no snapshot that is
\* read back loses a row or brings one back.
THEOREM ImplementsAnIndex == Spec => IsAnIndex
<1>1. Init => Index!Init
  BY InitialInvariant
<1>2. IInv /\ [Next]_vars => [Index!Next]_Content
  BY Step
<1> QED BY <1>1, <1>2, Invariant, PTL DEF Spec, IsAnIndex, Index!Spec

\* A good graph can be walked from its entry point down.
LEMMA GoodIsNavigable == IInv => GraphIsNavigable
<1> SUFFICES ASSUME IInv PROVE GraphIsNavigable
  OBVIOUS
<1>1. /\ IsTable(graph.nodes) /\ IsGraph(graph) /\ Len(graph.nodes) \in Nat
      /\ DOMAIN graph.nodes = 1..Len(graph.nodes)
  BY GraphIsATable, GraphFacts
<1>2. IsNetwork(graph) /\ IsAnchored(graph) /\ Len(graph.nodes) <= MaxNodes /\ MaxNodes \in Nat
  BY HnswAssumption DEF IInv, IsGood
<1>3. \A n \in 1..Len(graph.nodes) :
          /\ graph.nodes[n].id \in Ids /\ graph.nodes[n].at \in PlacesOf[graph.nodes[n].id]
          /\ graph.nodes[n].level \in Levels /\ graph.nodes[n].dead \in BOOLEAN
          /\ DOMAIN graph.nodes[n].links = 0..graph.nodes[n].level
  BY <1>1, GraphFacts DEF IsGraph
<1>6. /\ graph.entry \in 0..Len(graph.nodes) /\ graph.top \in Levels \union {-1}
      /\ graph.entry = NoNode <=> graph.nodes = <<>>
      /\ graph.entry # NoNode =>
            /\ graph.nodes[graph.entry].level = graph.top
            /\ \A n \in 1..Len(graph.nodes) : graph.nodes[n].level <= graph.top
  <2>1. CASE Len(graph.nodes) = 0
    <3>1. graph.entry = NoNode /\ graph.top = -1
      BY <1>2, <2>1 DEF IsAnchored
    <3>2. graph.nodes = <<>>
      BY <1>1, <2>1 DEF IsTable
    <3> QED BY <2>1, <3>1, <3>2 DEF NoNode
  <2>2. CASE Len(graph.nodes) # 0
    <3>1. /\ graph.entry \in 1..Len(graph.nodes) /\ graph.nodes[graph.entry].level = graph.top
          /\ \A n \in 1..Len(graph.nodes) : graph.nodes[n].level <= graph.top
      BY <1>2, <2>2 DEF IsAnchored
    <3>2. graph.nodes # <<>>
      BY <2>2
    <3> QED BY <1>1, <1>3, <3>1, <3>2 DEF NoNode
  <2> QED BY <2>1, <2>2
<1>7. nodeOf \in [Ids -> 0..MaxNodes]
  <2>1. nodeOf \in [Ids -> 0..Len(graph.nodes)] /\ 0..Len(graph.nodes) \subseteq 0..MaxNodes
    BY <1>1, <1>2 DEF IInv
  <2> QED BY <2>1
<1>8. deletedCount \in 0..MaxNodes
  <2>1. IsFiniteSet(1..Len(graph.nodes))
        /\ Cardinality(1..Len(graph.nodes)) = Len(graph.nodes)
    BY <1>1, NodesAreFinite
  <2>2. Dead(graph.nodes) \in SUBSET (1..Len(graph.nodes))
    BY DEF Dead
  <2>3. Cardinality(Dead(graph.nodes)) \in Nat
        /\ Cardinality(Dead(graph.nodes)) <= Len(graph.nodes)
    BY <2>1, <2>2, FS_Subset, FS_CardinalityType
  <2> QED BY <1>1, <1>2, <2>3 DEF IInv
<1>9. TypeOK
  BY <1>1, <1>3, <1>6, <1>7, <1>8 DEF TypeOK
<1>10. ASSUME NEW n \in 1..Len(graph.nodes), NEW l \in 0..graph.nodes[n].level
       PROVE  LET links == graph.nodes[n].links[l] IN
              /\ Len(links) <= MaxLinks(l)
              /\ \A i \in DOMAIN links :
                    /\ links[i] \in DOMAIN graph.nodes \ {n}
                    /\ l <= graph.nodes[links[i]].level
                    /\ \A j \in DOMAIN links : links[i] = links[j] => i = j
  <2> DEFINE links == graph.nodes[n].links[l]
  <2>1. links \in Seq(Nat) /\ DOMAIN links = 1..Len(links)
    BY <1>1, GraphFacts
  <2>2. IsWired(graph, n, l)
    BY <1>2 DEF IsNetwork
  <2> QED BY <1>1, <2>1, <2>2 DEF IsWired, NoTwins, Holders, ListAt
<1> QED BY <1>1, <1>6, <1>9, <1>10 DEF GraphIsNavigable

\* Every walk down the layers stays inside the graph.
THEOREM NavigableAlways == Spec => []GraphIsNavigable
BY Invariant, GoodIsNavigable, PTL
-----------------------------------------------------------------------------
(* Searches. *)

\* Where the walk through the upper layers ends.
Walked(G, q) ==
    Loop(LAMBDA n, i : Head(SearchLayer(G, q, n, 1, G.top + 1 - i)), G.entry, G.top)

\* The walk ends at a node of the graph.
LEMMA WalkFacts ==
    ASSUME NEW G, IsNetwork(G), IsAnchored(G), Len(G.nodes) # 0, NEW q \in Nat
    PROVE  Walked(G, q) \in Holders(G, 0)
<1> DEFINE top == G.top
<1> DEFINE V == 1..Len(G.nodes)
<1> DEFINE b == G.entry
<1> DEFINE Stage(i) == {n \in V : top - i <= G.nodes[n].level}
<1> DEFINE Turn(n, i) == Head(SearchLayer(G, q, n, 1, G.top + 1 - i))
<1> DEFINE F == [i \in 1..top |-> [n \in V |-> IF n \in Stage(i - 1) THEN Turn(n, i) ELSE n]]
<1>1. /\ Len(G.nodes) \in Nat /\ b \in V /\ top \in Nat /\ G.nodes[b].level = top
      /\ \A n \in V : G.nodes[n].level \in Nat
  <2>1. IsGraph(G) /\ b \in V /\ G.nodes[b].level = top
    BY DEF IsNetwork, IsAnchored
  <2> QED BY <2>1, GraphFacts
<1>2. b \in Stage(0)
  BY <1>1
<1>3. ASSUME NEW i \in 1..top, NEW n \in Stage(i - 1)
      PROVE  Turn(n, i) \in Stage(i)
  <2> DEFINE l == G.top + 1 - i
  <2>1. l \in Nat /\ top - (i - 1) = l /\ top - i = l - 1
    BY <1>1
  <2>2. n \in Holders(G, l)
    BY <2>1 DEF Holders
  <2> HIDE DEF l
  <2>3. IsLayer(G, Holders(G, l), l)
    BY <2>1, HoldersAreALayer
  <2>4. Head(SearchLayer(G, q, n, 1, l)) \in Holders(G, l)
    <3> DEFINE N == Holders(G, l)
    <3> HIDE DEF N, Turn, Stage, F, V, b, top
    <3>1. ASSUME NEW ef \in Nat \ {0}
          PROVE  Head(SearchLayer(G, q, n, ef, l)) \in N
      <4>1. n \in N /\ IsLayer(G, N, l)
        BY <2>2, <2>3 DEF N
      <4> QED BY <4>1, FoundFacts
    <3> QED BY <3>1 DEF N
  <2> DEFINE m == Head(SearchLayer(G, q, n, 1, l))
  <2>5. m = Turn(n, i)
    BY DEF l
  <2> HIDE DEF m
  <2>6. m \in V /\ l <= G.nodes[m].level
    BY <2>4 DEF Holders, m
  <2>7. l - 1 <= G.nodes[m].level
    BY <1>1, <2>1, <2>6
  <2>8. m \in Stage(i)
    BY <2>1, <2>6, <2>7
  <2> QED BY <2>5, <2>8
<1>4. F \in [1..top -> [V -> V]]
  <2>1. \A i \in 1..top : \A n \in V : n \in Stage(i - 1) => Turn(n, i) \in V
    <3> HIDE DEF V, Turn
    <3> QED BY <1>3
  <2> HIDE DEF V, Turn, Stage
  <2> QED BY <2>1
<1>5. PICK h \in [0..top -> V] : IsRun(h, top, b, F)
  <2> HIDE DEF V, F, b, top
  <2> QED BY <1>1, <1>4, LoopExists
<1> DEFINE after == CHOOSE g : g = [i \in 0..top |-> IF i = 0 THEN b ELSE Turn(g[i - 1], i)]
<1>6. Walked(G, q) = after[top]
  BY Zenon DEF Loop, Walked
<1> HIDE DEF Turn, Stage, V, b, top
<1>7. \A i \in 0..top : h[i] \in Stage(i)
  <2> DEFINE T == {i \in 0..top : h[i] \in Stage(i)}
  <2>1. 0 \in T
    BY <1>1, <1>2, <1>5 DEF IsRun
  <2>2. ASSUME NEW i \in 1..top, i - 1 \in T
        PROVE  i \in T
    <3>1. h[i - 1] \in Stage(i - 1) /\ h[i - 1] \in V /\ h[i] = F[i][h[i - 1]]
      BY <1>1, <1>5, <2>2 DEF IsRun
    <3>2. h[i] = Turn(h[i - 1], i)
      BY <3>1
    <3> HIDE DEF F
    <3> QED BY <1>1, <1>3, <3>1, <3>2
  <2> HIDE DEF T
  <2>3. \A i \in 0..top : i \in T
    BY <1>1, <2>1, <2>2, Turns
  <2> QED BY <2>3 DEF T
<1>8. h = [i \in 0..top |-> IF i = 0 THEN b ELSE Turn(h[i - 1], i)]
  <2>1. \A i \in 1..top : i - 1 \in 0..top /\ F[i][h[i - 1]] = Turn(h[i - 1], i)
    BY <1>1, <1>7
  <2> HIDE DEF F
  <2> QED BY <1>1, <1>5, <2>1 DEF IsRun
<1>9. after = [i \in 0..top |-> IF i = 0 THEN b ELSE Turn(after[i - 1], i)]
  BY <1>8
<1> HIDE DEF after, F
<1>10. after[0] = b /\ \A i \in 1..top : after[i] = Turn(after[i - 1], i)
  BY <1>1, <1>9
<1>11. after[top] \in Stage(top)
  <2> DEFINE T == {i \in 0..top : after[i] \in Stage(i)}
  <2>1. 0 \in T
    BY <1>1, <1>2, <1>10
  <2>2. \A i \in 1..top : i - 1 \in T => i \in T
    BY <1>1, <1>3, <1>10
  <2> HIDE DEF T
  <2>3. \A i \in 0..top : i \in T
    BY <1>1, <2>1, <2>2, Turns
  <2> QED BY <1>1, <2>3 DEF T
<1> QED BY <1>1, <1>6, <1>11 DEF Stage, V, Holders

\* The rows that are not tombstones are the live ones.
LEMMA LiveFacts ==
    ASSUME IInv
    PROVE  /\ IsFiniteSet(Live(graph)) /\ Live(graph) \in SUBSET (1..Len(graph.nodes))
           /\ Cardinality(Live(graph)) = Len(graph.nodes) - deletedCount
           /\ Cardinality(Live(graph)) \in Nat /\ deletedCount \in Nat
           /\ \A n \in 1..Len(graph.nodes) : n \in Live(graph) <=> ~graph.nodes[n].dead
<1> DEFINE all == 1..Len(graph.nodes)
<1> DEFINE dead == Dead(graph.nodes)
<1>1. /\ IsGraph(graph) /\ Len(graph.nodes) \in Nat /\ DOMAIN graph.nodes = all
      /\ IsFiniteSet(all) /\ Cardinality(all) = Len(graph.nodes)
  BY GraphIsATable, GraphFacts, NodesAreFinite
<1>2. /\ \A n \in all : n \in Live(graph) <=> ~graph.nodes[n].dead
      /\ Live(graph) = all \ dead /\ dead \in SUBSET all
  BY <1>1 DEF Live, Dead
<1> HIDE DEF all, dead
<1>3. IsFiniteSet(dead) /\ Cardinality(dead) = deletedCount /\ deletedCount \in Nat
  <2>1. IsFiniteSet(dead) /\ Cardinality(dead) \in Nat
    BY <1>1, <1>2, FS_Subset, FS_CardinalityType
  <2> QED BY <2>1 DEF IInv, dead
<1>4. /\ IsFiniteSet(all \ dead) /\ Cardinality(all \ dead) \in Nat
      /\ Cardinality(all \ dead) = Cardinality(all) - Cardinality(dead)
  <2>1. all \cap dead = dead
    BY <1>2
  <2>2. /\ IsFiniteSet(all \ dead)
        /\ Cardinality(all \ dead) = Cardinality(all) - Cardinality(all \cap dead)
    BY <1>1, FS_Difference
  <2> QED BY <2>1, <2>2, FS_CardinalityType
<1> QED BY <1>1, <1>2, <1>3, <1>4 DEF all

\* As many times c as a is large.
LEMMA Divided ==
    ASSUME NEW a \in Nat, NEW c \in Nat \ {0}
    PROVE  /\ a \div c \in Nat
           /\ \A t \in Nat : c * t <= a => t <= a \div c
<1>1. a \div c \in Int /\ a % c \in 0..(c - 1) /\ a = c * (a \div c) + (a % c)
  OBVIOUS
<1>2. ASSUME NEW d \in Int, NEW r \in 0..(c - 1), a = c * d + r, NEW t \in Nat, c * t <= a
      PROVE  t <= d
  <2>1. c * (t - d) < c
    <3>1. c * (t - d) = c * t - c * d
      OBVIOUS
    <3> QED BY <1>2, <3>1
  <2>2. t - d >= 1 => c * (t - d) >= c
    OBVIOUS
  <2> QED BY <1>2, <2>1, <2>2
<1>3. \A t \in Nat : c * t <= a => t <= a \div c
  BY <1>1, <1>2
<1>4. c * 0 <= a
  OBVIOUS
<1> QED BY <1>1, <1>3, <1>4

\* The beam is never empty, and if it has room for the live rows it is widened
\* so far that it has room for all.
LEMMA BeamFacts ==
    ASSUME IInv, NEW k \in Nat \ {0}, Len(graph.nodes) # deletedCount
    PROVE  /\ Beam(k) \in Nat \ {0}
           /\ Cardinality(Live(graph)) <= EfSearch => Len(graph.nodes) <= Beam(k)
<1> DEFINE ef == IF EfSearch >= k THEN EfSearch ELSE k
<1> DEFINE total == Len(graph.nodes)
<1> DEFINE live == total - deletedCount
<1> DEFINE scaled == (ef * total) \div live
<1> DEFINE wide == IF scaled >= ef THEN scaled ELSE ef
<1>1. /\ total \in Nat /\ deletedCount \in Nat /\ live \in Nat \ {0}
      /\ Cardinality(Live(graph)) = live
  BY LiveFacts, GraphIsATable
<1>2. ef \in Nat \ {0} /\ EfSearch <= ef
  BY HnswAssumption
<1>3. Beam(k) = IF deletedCount = 0 THEN ef ELSE IF wide <= total THEN wide ELSE total
  BY <1>1 DEF Beam
<1> HIDE DEF ef, total, live, scaled, wide
<1>4. total # 0
  BY <1>1 DEF live
<1>5. scaled \in Nat /\ (live <= ef => total <= scaled)
  <2>1. ef * total \in Nat
    BY <1>1, <1>2
  <2>2. live <= ef => live * total <= ef * total
    BY <1>1, <1>2
  <2> DEFINE a == ef * total
  <2> HIDE DEF a
  <2>3. a \div live \in Nat /\ \A t \in Nat : live * t <= a => t <= a \div live
    BY <1>1, <2>1, Divided DEF a
  <2> QED BY <1>1, <2>2, <2>3 DEF a, scaled
<1>6. wide \in Nat \ {0} /\ (live <= ef => total <= wide)
  BY <1>1, <1>2, <1>5 DEF wide
<1>7. Beam(k) \in Nat \ {0}
  BY <1>1, <1>2, <1>3, <1>4, <1>6
<1>8. ASSUME live <= EfSearch
      PROVE  total <= Beam(k)
  <2>1. live <= ef
    BY <1>1, <1>2, <1>8, HnswAssumption
  <2>2. deletedCount = 0 => total = live
    BY <1>1 DEF live
  <2> QED BY <1>1, <1>2, <1>3, <1>6, <2>1, <2>2
<1> QED BY <1>1, <1>7, <1>8 DEF total
\* r names the first of the rows hits, k of them if there are so many.
IsTaken(r, hits, k) ==
    /\ DOMAIN r = 1..Len(r) /\ Len(r) = (IF Len(hits) <= k THEN Len(hits) ELSE k)
    /\ \A i \in 1..Len(r) : r[i] = graph.nodes[hits[i]].id

\* A search returns the nearest of the live rows that it came upon; if the beam has
\* room for all, it came upon all.
LEMMA SearchFacts ==
    ASSUME IInv, NEW q \in Nat, NEW k \in Nat \ {0},
           graph.entry # NoNode, Len(graph.nodes) # deletedCount
    PROVE  \E T \in SUBSET Live(graph) :
               /\ IsTaken(Search(q, k), Ascending(graph, q, T), k)
               /\ Len(graph.nodes) <= MaxLinks(0) + 1 /\ Cardinality(Live(graph)) <= EfSearch
                  => T = Live(graph)
<1> DEFINE from == Walked(graph, q)
<1> DEFINE N == Holders(graph, 0)
<1> DEFINE found == SearchLayer(graph, q, from, Beam(k), 0)
<1> DEFINE all == 1..Len(graph.nodes)
<1>1. /\ IsNetwork(graph) /\ IsAnchored(graph) /\ IsGraph(graph) /\ Len(graph.nodes) # 0
      /\ Len(graph.nodes) \in Nat
  <2>1. IsNetwork(graph) /\ IsAnchored(graph) /\ IsGraph(graph) /\ Len(graph.nodes) \in Nat
    BY GraphIsATable DEF IInv, IsGood
  <2> QED BY <2>1 DEF IsAnchored
<1>2. from \in N
  BY <1>1, WalkFacts
<1>3. N = all /\ IsLayer(graph, N, 0)
  <2>1. \A n \in all : 0 <= graph.nodes[n].level
    BY <1>1, GraphFacts
  <2>2. IsLayer(graph, N, 0)
    BY <1>1, HoldersAreALayer
  <2> QED BY <2>1, <2>2 DEF Holders
<1>4. /\ Beam(k) \in Nat \ {0}
      /\ Cardinality(Live(graph)) <= EfSearch => Len(graph.nodes) <= Beam(k)
  BY BeamFacts
<1> HIDE DEF from, N
<1>5. PICK S \in SUBSET N :
          /\ S # {} /\ found = Ascending(graph, q, S)
          /\ Cardinality(N) <= Beam(k) => Closed(graph, S, 0) /\ from \in S
  <2> DEFINE ef == Beam(k)
  <2> HIDE DEF ef
  <2>1. ef \in Nat \ {0} /\ IsLayer(graph, N, 0) /\ from \in N
    BY <1>2, <1>3, <1>4 DEF ef
  <2>2. \E S \in SUBSET N :
            /\ S # {} /\ SearchLayer(graph, q, from, ef, 0) = Ascending(graph, q, S)
            /\ Cardinality(N) <= ef => Closed(graph, S, 0) /\ from \in S
    BY <2>1, SearchLayerFacts
  <2> QED BY <2>2 DEF ef
<1>6. Lists(found, S, Order(graph, q, S))
  BY <1>1, <1>3, <1>5, AscendingFacts
<1> DEFINE T == {n \in S : ~graph.nodes[n].dead}
<1> DEFINE hits == Ascending(graph, q, T)
<1> DEFINE m == IF Len(hits) <= k THEN Len(hits) ELSE k
<1> DEFINE r == Search(q, k)
<1>7. ToSet(found) = S
  <2> HIDE DEF found
  <2>1. /\ DOMAIN found = 1..Len(found) /\ \A i \in 1..Len(found) : found[i] \in S
        /\ \A x \in S : \E i \in 1..Len(found) : found[i] = x
    BY <1>6 DEF Lists
  <2> QED BY <2>1 DEF ToSet
<1>8. r = [i \in 1..m |-> graph.nodes[hits[i]].id]
  <2>1. {n \in ToSet(found) : Counts(graph, n)} = T
    BY <1>7 DEF Counts
  <2>2. k # 0 /\ graph.entry # NoNode /\ Len(graph.nodes) # deletedCount
    OBVIOUS
  <2> DEFINE heard == Ascending(graph, q, {n \in ToSet(found) : Counts(graph, n)})
  <2>3. r = [i \in 1..(IF Len(heard) <= k THEN Len(heard) ELSE k) |-> graph.nodes[heard[i]].id]
    BY <2>2, Zenon DEF Search, Walked, from
  <2>4. heard = hits
    BY <2>1
  <2> HIDE DEF heard, hits, r
  <2> QED BY <2>3, <2>4
<1>9. T \in SUBSET Live(graph) /\ T \in SUBSET all
  BY <1>1, <1>3, LiveFacts
<1>10. Len(hits) \in Nat
  <2>1. Lists(hits, T, Order(graph, q, T))
    BY <1>1, <1>9, AscendingFacts
  <2> HIDE DEF hits, T
  <2> QED BY <2>1 DEF Lists
<1>11. IsTaken(r, hits, k)
  <2> HIDE DEF hits, r
  <2>1. m \in Nat /\ Len(r) = m /\ DOMAIN r = 1..m
    BY <1>8, <1>10
  <2> QED BY <1>8, <2>1 DEF IsTaken
<1>12. ASSUME Len(graph.nodes) <= MaxLinks(0) + 1, Cardinality(Live(graph)) <= EfSearch
       PROVE  T = Live(graph)
  <2>1. Cardinality(N) <= Beam(k)
    BY <1>1, <1>3, <1>4, <1>12, NodesAreFinite
  <2>2. IsConnected(graph)
    BY <1>12 DEF IInv, IsGood
  <2>3. S = all
    BY <1>3, <1>5, <2>1, <2>2 DEF IsConnected
  <2> QED BY <2>3, LiveFacts
<1> QED BY <1>9, <1>11, <1>12 DEF T, r, hits

\* What the nearest of the live rows say is in the index, in the right order; if no
\* live row was left out of account, nothing nearer is missing.
LEMMA TakenFacts ==
    ASSUME IInv, NEW q \in Nat, NEW k \in Nat \ {0}, NEW T \in SUBSET Live(graph),
           NEW r, IsTaken(r, Ascending(graph, q, T), k)
    PROVE  /\ Index!Legal(r, q, k)
           /\ T = Live(graph) => Index!Exact(r, q, k)
<1> DEFINE hits == Ascending(graph, q, T)
<1>1. /\ IsTable(graph.nodes) /\ IsGraph(graph) /\ Len(graph.nodes) \in Nat
      /\ T \in SUBSET (1..Len(graph.nodes))
      /\ \A n \in T : n \in 1..Len(graph.nodes) /\ ~graph.nodes[n].dead
  BY GraphIsATable, LiveFacts
<1>2. Lists(hits, T, Order(graph, q, T))
  BY <1>1, AscendingFacts
<1>3. DOMAIN r = 1..Len(r) /\ Len(r) = (IF Len(hits) <= k THEN Len(hits) ELSE k)
      /\ \A i \in 1..Len(r) : r[i] = graph.nodes[hits[i]].id
  BY DEF IsTaken
<1> HIDE DEF hits
<1>4. /\ Len(hits) \in Nat /\ \A i \in 1..Len(hits) : hits[i] \in T
      /\ \A x \in T : \E i \in 1..Len(hits) : hits[i] = x
      /\ \A i, j \in 1..Len(hits) : i < j => <<hits[i], hits[j]>> \in Order(graph, q, T)
      /\ \A i, j \in 1..Len(hits) : hits[i] = hits[j] => i = j
  BY <1>2 DEF Lists
<1>5. Len(r) \in Nat /\ Len(r) <= k /\ \A i \in 1..Len(r) : i \in 1..Len(hits)
  BY <1>3, <1>4
<1>6. ASSUME NEW n \in T
      PROVE  /\ graph.nodes[n].id \in Index!Held
             /\ Content[graph.nodes[n].id] = graph.nodes[n].at
  <2>1. Holds(graph.nodes, graph.nodes[n].id, graph.nodes[n].at)
    BY <1>1 DEF Holds
  <2>2. graph.nodes[n].id \in Ids
    BY <1>1, GraphFacts
  <2>3. Agrees(Content, graph.nodes)
    BY ContentFacts
  <2> QED BY <2>1, <2>2, <2>3 DEF Agrees, Index!Held
<1>7. \A n \in T : Index!Distance(q, Content[graph.nodes[n].id]) = Far(graph, q, n)
  BY <1>6 DEF Far
<1>8. ASSUME NEW i \in 1..Len(hits), NEW j \in 1..Len(hits), i < j
      PROVE  /\ graph.nodes[hits[i]].id # graph.nodes[hits[j]].id
             /\ Index!Distance(q, Content[graph.nodes[hits[i]].id])
                   <= Index!Distance(q, Content[graph.nodes[hits[j]].id])
  <2>1. hits[i] \in T /\ hits[j] \in T /\ hits[i] # hits[j]
    BY <1>4, <1>8
  <2>2. graph.nodes[hits[i]].id # graph.nodes[hits[j]].id
    BY <1>1, <2>1 DEF IsTable
  <2>3. Before(graph, q, hits[i], hits[j])
    BY <1>4, <1>8 DEF Order
  <2>4. Far(graph, q, hits[i]) \in Nat /\ Far(graph, q, hits[j]) \in Nat
    BY <1>1, <2>1, FarFacts
  <2>5. Far(graph, q, hits[i]) <= Far(graph, q, hits[j])
    BY <2>3, <2>4 DEF Before
  <2> QED BY <1>7, <2>1, <2>2, <2>5
<1>9. Index!Legal(r, q, k)
  <2>1. \A i \in 1..Len(r) : r[i] \in Index!Held
    BY <1>3, <1>4, <1>5, <1>6
  <2>2. ASSUME NEW i \in 1..Len(r), NEW j \in 1..Len(r), i < j
        PROVE  r[i] # r[j]
               /\ Index!Distance(q, Content[r[i]]) <= Index!Distance(q, Content[r[j]])
    BY <1>3, <1>5, <1>8, <2>2
  <2> QED BY <1>3, <1>5, <2>1, <2>2 DEF Index!Legal
<1>10. ASSUME T = Live(graph)
       PROVE  Index!Exact(r, q, k)
  <2>1. ASSUME NEW id \in Index!Held
        PROVE  \E i \in 1..Len(hits) : graph.nodes[hits[i]].id = id
    <3>1. id \in Ids /\ Content[id] # NoPlace
      BY <2>1 DEF Index!Held
    <3>2. Holds(graph.nodes, id, Content[id])
      BY <3>1, ContentFacts DEF Agrees
    <3>3. PICK n \in 1..Len(graph.nodes) : ~graph.nodes[n].dead /\ graph.nodes[n].id = id
      BY <3>2 DEF Holds
    <3>4. n \in T
      BY <1>10, <3>3, LiveFacts
    <3> QED BY <1>4, <3>3, <3>4
  <2>2. ASSUME Len(r) < k, NEW id \in Index!Held
        PROVE  id \in {r[i] : i \in DOMAIN r}
    <3>1. Len(r) = Len(hits)
      BY <1>3, <1>4, <2>2
    <3>2. PICK i \in 1..Len(hits) : graph.nodes[hits[i]].id = id
      BY <2>1
    <3> QED BY <1>3, <3>1, <3>2
  <2>3. ASSUME NEW id \in Index!Held \ {r[i] : i \in DOMAIN r}, NEW i \in DOMAIN r
        PROVE  Index!Distance(q, Content[r[i]]) <= Index!Distance(q, Content[id])
    <3>1. PICK j \in 1..Len(hits) : graph.nodes[hits[j]].id = id
      BY <2>1
    <3>2. j \notin 1..Len(r)
      BY <1>3, <2>3, <3>1
    <3>3. i \in 1..Len(hits) /\ i < j /\ r[i] = graph.nodes[hits[i]].id
      BY <1>3, <1>4, <1>5, <3>2
    <3> QED BY <1>8, <3>1, <3>3
  <2> QED BY <1>9, <2>2, <2>3 DEF Index!Exact
<1> QED BY <1>9, <1>10

\* Where nothing is asked for or nothing is alive, nothing is the right answer.
LEMMA NothingFacts ==
    ASSUME IInv, NEW q \in Nat, NEW k \in Nat,
           graph.entry = NoNode \/ k = 0 \/ Len(graph.nodes) = deletedCount
    PROVE  Index!Legal(Search(q, k), q, k) /\ Index!Exact(Search(q, k), q, k)
<1>1. Search(q, k) = <<>>
  BY Zenon DEF Search
<1> DEFINE r == Search(q, k)
<1>2. Len(r) = 0 /\ DOMAIN r = {}
  BY <1>1
<1> HIDE DEF r
<1>3. Index!Legal(r, q, k)
  BY <1>2 DEF Index!Legal
<1>4. ASSUME k # 0
      PROVE  Index!Held = {}
  <2>1. Live(graph) = {}
    <3>1. CASE graph.entry = NoNode
      <4>1. IsAnchored(graph)
        BY DEF IInv, IsGood
      <4>2. Len(graph.nodes) = 0
        BY <3>1, <4>1 DEF IsAnchored, NoNode
      <4> QED BY <4>2, LiveFacts
    <3>2. CASE Len(graph.nodes) = deletedCount
      <4>1. Cardinality(Live(graph)) = 0
        BY <3>2, LiveFacts
      <4> QED BY <4>1, LiveFacts, FS_EmptySet
    <3> QED BY <1>4, <3>1, <3>2
  <2>2. \A id \in Ids : ~Holds(graph.nodes, id, Content[id])
    BY <2>1, LiveFacts DEF Holds
  <2> QED BY <2>2, ContentFacts DEF Agrees, Index!Held
<1>5. Index!Exact(r, q, k)
  BY <1>2, <1>3, <1>4 DEF Index!Exact
<1> QED BY <1>3, <1>5 DEF r

\* Searches are right in every state.
LEMMA SearchesAreRight == IInv => SmallGraphsAreExact
<1> SUFFICES ASSUME IInv, NEW q \in Places, NEW k \in 0..3
             PROVE  /\ Index!Legal(Search(q, k), q, k)
                    /\ Len(graph.nodes) <= MaxLinks(0) + 1
                       /\ Cardinality(Live(graph)) <= EfSearch
                       => Index!Exact(Search(q, k), q, k)
  BY DEF SmallGraphsAreExact
<1>1. q \in Nat /\ k \in Nat
  <2>1. PICK id \in Ids : q \in PlacesOf[id]
    BY DEF Places
  <2> QED BY <2>1, HnswAssumption
<1>2. CASE graph.entry = NoNode \/ k = 0 \/ Len(graph.nodes) = deletedCount
  BY <1>1, <1>2, NothingFacts
<1>3. CASE ~(graph.entry = NoNode \/ k = 0 \/ Len(graph.nodes) = deletedCount)
  <2>1. k \in Nat \ {0} /\ graph.entry # NoNode /\ Len(graph.nodes) # deletedCount
    BY <1>1, <1>3
  <2>2. PICK T \in SUBSET Live(graph) :
            /\ IsTaken(Search(q, k), Ascending(graph, q, T), k)
            /\ Len(graph.nodes) <= MaxLinks(0) + 1 /\ Cardinality(Live(graph)) <= EfSearch
               => T = Live(graph)
    BY <1>1, <2>1, SearchFacts
  <2>3. /\ Index!Legal(Search(q, k), q, k)
        /\ T = Live(graph) => Index!Exact(Search(q, k), q, k)
    BY <1>1, <2>1, <2>2, TakenFacts
  <2> QED BY <2>2, <2>3
<1> QED BY <1>2, <1>3

\* A search returns records that are in the index, in the right order; and while no
\* list has to be pruned and the live rows fit the beam, it misses nothing nearer,
\* whatever tombstones lie in the way.
THEOREM SmallGraphsAlwaysExact == Spec => []SmallGraphsAreExact
BY Invariant, SearchesAreRight, PTL
=============================================================================
