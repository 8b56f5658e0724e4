------------------------------- MODULE GpuIvf -------------------------------
(***************************************************************************)
(* The inverted-file index of the GPU engine (IvfIndexState): rows without *)
(* gaps, a list for each row, the rows of each list, the row of each id,   *)
(* and centroids that are trained anew as the index grows and shrinks.     *)
(* Four containers say where a record is; an insert, a removal and a       *)
(* rebuild have to change them together.                                   *)
(*                                                                         *)
(* Vectors are places on a line and means are rounded down.  An index is   *)
(* trained as soon as it has a row.                                        *)
(***************************************************************************)
EXTENDS FiniteSetsExt, SequencesExt, Integers

CONSTANTS
    Ids,            \* numbers, in the order of the ids
    PlacesOf,       \* the places that the vector of an id may be at
    NoPlace,
    RequestedLists, \* requested_n_lists_
    NProbe,         \* nprobe_
    Iterations      \* of k-means

ASSUME GpuIvfAssumption ==
    /\ Ids \subseteq Nat
    /\ \A id \in Ids : PlacesOf[id] \subseteq Nat /\ NoPlace \notin PlacesOf[id]
    /\ {RequestedLists, NProbe, Iterations} \subseteq Nat \ {0}

Distance(p, q) == IF p >= q THEN p - q ELSE q - p
Greater(m, n) == IF m >= n THEN m ELSE n
Smaller(m, n) == IF m <= n THEN m ELSE n

-----------------------------------------------------------------------------
(* k-means. *)

\* The nearest centroid, the first one of equals.
Closest(at, centroids) ==
    CHOOSE l \in DOMAIN centroids : \A m \in DOMAIN centroids :
        LET d(n) == Distance(at, centroids[n]) IN d(l) < d(m) \/ (d(l) = d(m) /\ l <= m)

Assigned(rows, centroids) == [s \in DOMAIN rows |-> Closest(rows[s].at, centroids)]

\* A centroid goes to the mean of its rows, and one without any to some row.
Settled(rows, centroids) ==
    LET list == Assigned(rows, centroids)
        mine(l) == {s \in DOMAIN rows : list[s] = l}
    IN [l \in DOMAIN centroids |->
           IF mine(l) = {} THEN rows[((l - 1) % Len(rows)) + 1].at
           ELSE MapThenSumSet(LAMBDA s : rows[s].at, mine(l)) \div Cardinality(mine(l))]

\* They start at rows that are evenly apart.
TrainCentroids(rows, n) ==
    LET stride == Greater(1, Len(rows) \div n)
        after[i \in 0..Iterations] ==
            IF i = 0 THEN [l \in 1..n |-> rows[Smaller(Len(rows), (l - 1) * stride + 1)].at]
            ELSE Settled(rows, after[i - 1])
    IN after[Iterations]

-----------------------------------------------------------------------------
(* The index as a value, and what its operations make of it. *)

EmptyIvf == [rows |-> <<>>, list |-> <<>>, members |-> <<>>, centroids |-> <<>>,
             slot |-> [id \in Ids |-> 0]]

Row(id, at) == [id |-> id, at |-> at]

MembersOf(list, n) == [l \in 1..n |-> {s \in DOMAIN list : list[s] = l}]
SlotOf(rows) == [id \in Ids |-> Max({0} \union {s \in DOMAIN rows : rows[s].id = id})]

TargetLists(requested, available) == Greater(1, Smaller(requested, available))

Rebuild(rows, n) ==
    IF rows = <<>> THEN EmptyIvf
    ELSE LET centroids == TrainCentroids(rows, TargetLists(n, Len(rows)))
             list == Assigned(rows, centroids)
         IN [rows |-> rows, list |-> list, centroids |-> centroids,
             members |-> MembersOf(list, Len(centroids)), slot |-> SlotOf(rows)]

\* More lists are wanted now, and either all of them or twice as many rows are there.
Outgrown(s) ==
    LET target == TargetLists(RequestedLists, Len(s.rows)) active == Len(s.centroids) IN
    /\ target > active
    /\ target = RequestedLists \/ Len(s.rows) >= 2 * active

Retrained(s) == IF Outgrown(s) THEN Rebuild(s.rows, RequestedLists) ELSE s

\* Mutant: the list of the row that was moved keeps its old number.
MoveLastRow(s, hole) ==
    LET last == Len(s.rows) IN
    IF hole = last THEN s
    ELSE [s EXCEPT !.rows[hole] = s.rows[last], !.slot[s.rows[last].id] = hole,
                   !.list[hole] = s.list[last]]

\* The last row fills the hole.
FillHole(s, hole) ==
    LET last == Len(s.rows) IN
    IF hole = last THEN s
    ELSE [s EXCEPT !.rows[hole] = s.rows[last], !.slot[s.rows[last].id] = hole,
                   !.list[hole] = s.list[last],
                   !.members[s.list[last]] = (@ \ {last}) \union {hole}]

Removed(s, id) ==
    LET hole == s.slot[id]
        filled == FillHole([s EXCEPT !.members[s.list[hole]] = @ \ {hole}], hole)
        left == [filled EXCEPT !.rows = Front(@), !.list = Front(@), !.slot[id] = 0]
    IN IF hole = 0 THEN s
       ELSE IF left.rows = <<>> THEN EmptyIvf
       ELSE IF Len(left.centroids) > Len(left.rows) THEN Rebuild(left.rows, Len(left.rows))
       ELSE left

Inserted(s, id, at) ==
    LET t == Removed(s, id)
        rows == Append(t.rows, Row(id, at))
        l == Closest(at, t.centroids)
    IN IF t.rows = <<>> THEN Rebuild(rows, RequestedLists)
       ELSE Retrained([t EXCEPT !.rows = rows, !.slot[id] = Len(rows),
                                !.list = Append(@, l), !.members[l] = @ \union {Len(rows)}])

\* A snapshot that carries lists is taken as it is, cut to as many as there are rows.
Imported(snapshot) ==
    LET n == TargetLists(Len(snapshot.centroids), Len(snapshot.rows)) IN
    [rows |-> snapshot.rows, list |-> snapshot.list,
     centroids |-> SubSeq(snapshot.centroids, 1, n),
     members |-> MembersOf(snapshot.list, n), slot |-> SlotOf(snapshot.rows)]

Exported(s) == [rows |-> s.rows, list |-> s.list, centroids |-> s.centroids]

-----------------------------------------------------------------------------
(* Search *)

\* The lists whose centroids are nearest.
Probed(s, q) ==
    LET d(l) == Distance(q, s.centroids[l])
        before(l) == {m \in DOMAIN s.centroids : d(m) < d(l) \/ (d(m) = d(l) /\ m < l)}
    IN {l \in DOMAIN s.centroids : Cardinality(before(l)) < NProbe}

Candidates(s, q) == {s.rows[slot] : slot \in UNION {s.members[l] : l \in Probed(s, q)}}

\* The k nearest of some rows, as a list of ids.
Ranked(q, k, rows) ==
    LET closer(r, t) ==
            \/ Distance(q, r.at) < Distance(q, t.at)
            \/ Distance(q, r.at) = Distance(q, t.at) /\ r.id < t.id
        nth(i) == CHOOSE r \in rows : Cardinality({t \in rows : closer(t, r)}) = i - 1
    IN [i \in 1..Smaller(k, Cardinality(rows)) |-> nth(i).id]

\* A kernel that fails makes an empty answer.
GpuHits(s, q, k, device) ==
    IF device /\ s.rows # <<>> THEN Ranked(q, k, Candidates(s, q)) ELSE <<>>
=============================================================================
