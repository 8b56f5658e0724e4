----------------------------- MODULE Collection -----------------------------
(***************************************************************************)
(* One Collection: the record store, the vector index and the metadata     *)
(* index that every write has to change together, the codebook that        *)
(* replaces vectors by codes, and seek, which chooses between them.        *)
(*                                                                         *)
(* Writes hold the lock of the collection and queries share it, so each is *)
(* one step.  The vector index is what VectorIndex says of it.  Vectors    *)
(* are places on a line; training replaces a place by the nearest one that *)
(* the codebook has.                                                       *)
(***************************************************************************)
EXTENDS Metadata

CONSTANTS
    Ids,            \* numbers, in the order of the ids
    PlacesOf,       \* the places that the vector of a record may be at
    NoPlace,
    Payloads,
    Coded,          \* what the codebook makes of a place
    NoRecord,
    NoThreshold,
    SmallCollection,                    \* 128 in the code
    CandidateFactor, CandidateFloor,    \* 8 and 128
    FetchFactor, FetchFloor, Widening   \* 20, 64 and 4

Places == UNION {PlacesOf[id] : id \in Ids}

\* What is decoded from a code is encoded to the same code.
ASSUME CollectionAssumption ==
    /\ DOMAIN PlacesOf = Ids
    /\ \A id \in Ids : PlacesOf[id] \subseteq Nat /\ NoPlace \notin PlacesOf[id]
    /\ Ids \subseteq Nat /\ IsFiniteSet(Ids)
    /\ Coded \in [Places -> Places]
    /\ \A p \in Places : Coded[Coded[p]] = Coded[p]
    /\ {SmallCollection, CandidateFactor, CandidateFloor, FetchFactor, FetchFloor} \subseteq Nat
    /\ Widening \in Nat \ {0, 1}

VARIABLE
    collection  \* records_, exact_ of metadata_index_, what index_ holds, and of
                \* config_ the codebook (is there one) and metadata_acceleration

Index == INSTANCE VectorIndex WITH content <- collection.index

Larger(m, n) == IF m >= n THEN m ELSE n
Smaller(m, n) == IF m <= n THEN m ELSE n

-----------------------------------------------------------------------------
(* Writes, as functions of the collection. *)

Entries(c, id, payload) == IF c.accelerated THEN Postings(id, payload) ELSE {}

\* With a codebook there are codes in records and index; else there are vectors.
Stored(c, at) == IF c.trained THEN Coded[at] ELSE at

\* Mutant: an old version of the record is left in the metadata index.
KeepPostings(c, id) ==
    IF c.records[id] = NoRecord THEN c ELSE [c EXCEPT !.index[id] = NoPlace]

\* What a record leaves in both indexes is taken out.
Unindexed(c, id) ==
    IF c.records[id] = NoRecord THEN c
    ELSE [c EXCEPT !.exact = @ \ Entries(c, id, c.records[id].payload),
                   !.index[id] = NoPlace]

\* The record is put into the store and both indexes.
With(c, id, record) ==
    [Unindexed(c, id) EXCEPT !.index[id] = record.at,
                             !.exact = @ \union Entries(c, id, record.payload),
                             !.records[id] = record]

\* add(), and place_record() of a record that has no code.
Placed(c, id, at, payload) ==
    With(c, id, [at |-> Stored(c, at), payload |-> payload, coded |-> c.trained])

Erased(c, id) == [Unindexed(c, id) EXCEPT !.records[id] = NoRecord]

\* Mutant: a record is brought back as it is read, without its code.
RestoredDecoded(c, id, previous) ==
    IF previous = NoRecord THEN Erased(c, id)
    ELSE With(c, id, [previous EXCEPT !.coded = FALSE])

Restored(c, id, previous) ==
    IF previous = NoRecord THEN Erased(c, id) ELSE With(c, id, previous)

Present(c) == {id \in Ids : c.records[id] # NoRecord}

Rebuilt(c) ==
    [c EXCEPT
        !.index = [id \in Ids |-> IF id \in Present(c) THEN Stored(c, c.records[id].at) ELSE NoPlace],
        !.exact = UNION {Entries(c, id, c.records[id].payload) : id \in Present(c)}]

\* Every record is encoded before the indexes are made anew.
Trained(c) ==
    Rebuilt([c EXCEPT
        !.trained = TRUE,
        !.records = [id \in Ids |->
            IF id \in Present(c)
            THEN [c.records[id] EXCEPT !.at = Coded[@], !.coded = TRUE] ELSE NoRecord]])

EmptyCollection(accelerated) ==
    [records |-> [id \in Ids |-> NoRecord], exact |-> {}, index |-> [id \in Ids |-> NoPlace],
     trained |-> FALSE, accelerated |-> accelerated]

\* A record with a code is stored as it is, any other one is placed.
Loaded(c, id, record) ==
    IF record.coded THEN With(c, id, record) ELSE Placed(c, id, record.at, record.payload)

\* What open() makes of the snapshot of c: the codebook first, then the records in
\* the order of their ids.
Reopened(c) ==
    MapThenFoldSet(LAMBDA id, d : Loaded(d, id, c.records[id]),
                   [EmptyCollection(c.accelerated) EXCEPT !.trained = c.trained],
                   LAMBDA id : id, Max, Present(c))

-----------------------------------------------------------------------------
(* Queries *)

\* The n of S that are nearest, nearest first.  Equals are in the order of their
\* ids here; the code leaves that to its sorts.
Nearest(at, q, S, n) ==
    LET far(id) == Index!Distance(q, at[id])
        before(m, k) == far(m) < far(k) \/ (far(m) = far(k) /\ m < k)
        nth(r) == CHOOSE id \in S : Cardinality({m \in S : before(m, id)}) = r - 1
    IN [r \in 1..Smaller(n, Cardinality(S)) |-> nth(r)]

PlaceOf(c) == [id \in Present(c) |-> c.records[id].at]

\* The records that a query is about.
Admitted(c, q, f, threshold) ==
    {id \in Present(c) :
        /\ Matches(f, c.records[id].payload)
        /\ threshold = NoThreshold \/ Index!Distance(q, c.records[id].at) <= threshold}

Size(c) == Cardinality(Present(c))

PreferFullScan(c, top, threshold) ==
    \/ threshold # NoThreshold
    \/ Size(c) <= SmallCollection
    \/ top >= Larger(Size(c) \div 2, 1)

CandidatesOf(c, f) ==
    IF c.accelerated /\ f # Everything THEN ExactCandidates(c.exact, f) ELSE NoConstraints

\* plan_seek, without a text.
Strategy(c, top, f, threshold) ==
    LET candidates == CandidatesOf(c, f) IN
    IF /\ candidates # NoConstraints
       /\ \/ Cardinality(candidates) <= Larger(top * CandidateFactor, CandidateFloor)
          \/ PreferFullScan(c, top, threshold)
    THEN "exact_candidates"
    ELSE IF PreferFullScan(c, top, threshold) THEN "full_scan" ELSE "ann_index"

\* Without a filter as many hits as are wanted, with one some more.
FirstFetch(c, top, f, threshold) ==
    IF threshold # NoThreshold THEN Size(c)
    ELSE IF f # Everything THEN Smaller(Size(c), Larger(top * FetchFactor, FetchFloor))
    ELSE top

\* Mutant: the index is asked only once.
AskOnce(c, top, fetch, hits, kept) == TRUE

Satisfied(c, top, fetch, hits, kept) ==
    \/ Len(kept) >= top
    \/ fetch >= Size(c) \/ Len(hits) < fetch

\* The hits that a query admits, in their order.
Kept(hits, admitted) ==
    FoldLeft(LAMBDA list, id : IF id \in admitted THEN Append(list, id) ELSE list, <<>>, hits)

\* The index finds the records of reach only; it is asked for more and more hits.
Probe(c, q, top, f, threshold, reach) ==
    LET probe[fetch \in 1..Size(c)] ==
            LET hits == Nearest(c.index, q, reach, fetch)
                kept == Kept(hits, Admitted(c, q, f, threshold))
            IN IF Satisfied(c, top, fetch, hits, kept)
               THEN SubSeq(kept, 1, Smaller(top, Len(kept)))
               ELSE probe[Smaller(Size(c), fetch * Widening)]
    IN probe[Larger(FirstFetch(c, top, f, threshold), 1)]

Seek(c, q, top, f, threshold, reach) ==
    IF top = 0 \/ Present(c) = {} THEN <<>>
    ELSE LET strategy == Strategy(c, top, f, threshold)
             admitted == Admitted(c, q, f, threshold)
         IN IF strategy = "exact_candidates"
            THEN Nearest(PlaceOf(c), q, admitted \intersect CandidatesOf(c, f), top)
            ELSE IF strategy = "full_scan" THEN Nearest(PlaceOf(c), q, admitted, top)
            ELSE Probe(c, q, top, f, threshold, reach)

-----------------------------------------------------------------------------
Init == \E accelerated \in BOOLEAN : collection = EmptyCollection(accelerated)

Add(id, at, payload) == collection' = Placed(collection, id, at, payload)

RemoveId(id) == id \in Present(collection) /\ collection' = Erased(collection, id)

Train ==
    /\ ~collection.trained
    /\ Present(collection) # {}
    /\ collection' = Trained(collection)

RebuildIndex == collection' = Rebuilt(collection)

Reopen == collection' = Reopened(collection)

Next ==
    \/ \E id \in Ids : RemoveId(id) \/ \E at \in PlacesOf[id], p \in Payloads : Add(id, at, p)
    \/ Train \/ RebuildIndex \/ Reopen

Spec == Init /\ [][Next]_collection
-----------------------------------------------------------------------------
(* Properties. *)

RecordType == UNION {[at : Places, payload : Payloads, coded : {flag}] : flag \in BOOLEAN}

ASSUME NoRecordAssumption == NoRecord \notin RecordType

TypeOK ==
    /\ \A id \in Present(collection) : collection.records[id] \in RecordType
    /\ DOMAIN collection.records = Ids
    /\ collection.index \in [Ids -> Places \union {NoPlace}]
    /\ collection.trained \in BOOLEAN /\ collection.accelerated \in BOOLEAN

\* The record store, the vector index and the metadata index hold the same records:
\* the index has the place that the store would be scored by, the metadata index
\* the values of the present payloads and of no older one, and with a codebook no
\* record is left without a code.
ContainersAgree ==
    LET c == collection IN
    /\ TypeOK
    /\ Index!Held = Present(c)
    /\ \A id \in Present(c) :
          c.index[id] = c.records[id].at /\ c.records[id].coded = c.trained
    /\ c.exact = UNION {Entries(c, id, c.records[id].payload) : id \in Present(c)}

\* A write that is undone, a checkpoint followed by a restart, and a rebuild of
\* the indexes each bring back the collection as it was, codes included.
NothingChangesOnTheWay ==
    LET c == collection IN
    /\ Reopened(c) = c
    /\ Rebuilt(c) = c
    /\ \A id \in Ids :
          /\ Restored(Erased(c, id), id, c.records[id]) = c
          /\ \A at \in PlacesOf[id], p \in Payloads :
                Restored(Placed(c, id, at, p), id, c.records[id]) = c

Filters == Nodes \union {Everything}

\* Records that satisfy an equality of f with a value that is encoded otherwise.
EncodedApart(c, f) ==
    LET constraints == ExactConstraints(f)
        equal(id, con) == {w \in con[2] : Satisfies("eq", c.records[id].payload[con[1]], w)}
    IN IF constraints = NoConstraints THEN {}
       ELSE {id \in Present(c) : \E con \in constraints :
                /\ con[1] \in DOMAIN c.records[id].payload
                /\ equal(id, con) # {}
                /\ \A w \in con[2] :
                      EncodeValue(w) # EncodeValue(c.records[id].payload[con[1]])}

\* Records that the index may fail to find: none, or any one of them.
Reaches(c) == {Present(c)} \union {Present(c) \ {id} : id \in Present(c)}

\* Whichever way seek takes, it answers with the nearest of the records that pass
\* the filter and the threshold, as many as were asked for if there are so many.
\* It passes over those that the index does not find, on the way through the
\* index, and those whose value is encoded otherwise, on the way through the
\* metadata index.
SeekIsExact ==
    LET c == collection IN
    \A q \in Places, top \in 0..2, f \in Filters, threshold \in {NoThreshold, 3} :
        LET admitted == Admitted(c, q, f, threshold)
            strategy == Strategy(c, top, f, threshold)
            due(reach) == IF strategy = "ann_index" THEN admitted \intersect reach
                          ELSE IF strategy = "full_scan" THEN admitted
                          ELSE admitted \ EncodedApart(c, f)
        IN \A reach \in IF strategy = "ann_index" THEN Reaches(c) ELSE {Present(c)} :
              Seek(c, q, top, f, threshold, reach) = Nearest(PlaceOf(c), q, due(reach), top)
=============================================================================
