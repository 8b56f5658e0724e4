--------------------------- MODULE TrainingProofs ---------------------------
(***************************************************************************)
(* The record store and the two indexes of a collection agree after any    *)
(* history, a search finds the nearest records whichever way it goes, and  *)
(* no step of a training, wherever it is interrupted, makes the disk       *)
(* unreadable or loses what the client has: for any ids, places, payloads  *)
(* and filters, and any codebook that decodes to what it encodes.          *)
(***************************************************************************)
EXTENDS Training, FiniteSetTheorems, WellFoundedInduction, TLAPS

\* The records that a store without (t = FALSE) or with a codebook may hold: what
\* was encoded is encoded to itself.
Rows(t) == {r \in RecordType : r.coded = t /\ (t => Coded[r.at] = r.at)}

Stores(t) == [Ids -> Rows(t) \union {NoRecord}]
AnyStore == [Ids -> RecordType \union {NoRecord}]

\* The values that the records of R have in the metadata index.
PostingsOf(R, a) ==
    UNION {IF a THEN Postings(id, R[id].payload) ELSE {} : id \in {i \in Ids : R[i] # NoRecord}}

\* The collection whose containers agree on the records of R.
Made(R, t, a) ==
    [records |-> R, exact |-> PostingsOf(R, a),
     index |-> [id \in Ids |-> IF R[id] = NoRecord THEN NoPlace ELSE R[id].at],
     trained |-> t, accelerated |-> a]

-----------------------------------------------------------------------------
(* Writes keep the containers in step. *)

LEMMA RecordFacts ==
    /\ \A t \in BOOLEAN : Stores(t) \subseteq AnyStore
    /\ \A r \in RecordType :
          /\ r = [at |-> r.at, payload |-> r.payload, coded |-> r.coded]
          /\ r # NoRecord /\ r.at \in Places /\ r.payload \in Payloads /\ r.coded \in BOOLEAN
    /\ \A p \in Places, l \in Payloads, t \in BOOLEAN :
          [at |-> p, payload |-> l, coded |-> t] \in RecordType
    /\ NoPlace \notin Places
<1>1. RecordType = [at : Places, payload : Payloads, coded : BOOLEAN]
  <2>1. ASSUME NEW r \in RecordType
        PROVE  r \in [at : Places, payload : Payloads, coded : BOOLEAN]
    <3>1. PICK flag \in BOOLEAN : r \in [at : Places, payload : Payloads, coded : {flag}]
      BY <2>1 DEF RecordType
    <3> QED BY <3>1
  <2>2. ASSUME NEW r \in [at : Places, payload : Payloads, coded : BOOLEAN]
        PROVE  r \in RecordType
    <3>1. r \in [at : Places, payload : Payloads, coded : {r.coded}] /\ r.coded \in BOOLEAN
      BY <2>2
    <3> QED BY <3>1 DEF RecordType
  <2> QED BY <2>1, <2>2
<1>2. NoPlace \notin Places
  BY CollectionAssumption DEF Places
<1>3. \A r \in RecordType : r # NoRecord
  BY NoRecordAssumption
<1>4. \A t \in BOOLEAN : Stores(t) \subseteq AnyStore
  BY DEF Stores, AnyStore, Rows
<1> QED BY <1>1, <1>2, <1>3, <1>4

\* The postings of a record carry its id.
LEMMA PostingFacts ==
    ASSUME NEW R, NEW a, NEW p
    PROVE  p \in PostingsOf(R, a) <=>
               /\ a
               /\ \E id \in Ids : /\ R[id] # NoRecord /\ p[3] = id
                                  /\ p \in Postings(id, R[id].payload)
<1>1. \A id, payload : p \in Postings(id, payload) => p[3] = id
  BY DEF Postings
<1>2. p \in PostingsOf(R, a) <=>
         \E id \in Ids : R[id] # NoRecord /\ p \in (IF a THEN Postings(id, R[id].payload) ELSE {})
  BY DEF PostingsOf
<1> QED BY <1>1, <1>2

\* What Unindexed leaves, whether or not the record was there.
LEMMA UnindexedMade ==
    ASSUME NEW t, NEW a, NEW R \in AnyStore, NEW id \in Ids
    PROVE  Unindexed(Made(R, t, a), id) =
               [records |-> R,
                exact |-> PostingsOf([R EXCEPT ![id] = NoRecord], a),
                index |-> [i \in Ids |-> IF i = id \/ R[i] = NoRecord THEN NoPlace ELSE R[i].at],
                trained |-> t, accelerated |-> a]
<1> DEFINE c == Made(R, t, a)
<1> DEFINE S == [R EXCEPT ![id] = NoRecord]
<1>0. S \in AnyStore /\ S[id] = NoRecord /\ \A i \in Ids \ {id} : S[i] = R[i]
  BY DEF AnyStore
<1>1. CASE R[id] = NoRecord
  <2>1. S = R
    BY <1>1 DEF AnyStore
  <2>2. Unindexed(c, id) = c
    BY <1>1 DEF Unindexed, Made
  <2> QED BY <1>1, <2>1, <2>2 DEF Made
<1>2. CASE R[id] # NoRecord
  <2>1. Unindexed(c, id) = [c EXCEPT !.exact = @ \ Entries(c, id, R[id].payload), !.index[id] = NoPlace]
    BY <1>2 DEF Unindexed, Made
  <2>2. c.exact \ Entries(c, id, R[id].payload) = PostingsOf(S, a)
    <3> HIDE DEF S
    <3>1. c.exact = PostingsOf(R, a) /\ Entries(c, id, R[id].payload) = IF a THEN Postings(id, R[id].payload) ELSE {}
      BY DEF Made, Entries
    <3>2. ASSUME NEW p
          PROVE  p \in PostingsOf(R, a) \ (IF a THEN Postings(id, R[id].payload) ELSE {})
                     <=> p \in PostingsOf(S, a)
      <4>1. p \in PostingsOf(R, a) <=>
               a /\ \E i \in Ids : R[i] # NoRecord /\ p[3] = i /\ p \in Postings(i, R[i].payload)
        BY PostingFacts
      <4>2. p \in PostingsOf(S, a) <=>
               a /\ \E i \in Ids : S[i] # NoRecord /\ p[3] = i /\ p \in Postings(i, S[i].payload)
        BY PostingFacts
      <4>3. p \in Postings(id, R[id].payload) => p[3] = id
        BY DEF Postings
      <4> QED BY <4>1, <4>2, <4>3, <1>0
    <3> QED BY <3>1, <3>2
  <2>3. [c.index EXCEPT ![id] = NoPlace] =
            [i \in Ids |-> IF i = id \/ R[i] = NoRecord THEN NoPlace ELSE R[i].at]
    BY DEF Made
  <2> QED BY <2>1, <2>2, <2>3 DEF Made
<1> QED BY <1>1, <1>2

Put(R, id, row) == [R EXCEPT ![id] = row]

\* Several fields of a collection are changed one after the other.
Fields(R, exact, index, t, a) ==
    [records |-> R, exact |-> exact, index |-> index, trained |-> t, accelerated |-> a]

Indexed(c, id, row, place, more) ==
    [c EXCEPT !.index[id] = place, !.exact = @ \union more, !.records[id] = row]
Emptied(c, id) == [c EXCEPT !.records[id] = NoRecord]
Reindexed(c, index, exact) == [c EXCEPT !.index = index, !.exact = exact]
Recoded(c, t, R) == [c EXCEPT !.trained = t, !.records = R]

LEMMA EmptiedFields ==
    ASSUME NEW R, NEW exact, NEW index, NEW t, NEW a, NEW id
    PROVE  Emptied(Fields(R, exact, index, t, a), id)
               = Fields([R EXCEPT ![id] = NoRecord], exact, index, t, a)
BY DEF Fields, Emptied

LEMMA ReindexedFields ==
    ASSUME NEW R, NEW exact, NEW index, NEW t, NEW a, NEW x, NEW y
    PROVE  Reindexed(Fields(R, exact, index, t, a), x, y) = Fields(R, y, x, t, a)
<1> DEFINE c == Fields(R, exact, index, t, a)
<1> DEFINE d == [c EXCEPT !.index = x]
<1>1. d = Fields(R, exact, x, t, a)
  BY DEF Fields
<1>2. [d EXCEPT !.exact = y] = Fields(R, y, x, t, a)
  <2> HIDE DEF d
  <2> QED BY <1>1 DEF Fields
<1>3. [d EXCEPT !.exact = y] = Reindexed(c, x, y)
  <2> HIDE DEF c
  <2> QED BY DEF Reindexed
<1> QED BY <1>2, <1>3

LEMMA RecodedFields ==
    ASSUME NEW R, NEW exact, NEW index, NEW t, NEW a, NEW f, NEW x
    PROVE  Recoded(Fields(R, exact, index, t, a), f, x) = Fields(x, exact, index, f, a)
<1> DEFINE c == Fields(R, exact, index, t, a)
<1> DEFINE d == [c EXCEPT !.trained = f]
<1>1. d = Fields(R, exact, index, f, a)
  BY DEF Fields
<1>2. [d EXCEPT !.records = x] = Fields(x, exact, index, f, a)
  <2> HIDE DEF d
  <2> QED BY <1>1 DEF Fields
<1>3. [d EXCEPT !.records = x] = Recoded(c, f, x)
  <2> HIDE DEF c
  <2> QED BY DEF Recoded
<1> QED BY <1>2, <1>3

LEMMA IndexedFields ==
    ASSUME NEW R, NEW exact, NEW index, NEW t, NEW a, NEW id, NEW row, NEW place, NEW more
    PROVE  Indexed(Fields(R, exact, index, t, a), id, row, place, more)
               = Fields([R EXCEPT ![id] = row], exact \union more, [index EXCEPT ![id] = place], t, a)
<1> DEFINE c == Fields(R, exact, index, t, a)
<1> DEFINE places == [index EXCEPT ![id] = place]
<1> DEFINE S == [R EXCEPT ![id] = row]
<1> DEFINE d == Reindexed(c, places, exact \union more)
<1>1. d = Fields(R, exact \union more, places, t, a)
  BY ReindexedFields
<1>2. [d EXCEPT !.records = S] = Fields(S, exact \union more, places, t, a)
  <2> HIDE DEF d, places, S
  <2> QED BY <1>1 DEF Fields
<1>3. c.index = index /\ c.exact = exact /\ c.records = R
  BY DEF Fields
<1>4. [d EXCEPT !.records = S] = Indexed(c, id, row, place, more)
  <2> HIDE DEF c
  <2> QED BY <1>3 DEF Indexed, Reindexed
<1> QED BY <1>2, <1>4

\* A record is put into the store, whatever was there.
LEMMA WithMade ==
    ASSUME NEW t, NEW a, NEW R \in AnyStore, NEW id \in Ids, NEW r \in RecordType
    PROVE  With(Made(R, t, a), id, r) = Made(Put(R, id, r), t, a)
<1> DEFINE c == Made(R, t, a)
<1> DEFINE S == [R EXCEPT ![id] = NoRecord]
<1> DEFINE T == [R EXCEPT ![id] = r]
<1> DEFINE index == [i \in Ids |-> IF i = id \/ R[i] = NoRecord THEN NoPlace ELSE R[i].at]
<1>0. /\ T \in AnyStore /\ T[id] = r /\ r # NoRecord /\ \A i \in Ids \ {id} : T[i] = R[i]
      /\ S[id] = NoRecord /\ \A i \in Ids \ {id} : S[i] = R[i]
  BY RecordFacts DEF AnyStore
<1>1. Unindexed(c, id) =
          [records |-> R, exact |-> PostingsOf(S, a), index |-> index,
           trained |-> t, accelerated |-> a]
  BY UnindexedMade
<1>2. Entries(c, id, r.payload) = IF a THEN Postings(id, r.payload) ELSE {}
  BY DEF Entries, Made
<1>3. PostingsOf(S, a) \union (IF a THEN Postings(id, r.payload) ELSE {}) = PostingsOf(T, a)
  <2> HIDE DEF S, T
  <2>1. ASSUME NEW p
        PROVE  p \in PostingsOf(S, a) \union (IF a THEN Postings(id, r.payload) ELSE {})
                   <=> p \in PostingsOf(T, a)
    <3>1. p \in PostingsOf(S, a) <=>
             a /\ \E i \in Ids : S[i] # NoRecord /\ p[3] = i /\ p \in Postings(i, S[i].payload)
      BY PostingFacts
    <3>2. p \in PostingsOf(T, a) <=>
             a /\ \E i \in Ids : T[i] # NoRecord /\ p[3] = i /\ p \in Postings(i, T[i].payload)
      BY PostingFacts
    <3>3. p \in Postings(id, r.payload) => p[3] = id
      BY DEF Postings
    <3> QED BY <3>1, <3>2, <3>3, <1>0
  <2> QED BY <2>1
<1>4. [index EXCEPT ![id] = r.at] = [i \in Ids |-> IF T[i] = NoRecord THEN NoPlace ELSE T[i].at]
  BY <1>0
<1> HIDE DEF S, T, index, c
<1>5. With(c, id, r) = Indexed(Unindexed(c, id), id, r, r.at, Entries(c, id, r.payload))
  BY DEF With, Indexed
<1>6. Unindexed(c, id) = Fields(R, PostingsOf(S, a), index, t, a)
  BY <1>1 DEF Fields
<1>7. With(c, id, r) =
          Fields([R EXCEPT ![id] = r], PostingsOf(S, a) \union Entries(c, id, r.payload),
                 [index EXCEPT ![id] = r.at], t, a)
  BY <1>5, <1>6, IndexedFields
<1> QED BY <1>2, <1>3, <1>4, <1>7 DEF Made, Fields, c, T, Put

\* A record is taken out, or was not there.
LEMMA ErasedMade ==
    ASSUME NEW t, NEW a, NEW R \in AnyStore, NEW id \in Ids
    PROVE  Erased(Made(R, t, a), id) = Made(Put(R, id, NoRecord), t, a)
<1> DEFINE S == [R EXCEPT ![id] = NoRecord]
<1>1. [i \in Ids |-> IF i = id \/ R[i] = NoRecord THEN NoPlace ELSE R[i].at] =
          [i \in Ids |-> IF S[i] = NoRecord THEN NoPlace ELSE S[i].at]
  BY DEF AnyStore
<1>2. Erased(Made(R, t, a), id) = Emptied(Unindexed(Made(R, t, a), id), id)
  BY DEF Erased, Emptied
<1> DEFINE places == [i \in Ids |-> IF i = id \/ R[i] = NoRecord THEN NoPlace ELSE R[i].at]
<1> HIDE DEF S, places
<1>3. Unindexed(Made(R, t, a), id) = Fields(R, PostingsOf(S, a), places, t, a)
  BY UnindexedMade DEF S, places, Fields
<1>4. Erased(Made(R, t, a), id) = Fields(S, PostingsOf(S, a), places, t, a)
  BY <1>2, <1>3, EmptiedFields DEF S
<1> QED BY <1>1, <1>4 DEF Made, S, places, Fields, Put

\* What add() leaves in the store.
Row(t, at, payload) ==
    [at |-> IF t THEN Coded[at] ELSE at, payload |-> payload, coded |-> t]

LEMMA RowFacts ==
    ASSUME NEW t \in BOOLEAN, NEW at \in Places, NEW payload \in Payloads
    PROVE  Row(t, at, payload) \in Rows(t) /\ Row(t, at, payload) \in RecordType
<1>1. Coded[at] \in Places /\ Coded[Coded[at]] = Coded[at]
  BY CollectionAssumption
<1>2. Row(t, at, payload) \in RecordType
  BY <1>1, RecordFacts DEF Row
<1> QED BY <1>1, <1>2 DEF Row, Rows

LEMMA PlacedMade ==
    ASSUME NEW t \in BOOLEAN, NEW a, NEW R \in AnyStore, NEW id \in Ids,
           NEW at \in Places, NEW payload \in Payloads
    PROVE  Placed(Made(R, t, a), id, at, payload) = Made(Put(R, id, Row(t, at, payload)), t, a)
<1>1. Placed(Made(R, t, a), id, at, payload) = With(Made(R, t, a), id, Row(t, at, payload))
  BY DEF Placed, Stored, Made, Row
<1> QED BY <1>1, WithMade, RowFacts

\* A record of the kind that the store holds goes in as it is: a code because it is
\* stored, a vector because it is placed.
LEMMA LoadedMade ==
    ASSUME NEW t \in BOOLEAN, NEW a, NEW R \in AnyStore, NEW id \in Ids, NEW r \in Rows(t)
    PROVE  Loaded(Made(R, t, a), id, r) = Made(Put(R, id, r), t, a)
<1>1. r \in RecordType /\ r.coded = t
  BY DEF Rows
<1>2. CASE t
  <2>1. Loaded(Made(R, t, a), id, r) = With(Made(R, t, a), id, r)
    BY <1>1, <1>2 DEF Loaded
  <2> QED BY <1>1, <2>1, WithMade
<1>3. CASE ~t
  <2>1. Loaded(Made(R, t, a), id, r) = Placed(Made(R, t, a), id, r.at, r.payload)
    BY <1>1, <1>3 DEF Loaded
  <2>2. Row(t, r.at, r.payload) = r
    BY <1>1, <1>3, RecordFacts DEF Row
  <2> QED BY <1>1, <2>1, <2>2, PlacedMade, RecordFacts
<1> QED BY <1>2, <1>3

LEMMA RestoredMade ==
    ASSUME NEW t, NEW a, NEW R \in AnyStore, NEW id \in Ids,
           NEW r \in RecordType \union {NoRecord}
    PROVE  Restored(Made(R, t, a), id, r) = Made(Put(R, id, r), t, a)
BY ErasedMade, WithMade, RecordFacts DEF Restored

LEMMA EmptyMade ==
    ASSUME NEW t, NEW a
    PROVE  [EmptyCollection(a) EXCEPT !.trained = t] = Made([id \in Ids |-> NoRecord], t, a)
<1>1. PostingsOf([id \in Ids |-> NoRecord], a) = {}
  BY DEF PostingsOf
<1> QED BY <1>1 DEF EmptyCollection, Made

-----------------------------------------------------------------------------
(* Rebuilding and training. *)

\* A rebuild finds nothing to repair.
LEMMA RebuiltMade ==
    ASSUME NEW t \in BOOLEAN, NEW a, NEW R \in Stores(t)
    PROVE  Rebuilt(Made(R, t, a)) = Made(R, t, a)
<1> DEFINE c == Made(R, t, a)
<1>1. Present(c) = {id \in Ids : R[id] # NoRecord}
  BY DEF Present, Made
<1>2. \A id \in Present(c) : Stored(c, R[id].at) = R[id].at
  BY <1>1 DEF Stored, Made, Stores, Rows
<1>3. [id \in Ids |-> IF id \in Present(c) THEN Stored(c, c.records[id].at) ELSE NoPlace] = c.index
  BY <1>1, <1>2 DEF Made
<1>4. UNION {Entries(c, id, c.records[id].payload) : id \in Present(c)} = c.exact
  BY <1>1 DEF Made, PostingsOf, Entries
<1> QED BY <1>3, <1>4 DEF Rebuilt, Made

\* Every record is encoded.
Encoded(R) ==
    [id \in Ids |-> IF R[id] = NoRecord THEN NoRecord ELSE Row(TRUE, R[id].at, R[id].payload)]

LEMMA TrainedMade ==
    ASSUME NEW t, NEW a, NEW R \in AnyStore
    PROVE  /\ Encoded(R) \in Stores(TRUE)
           /\ Trained(Made(R, t, a)) = Made(Encoded(R), TRUE, a)
<1> DEFINE c == Made(R, t, a)
<1>1. Present(c) = {id \in Ids : R[id] # NoRecord}
  BY DEF Present, Made
<1>2. \A id \in Ids : R[id] # NoRecord => R[id] \in RecordType
  BY DEF AnyStore
<1>3. Encoded(R) \in Stores(TRUE)
  BY <1>2, RecordFacts, RowFacts DEF Encoded, Stores
<1>4. [id \in Ids |-> IF id \in Present(c)
                      THEN [c.records[id] EXCEPT !.at = Coded[@], !.coded = TRUE] ELSE NoRecord]
          = Encoded(R)
  <2>1. \A id \in Present(c) :
           [R[id] EXCEPT !.at = Coded[@], !.coded = TRUE] = Row(TRUE, R[id].at, R[id].payload)
    <3> SUFFICES ASSUME NEW id \in Present(c)
                 PROVE  [R[id] EXCEPT !.at = Coded[@], !.coded = TRUE]
                            = Row(TRUE, R[id].at, R[id].payload)
      OBVIOUS
    <3>1. R[id] = [at |-> R[id].at, payload |-> R[id].payload, coded |-> R[id].coded]
      BY <1>1, <1>2, RecordFacts
    <3> DEFINE yes == TRUE
    <3> DEFINE p == Coded[R[id].at]
    <3> DEFINE row == R[id]
    <3>2. [row EXCEPT !.at = p, !.coded = yes]
              = [at |-> p, payload |-> row.payload, coded |-> yes]
      <4> HIDE DEF yes, p, row
      <4> DEFINE next == [row EXCEPT !.at = p]
      <4>1. next = [at |-> p, payload |-> row.payload, coded |-> row.coded]
        BY <3>1 DEF row
      <4>2. [next EXCEPT !.coded = yes] = [at |-> p, payload |-> row.payload, coded |-> yes]
        <5> HIDE DEF next
        <5> QED BY <4>1
      <4> QED BY <4>2
    <3> QED BY <3>2 DEF Row
  <2> QED BY <1>1, <2>1 DEF Encoded, Made
<1> DEFINE d == Fields(Encoded(R), c.exact, c.index, TRUE, a)
<1>5. Trained(c) = Rebuilt(d)
  <2>1. Trained(c) = Rebuilt(Recoded(c, TRUE, Encoded(R)))
    BY <1>4 DEF Trained, Recoded
  <2>2. c = Fields(R, c.exact, c.index, t, a)
    BY DEF Made, Fields
  <2> DEFINE yes == TRUE
  <2> HIDE DEF c, yes
  <2>3. Recoded(c, yes, Encoded(R)) = Fields(Encoded(R), c.exact, c.index, yes, a)
    BY <2>2, RecodedFields
  <2> QED BY <2>1, <2>3 DEF yes
<1>6. /\ d.records = Encoded(R) /\ d.trained = TRUE /\ d.accelerated = a
      /\ d = Fields(d.records, d.exact, d.index, TRUE, a)
  BY DEF Fields
<1> HIDE DEF d
<1>7. Present(d) = {id \in Ids : Encoded(R)[id] # NoRecord}
  BY <1>6 DEF Present
<1>8. \A id \in Present(d) : Stored(d, Encoded(R)[id].at) = Encoded(R)[id].at
  BY <1>3, <1>6, <1>7 DEF Stored, Stores, Rows
<1> DEFINE index == [id \in Ids |-> IF id \in Present(d) THEN Stored(d, d.records[id].at) ELSE NoPlace]
<1> DEFINE exact == UNION {Entries(d, id, d.records[id].payload) : id \in Present(d)}
<1>9. index = [id \in Ids |-> IF Encoded(R)[id] = NoRecord THEN NoPlace ELSE Encoded(R)[id].at]
  BY <1>6, <1>7, <1>8
<1>10. exact = PostingsOf(Encoded(R), a)
  BY <1>6, <1>7 DEF PostingsOf, Entries
<1>11. Rebuilt(d) = Fields(Encoded(R), exact, index, TRUE, a)
  <2>1. Rebuilt(d) = Reindexed(d, index, exact)
    BY DEF Rebuilt, Reindexed
  <2> DEFINE yes == TRUE
  <2> HIDE DEF index, exact, yes
  <2>2. d = Fields(Encoded(R), d.exact, d.index, yes, a)
    BY <1>6 DEF yes
  <2>3. Reindexed(d, index, exact) = Fields(Encoded(R), exact, index, yes, a)
    BY <2>2, ReindexedFields
  <2> QED BY <2>1, <2>3 DEF yes
<1> QED BY <1>3, <1>5, <1>9, <1>10, <1>11 DEF Made, Fields

-----------------------------------------------------------------------------
(* Folds: what opening and replaying compute, record by record.  The two    *)
(* functions that a fold defines and that a closed form describes agree on  *)
(* every set, or there would be a least one on which they do not.           *)

LEMMA LeastSet ==
    ASSUME NEW P, IsFiniteSet(P), NEW B, \A S \in B : S \subseteq P, B # {}
    PROVE  \E S \in B : \A T \in B : T \subseteq S => T = S
<1>1. IsWellFoundedOn(StrictSubsetOrdering(P), SUBSET P)
  BY FS_StrictSubsetOrderingWellFounded, FS_FiniteSubsetsOfFinite
<1>2. PICK S \in B : \A T \in B : ~(<<T, S>> \in StrictSubsetOrdering(P))
  BY <1>1, WFMin
<1> QED BY <1>2 DEF StrictSubsetOrdering

\* A finite set of numbers has a greatest one.
LEMMA MaxFacts ==
    ASSUME NEW P, IsFiniteSet(P), P \subseteq Nat, P # {}
    PROVE  Max(P) \in P /\ \A i \in P : i <= Max(P)
<1> DEFINE B == {S \in SUBSET P : S # {} /\ ~\E m \in S : \A i \in S : m >= i}
<1>1. B = {}
  <2>1. SUFFICES ASSUME B # {} PROVE FALSE
    OBVIOUS
  <2>2. PICK S \in B : \A T \in B : T \subseteq S => T = S
    <3>1. \A S \in B : S \subseteq P
      OBVIOUS
    <3> HIDE DEF B
    <3> QED BY <2>1, <3>1, LeastSet
  <2>3. PICK x \in S : TRUE
    OBVIOUS
  <2>4. S \ {x} \notin B
    BY <2>2, <2>3
  <2>5. CASE S \ {x} = {}
    BY <2>3, <2>5
  <2>6. CASE \E m \in S \ {x} : \A i \in S \ {x} : m >= i
    <3>1. PICK m \in S \ {x} : \A i \in S \ {x} : m >= i
      BY <2>6
    <3>2. m \in Nat /\ x \in Nat
      BY <2>3
    <3> QED BY <2>3, <3>1, <3>2
  <2> QED BY <2>4, <2>5, <2>6
<1>2. \E m \in P : \A i \in P : m >= i
  BY <1>1
<1> QED BY <1>2 DEF Max

\* Induction along a fold that takes the greatest element last.
LEMMA FoldInduction ==
    ASSUME NEW P, IsFiniteSet(P), P \subseteq Nat, NEW G, {} \in G,
           \A S \in SUBSET P : S # {} /\ S \ {Max(S)} \in G => S \in G
    PROVE  \A S \in SUBSET P : S \in G
<1> DEFINE B == {S \in SUBSET P : S \notin G}
<1>1. SUFFICES ASSUME B # {} PROVE FALSE
  OBVIOUS
<1>2. PICK S \in B : \A T \in B : T \subseteq S => T = S
  <2>1. \A S \in B : S \subseteq P
    OBVIOUS
  <2> HIDE DEF B
  <2> QED BY <1>1, <2>1, LeastSet
<1>3. S # {} /\ Max(S) \in S
  <2>1. S # {}
    OBVIOUS
  <2>2. IsFiniteSet(S) /\ S \subseteq Nat
    BY FS_Subset
  <2> QED BY <2>1, <2>2, MaxFacts
<1>4. S \ {Max(S)} \in SUBSET P /\ S \ {Max(S)} \notin B
  BY <1>2, <1>3
<1> QED BY <1>3, <1>4

\* open() builds a collection whose containers agree from the records that are on
\* disk, whatever the other fields are that it is given.
LEMMA ReopenedMade ==
    ASSUME NEW t \in BOOLEAN, NEW a, NEW R \in Stores(t),
           NEW c, c.records = R, c.trained = t, c.accelerated = a
    PROVE  Reopened(c) = Made(R, t, a)
<1> DEFINE P == {id \in Ids : R[id] # NoRecord}
<1> DEFINE Part(S) == [id \in Ids |-> IF id \in S THEN R[id] ELSE NoRecord]
<1> DEFINE start == [EmptyCollection(a) EXCEPT !.trained = t]
<1> DEFINE Body(it) == [S \in SUBSET P |-> IF S = {} THEN start
                           ELSE Loaded(it[S \ {Max(S)}], Max(S), R[Max(S)])]
<1> DEFINE iter == CHOOSE it : it = Body(it)
<1> DEFINE made == [S \in SUBSET P |-> Made(Part(S), t, a)]
<1>1. Reopened(c) = iter[P]
  <2>1. Present(c) = P
    BY DEF Present
  <2> QED BY <2>1 DEF Reopened, MapThenFoldSet
<1>2. IsFiniteSet(P) /\ P \subseteq Nat
  BY CollectionAssumption, FS_Subset
<1>3. start = Made(Part({}), t, a)
  BY EmptyMade
<1>4. ASSUME NEW S \in SUBSET P, S # {}
      PROVE  /\ Max(S) \in S
             /\ Loaded(Made(Part(S \ {Max(S)}), t, a), Max(S), R[Max(S)]) = Made(Part(S), t, a)
  <2>1. Max(S) \in S
    BY <1>2, <1>4, MaxFacts, FS_Subset
  <2>2. R[Max(S)] \in Rows(t) /\ Max(S) \in Ids
    BY <2>1 DEF Stores
  <2>3. Part(S \ {Max(S)}) \in AnyStore
    BY DEF Stores, AnyStore, Rows
  <2>4. Put(Part(S \ {Max(S)}), Max(S), R[Max(S)]) = Part(S)
    <3> DEFINE m == Max(S)
    <3> HIDE DEF m
    <3> QED BY <2>1, <2>2 DEF m, Put
  <2> HIDE DEF Part, P
  <2> QED BY <2>1, <2>2, <2>3, <2>4, LoadedMade
<1>5. \A S \in SUBSET P : made[S] = Made(Part(S), t, a)
  OBVIOUS
<1>6. made = Body(made)
  <2> HIDE DEF Part, start, P
  <2> QED BY <1>3, <1>4, <1>5 DEF start
<1>7. iter = Body(iter)
  <2> HIDE DEF Body, made
  <2> QED BY <1>6
<1>8. \A S \in SUBSET P : iter[S] = made[S]
  <2>1. iter[{}] = made[{}]
    <3>1. iter[{}] = start
      <4> HIDE DEF iter, start, P
      <4> QED BY <1>7
    <3>2. made[{}] = Made(Part({}), t, a)
      <4> HIDE DEF Part, P
      <4> QED BY <1>5
    <3> QED BY <1>3, <3>1, <3>2
  <2> DEFINE G == {S \in SUBSET P : iter[S] = made[S]}
  <2>2. ASSUME NEW S \in SUBSET P, S # {}, S \ {Max(S)} \in G
        PROVE  S \in G
    <3>1. iter[S] = Loaded(iter[S \ {Max(S)}], Max(S), R[Max(S)])
      <4> HIDE DEF iter, start, P
      <4> QED BY <1>7, <2>2
    <3>2. made[S \ {Max(S)}] = Made(Part(S \ {Max(S)}), t, a) /\ made[S] = Made(Part(S), t, a)
      <4> HIDE DEF Part, P
      <4> QED BY <1>5
    <3> HIDE DEF iter, made, Part, P
    <3> QED BY <1>4, <2>2, <3>1, <3>2
  <2>3. {} \in G
    BY <2>1
  <2> HIDE DEF G, P
  <2>4. \A S \in SUBSET P : S \in G
    BY <1>2, <2>2, <2>3, FoldInduction
  <2> QED BY <2>4 DEF G
<1>9. Part(P) = R
  BY DEF Stores
<1> HIDE DEF iter, made, Part, P
<1> QED BY <1>1, <1>5, <1>8, <1>9

-----------------------------------------------------------------------------
(* The log in closed form: the last entry on an id counts. *)

LogEntry == [id : Ids, at : Places, payload : Payloads] \union [id : Ids, at : {NoPlace}]

RowOf(t, e) == IF e.at = NoPlace THEN NoRecord ELSE Row(t, e.at, e.payload)

On(L, S, id) == {i \in S : L[i].id = id}

Rolled(B, t, L, S) ==
    [id \in Ids |-> IF On(L, S, id) = {} THEN B[id] ELSE RowOf(t, L[Max(On(L, S, id))])]

Roll(B, t, L) == Rolled(B, t, L, DOMAIN L)

LEMMA EntryFacts ==
    ASSUME NEW e \in LogEntry, NEW t \in BOOLEAN
    PROVE  /\ e.id \in Ids
           /\ e.at # NoPlace => e.at \in Places /\ e.payload \in Payloads
           /\ RowOf(t, e) \in Rows(t) \union {NoRecord}
           /\ RowOf(t, e) \in RecordType \union {NoRecord}
<1>1. e.id \in Ids /\ (e.at # NoPlace => e.at \in Places /\ e.payload \in Payloads)
  BY DEF LogEntry
<1> QED BY <1>1, RowFacts DEF RowOf

LEMMA ReplayedMade ==
    ASSUME NEW t \in BOOLEAN, NEW a, NEW R \in AnyStore, NEW e \in LogEntry
    PROVE  /\ Replayed(Made(R, t, a), e) = Made(Put(R, e.id, RowOf(t, e)), t, a)
           /\ Put(R, e.id, RowOf(t, e)) \in AnyStore
<1>1. Put(R, e.id, RowOf(t, e)) \in AnyStore
  <2> DEFINE row == RowOf(t, e)
  <2>1. row \in RecordType \union {NoRecord}
    BY EntryFacts
  <2> DEFINE Values == RecordType \union {NoRecord}
  <2>2. R \in [Ids -> Values] /\ row \in Values
    BY <2>1 DEF AnyStore
  <2> HIDE DEF row, Values
  <2>3. [R EXCEPT ![e.id] = row] \in [Ids -> Values]
    BY <2>2
  <2> QED BY <2>3 DEF AnyStore, Values, row, Put
<1>2. CASE e.at = NoPlace
  BY <1>1, <1>2, ErasedMade, EntryFacts DEF Replayed, RowOf
<1>3. CASE e.at # NoPlace
  BY <1>1, <1>3, PlacedMade, EntryFacts DEF Replayed, RowOf
<1> QED BY <1>1, <1>2, <1>3

LEMMA PositionFacts ==
    ASSUME NEW L \in Seq(LogEntry)
    PROVE  /\ IsFiniteSet(DOMAIN L) /\ DOMAIN L \subseteq Nat
           /\ \A S \in SUBSET DOMAIN L : \A id :
                 On(L, S, id) # {} =>
                     /\ Max(On(L, S, id)) \in On(L, S, id)
                     /\ \A i \in On(L, S, id) : i <= Max(On(L, S, id))
<1>1. IsFiniteSet(DOMAIN L) /\ DOMAIN L \subseteq Nat
  <2>1. DOMAIN L = 1..Len(L) /\ Len(L) \in Nat
    OBVIOUS
  <2> QED BY <2>1, FS_Interval
<1>2. ASSUME NEW S \in SUBSET DOMAIN L, NEW id, On(L, S, id) # {}
      PROVE  /\ Max(On(L, S, id)) \in On(L, S, id)
             /\ \A i \in On(L, S, id) : i <= Max(On(L, S, id))
  <2> DEFINE J == On(L, S, id)
  <2>1. J \in SUBSET DOMAIN L /\ J \subseteq Nat
    BY <1>1 DEF On
  <2> HIDE DEF J
  <2>2. IsFiniteSet(J)
    BY <1>1, <2>1, FS_Subset
  <2> QED BY <1>2, <2>1, <2>2, MaxFacts DEF J
<1> QED BY <1>1, <1>2

LEMMA RolledType ==
    ASSUME NEW t \in BOOLEAN, NEW B \in Stores(t), NEW L \in Seq(LogEntry), NEW S \in SUBSET DOMAIN L
    PROVE  Rolled(B, t, L, S) \in Stores(t)
<1>1. ASSUME NEW id \in Ids, On(L, S, id) # {}
      PROVE  RowOf(t, L[Max(On(L, S, id))]) \in Rows(t) \union {NoRecord}
  <2>1. Max(On(L, S, id)) \in DOMAIN L
    BY <1>1, PositionFacts DEF On
  <2>2. L[Max(On(L, S, id))] \in LogEntry
    BY <2>1
  <2> QED BY <2>2, EntryFacts
<1> QED BY <1>1 DEF Rolled, Stores

\* An entry behind all others is the one that counts on its id.
LEMMA RolledStep ==
    ASSUME NEW t \in BOOLEAN, NEW B \in AnyStore, NEW L \in Seq(LogEntry),
           NEW S \in SUBSET DOMAIN L, NEW m \in S, \A i \in S : i <= m
    PROVE  Rolled(B, t, L, S) = Put(Rolled(B, t, L, S \ {m}), L[m].id, RowOf(t, L[m]))
<1> DEFINE T == S \ {m}
<1>1. L[m].id \in Ids /\ S \subseteq Nat
  BY EntryFacts, PositionFacts
<1>2. \A id \in Ids \ {L[m].id} : On(L, S, id) = On(L, T, id)
  BY DEF On
<1>3. Max(On(L, S, L[m].id)) = m /\ On(L, S, L[m].id) # {}
  <2>1. m \in On(L, S, L[m].id)
    BY DEF On
  <2>2. /\ Max(On(L, S, L[m].id)) \in On(L, S, L[m].id)
        /\ m <= Max(On(L, S, L[m].id))
    BY <2>1, PositionFacts
  <2>3. Max(On(L, S, L[m].id)) \in S
    BY <2>2 DEF On
  <2> QED BY <1>1, <2>1, <2>2, <2>3
<1> DEFINE F == Rolled(B, t, L, T)
<1> DEFINE row == RowOf(t, L[m])
<1>4. DOMAIN F = Ids /\ F = [id \in Ids |-> F[id]]
  BY DEF Rolled
<1>5. \A id \in Ids : Rolled(B, t, L, S)[id] = IF id = L[m].id THEN row ELSE F[id]
  <2>1. Rolled(B, t, L, S)[L[m].id] = row
    BY <1>1, <1>3 DEF Rolled
  <2>2. ASSUME NEW id \in Ids \ {L[m].id}
        PROVE  Rolled(B, t, L, S)[id] = F[id]
    <3>1. On(L, S, id) = On(L, T, id)
      BY <1>2
    <3> HIDE DEF T
    <3> QED BY <3>1 DEF Rolled
  <2> QED BY <2>1, <2>2
<1>6. Rolled(B, t, L, S) = [id \in Ids |-> Rolled(B, t, L, S)[id]]
  BY DEF Rolled
<1> HIDE DEF F, row, T
<1>7. [F EXCEPT ![L[m].id] = row] = [id \in Ids |-> IF id = L[m].id THEN row ELSE F[id]]
  BY <1>1, <1>4
<1> QED BY <1>5, <1>6, <1>7 DEF F, row, T, Put

\* What a replay leaves is what the last entry on each id says.
LEMMA RecoveredMade ==
    ASSUME log \in Seq(LogEntry), base.codebook \in BOOLEAN, base.records \in Stores(base.codebook)
    PROVE  LET R == Roll(base.records, base.codebook, log)
           IN  /\ R \in Stores(base.codebook)
               /\ Recovered = Made(R, base.codebook, collection.accelerated)
<1> DEFINE P == DOMAIN log
<1> DEFINE t == base.codebook
<1> DEFINE B == base.records
<1> DEFINE a == collection.accelerated
<1> DEFINE given == [EmptyCollection(a) EXCEPT !.trained = t, !.records = B]
<1> DEFINE start == Reopened(given)
<1> DEFINE Body(it) == [S \in SUBSET P |-> IF S = {} THEN start
                           ELSE Replayed(it[S \ {Max(S)}], log[Max(S)])]
<1> DEFINE iter == CHOOSE it : it = Body(it)
<1> DEFINE made == [S \in SUBSET P |-> Made(Rolled(B, t, log, S), t, a)]
<1>1. Recovered = iter[P]
  BY DEF Recovered, FoldLeft, MapThenFoldSet
<1>2. IsFiniteSet(P) /\ P \subseteq Nat
  BY PositionFacts
<1>3. start = Made(B, t, a) /\ Rolled(B, t, log, {}) = B
  <2>1. given.records = B /\ given.trained = t /\ given.accelerated = a
    BY DEF EmptyCollection
  <2>2. start = Made(B, t, a)
    <3> HIDE DEF given
    <3> QED BY <2>1, ReopenedMade
  <2>3. Rolled(B, t, log, {}) = B
    BY DEF Rolled, On, Stores
  <2> QED BY <2>2, <2>3
<1>4. ASSUME NEW S \in SUBSET P, S # {}
      PROVE  Replayed(Made(Rolled(B, t, log, S \ {Max(S)}), t, a), log[Max(S)])
                 = Made(Rolled(B, t, log, S), t, a)
  <2> DEFINE m == Max(S)
  <2>1. m \in S /\ \A i \in S : i <= m
    BY <1>2, <1>4, MaxFacts, FS_Subset
  <2> HIDE DEF m
  <2>2. B \in AnyStore
    BY RecordFacts
  <2>3. Rolled(B, t, log, S) = Put(Rolled(B, t, log, S \ {m}), log[m].id, RowOf(t, log[m]))
    BY <2>1, <2>2, RolledStep
  <2>4. log[m] \in LogEntry
    BY <2>1
  <2>5. Rolled(B, t, log, S \ {m}) \in Stores(t)
    BY RolledType
  <2>6. Rolled(B, t, log, S \ {m}) \in AnyStore
    BY <2>5, RecordFacts
  <2> QED BY <2>3, <2>4, <2>6, ReplayedMade DEF m
<1>5. \A S \in SUBSET P : made[S] = Made(Rolled(B, t, log, S), t, a)
  OBVIOUS
<1>6. made = Body(made)
  <2> HIDE DEF start, P
  <2>1. ASSUME NEW S \in SUBSET P
        PROVE  made[S] = IF S = {} THEN start ELSE Replayed(made[S \ {Max(S)}], log[Max(S)])
    BY <1>3, <1>4, <1>5
  <2> QED BY <2>1
<1>7. iter = Body(iter)
  <2> HIDE DEF Body, made
  <2> QED BY <1>6
<1>8. \A S \in SUBSET P : iter[S] = made[S]
  <2>1. iter[{}] = made[{}]
    <3>1. iter[{}] = start
      <4> HIDE DEF iter, start, P
      <4> QED BY <1>7
    <3>2. made[{}] = Made(Rolled(B, t, log, {}), t, a)
      <4> HIDE DEF P
      <4> QED BY <1>5
    <3> QED BY <1>3, <3>1, <3>2
  <2> DEFINE G == {S \in SUBSET P : iter[S] = made[S]}
  <2>2. ASSUME NEW S \in SUBSET P, S # {}, S \ {Max(S)} \in G
        PROVE  S \in G
    <3>1. iter[S] = Replayed(iter[S \ {Max(S)}], log[Max(S)])
      <4> HIDE DEF iter, start, P
      <4> QED BY <1>7, <2>2
    <3>2. /\ made[S \ {Max(S)}] = Made(Rolled(B, t, log, S \ {Max(S)}), t, a)
          /\ made[S] = Made(Rolled(B, t, log, S), t, a)
      <4> HIDE DEF P
      <4> QED BY <1>5
    <3> HIDE DEF iter, made, P
    <3> QED BY <1>4, <2>2, <3>1, <3>2
  <2>3. {} \in G
    BY <2>1
  <2> HIDE DEF G, P
  <2>4. \A S \in SUBSET P : S \in G
    BY <1>2, <2>2, <2>3, FoldInduction
  <2> QED BY <2>4 DEF G
<1>9. Roll(B, t, log) \in Stores(t)
  BY RolledType DEF Roll
<1>10. iter[P] = Made(Roll(B, t, log), t, a)
  <2> HIDE DEF iter, made
  <2> QED BY <1>5, <1>8 DEF Roll
<1> QED BY <1>1, <1>9, <1>10

LEMMA RollAppend ==
    ASSUME NEW t \in BOOLEAN, NEW B \in AnyStore, NEW L \in Seq(LogEntry), NEW e \in LogEntry
    PROVE  Roll(B, t, Append(L, e)) = Put(Roll(B, t, L), e.id, RowOf(t, e))
<1> DEFINE M == Append(L, e)
<1> DEFINE n == Len(L) + 1
<1>1. /\ M \in Seq(LogEntry) /\ DOMAIN M = 1..n /\ M[n] = e /\ n \in Nat /\ n \in DOMAIN M
      /\ DOMAIN L = 1..(n - 1) /\ \A i \in DOMAIN L : M[i] = L[i]
  OBVIOUS
<1>2. (DOMAIN M) \ {n} = DOMAIN L /\ \A i \in DOMAIN M : i <= n
  BY <1>1
<1>3. Rolled(B, t, M, DOMAIN L) = Rolled(B, t, L, DOMAIN L)
  <2>1. \A id \in Ids : On(M, DOMAIN L, id) = On(L, DOMAIN L, id)
    BY <1>1 DEF On
  <2>2. ASSUME NEW id \in Ids, On(L, DOMAIN L, id) # {}
        PROVE  M[Max(On(L, DOMAIN L, id))] = L[Max(On(L, DOMAIN L, id))]
    <3>1. Max(On(L, DOMAIN L, id)) \in DOMAIN L
      BY <2>2, PositionFacts DEF On
    <3> QED BY <1>1, <3>1
  <2> HIDE DEF M
  <2> QED BY <2>1, <2>2 DEF Rolled
<1> HIDE DEF M, n
<1>4. Rolled(B, t, M, DOMAIN M) =
          Put(Rolled(B, t, M, (DOMAIN M) \ {n}), M[n].id, RowOf(t, M[n]))
  BY <1>1, <1>2, RolledStep
<1> QED BY <1>1, <1>2, <1>3, <1>4 DEF Roll, M

\* What the client has, in terms of what is on disk: the same records, or the codes
\* of them if the codebook is in memory only.
Agreed(B, b, L, R, t) ==
    /\ B \in Stores(b) /\ (b => t)
    /\ R = IF t /\ ~b THEN Encoded(Roll(B, b, L)) ELSE Roll(B, b, L)

\* Encoding what an entry left is what the entry would leave in an encoded store.
LEMMA EncodedRoll ==
    ASSUME NEW B \in Stores(FALSE), NEW L \in Seq(LogEntry), NEW id \in Ids,
           On(L, DOMAIN L, id) # {}
    PROVE  Encoded(Roll(B, FALSE, L))[id] = RowOf(TRUE, L[Max(On(L, DOMAIN L, id))])
<1> DEFINE e == L[Max(On(L, DOMAIN L, id))]
<1>1. e \in LogEntry
  <2>1. Max(On(L, DOMAIN L, id)) \in DOMAIN L
    BY PositionFacts DEF On
  <2> QED BY <2>1
<1>2. Roll(B, FALSE, L)[id] = RowOf(FALSE, e)
  BY DEF Roll, Rolled
<1> HIDE DEF e
<1>3. CASE e.at = NoPlace
  BY <1>2, <1>3 DEF Encoded, RowOf, e
<1>4. CASE e.at # NoPlace
  <2>1. RowOf(FALSE, e) = Row(FALSE, e.at, e.payload) /\ RowOf(FALSE, e) # NoRecord
    BY <1>1, <1>4, EntryFacts, RowFacts, RecordFacts DEF RowOf
  <2>2. Row(FALSE, e.at, e.payload).at = e.at /\ Row(FALSE, e.at, e.payload).payload = e.payload
    BY DEF Row
  <2>3. RowOf(TRUE, e) = Row(TRUE, e.at, e.payload)
    BY <1>4 DEF RowOf
  <2> QED BY <1>2, <2>1, <2>2, <2>3 DEF Encoded, e
<1> QED BY <1>3, <1>4

\* A log that is replayed over the state it led to changes nothing: a crash between
\* publishing and the truncation is harmless.
LEMMA Rebase ==
    ASSUME NEW b \in BOOLEAN, NEW t \in BOOLEAN, NEW B, NEW R, NEW L \in Seq(LogEntry),
           Agreed(B, b, L, R, t)
    PROVE  /\ R \in Stores(t)
           /\ Agreed(R, t, L, R, t) /\ Agreed(R, t, <<>>, R, t)
<1>1. Roll(B, b, L) \in Stores(b)
  BY RolledType DEF Agreed, Roll
<1>2. R \in Stores(t)
  <2>1. CASE t /\ ~b
    <3>1. Encoded(Roll(B, b, L)) \in Stores(TRUE)
      BY <1>1, TrainedMade, RecordFacts
    <3> QED BY <2>1, <3>1 DEF Agreed
  <2>2. CASE ~(t /\ ~b)
    <3>1. t = b
      BY <2>2 DEF Agreed
    <3> QED BY <1>1, <2>2, <3>1 DEF Agreed
  <2> QED BY <2>1, <2>2
<1>3. ASSUME NEW id \in Ids
      PROVE  Roll(R, t, L)[id] = R[id]
  <2>1. CASE On(L, DOMAIN L, id) = {}
    BY <2>1 DEF Roll, Rolled
  <2>2. CASE On(L, DOMAIN L, id) # {}
    <3> DEFINE e == L[Max(On(L, DOMAIN L, id))]
    <3>1. Roll(R, t, L)[id] = RowOf(t, e) /\ Roll(B, b, L)[id] = RowOf(b, e)
      BY <2>2 DEF Roll, Rolled
    <3> HIDE DEF e
    <3>2. CASE t /\ ~b
      <4>1. Encoded(Roll(B, FALSE, L))[id] = RowOf(TRUE, e)
        BY <2>2, <3>2, EncodedRoll DEF Agreed, e
      <4> QED BY <3>1, <3>2, <4>1 DEF Agreed
    <3>3. CASE ~(t /\ ~b)
      <4>1. t = b
        BY <3>3 DEF Agreed
      <4> QED BY <3>1, <3>3, <4>1 DEF Agreed
    <3> QED BY <3>2, <3>3
  <2> QED BY <2>1, <2>2
<1>4. Roll(R, t, L) = R
  <2>1. Roll(R, t, L) = [id \in Ids |-> Roll(R, t, L)[id]] /\ R = [id \in Ids |-> R[id]]
    BY <1>2 DEF Roll, Rolled, Stores
  <2> QED BY <1>3, <2>1
<1>5. Roll(R, t, <<>>) = R
  BY <1>2 DEF Roll, Rolled, On, Stores
<1> QED BY <1>2, <1>4, <1>5 DEF Agreed

-----------------------------------------------------------------------------
(* Collection: its writes, training, rebuilding and reopening. *)

\* The containers of c hold the records that it stores, and nothing else.
IsMade(c) ==
    /\ c.trained \in BOOLEAN /\ c.accelerated \in BOOLEAN
    /\ c.records \in Stores(c.trained)
    /\ c = Made(c.records, c.trained, c.accelerated)

LEMMA MadeIsMade ==
    ASSUME NEW t \in BOOLEAN, NEW a \in BOOLEAN, NEW R \in Stores(t)
    PROVE  IsMade(Made(R, t, a))
<1>1. Made(R, t, a).records = R /\ Made(R, t, a).trained = t /\ Made(R, t, a).accelerated = a
  BY DEF Made
<1> QED BY <1>1 DEF IsMade

LEMMA PutFacts ==
    ASSUME NEW t \in BOOLEAN, NEW R \in Stores(t), NEW id \in Ids,
           NEW row \in Rows(t) \union {NoRecord}
    PROVE  /\ Put(R, id, row) \in Stores(t) /\ Put(Put(R, id, row), id, R[id]) = R
           /\ R \in AnyStore /\ Put(R, id, row) \in AnyStore
           /\ R[id] \in RecordType \union {NoRecord}
<1> DEFINE V == Rows(t) \union {NoRecord}
<1>1. R \in [Ids -> V] /\ row \in V
  BY DEF Stores
<1> HIDE DEF V
<1>2. Put(R, id, row) \in [Ids -> V] /\ Put(Put(R, id, row), id, R[id]) = R
  BY <1>1 DEF Put
<1>3. Put(R, id, row) \in Stores(t)
  BY <1>2 DEF Stores, V
<1>4. R \in AnyStore /\ Put(R, id, row) \in AnyStore
  BY <1>3, RecordFacts
<1> QED BY <1>2, <1>3, <1>4 DEF AnyStore

\* What a write leaves, and what undoing it leaves.
LEMMA Writes ==
    ASSUME NEW t \in BOOLEAN, NEW a, NEW R \in Stores(t), NEW id \in Ids,
           NEW at \in Places, NEW payload \in Payloads
    PROVE  LET c == Made(R, t, a)
           IN  /\ Placed(c, id, at, payload) = Made(Put(R, id, Row(t, at, payload)), t, a)
               /\ Erased(c, id) = Made(Put(R, id, NoRecord), t, a)
               /\ Put(R, id, Row(t, at, payload)) \in Stores(t)
               /\ Put(R, id, NoRecord) \in Stores(t)
               /\ Restored(Placed(c, id, at, payload), id, R[id]) = c
               /\ Restored(Erased(c, id), id, R[id]) = c
<1> DEFINE c == Made(R, t, a)
<1> DEFINE row == Row(t, at, payload)
<1>1. row \in Rows(t)
  BY RowFacts
<1>2. Placed(c, id, at, payload) = Made(Put(R, id, row), t, a)
  BY PutFacts, PlacedMade
<1>3. Erased(c, id) = Made(Put(R, id, NoRecord), t, a)
  BY PutFacts, ErasedMade
<1>4. ASSUME NEW old \in Rows(t) \union {NoRecord}
      PROVE  Restored(Made(Put(R, id, old), t, a), id, R[id]) = c
  <2> DEFINE S == Put(R, id, old)
  <2>1. S \in AnyStore /\ Put(S, id, R[id]) = R /\ R[id] \in RecordType \union {NoRecord}
    BY <1>4, PutFacts
  <2> HIDE DEF S
  <2>2. Restored(Made(S, t, a), id, R[id]) = Made(Put(S, id, R[id]), t, a)
    BY <2>1, RestoredMade
  <2> QED BY <2>1, <2>2 DEF S
<1> HIDE DEF c, row
<1>5. Put(R, id, row) \in Stores(t) /\ Put(R, id, NoRecord) \in Stores(t)
  BY <1>1, PutFacts
<1> QED BY <1>1, <1>2, <1>3, <1>4, <1>5 DEF c, row

LEMMA ReopenedIsMade ==
    ASSUME NEW c, IsMade(c)
    PROVE  Reopened(c) = c /\ Rebuilt(c) = c
BY ReopenedMade, RebuiltMade DEF IsMade

LEMMA WritesKeep ==
    ASSUME IsMade(collection)
    PROVE  /\ \A id \in Ids : RemoveId(id) => IsMade(collection)'
           /\ \A id \in Ids : \A at \in PlacesOf[id], p \in Payloads :
                 Add(id, at, p) => IsMade(collection)'
           /\ Train => IsMade(collection)'
<1> DEFINE R == collection.records
<1> DEFINE t == collection.trained
<1> DEFINE a == collection.accelerated
<1>1. /\ t \in BOOLEAN /\ a \in BOOLEAN /\ R \in Stores(t) /\ collection = Made(R, t, a)
      /\ R \in AnyStore
  BY RecordFacts DEF IsMade
<1> HIDE DEF R, t, a
<1>2. ASSUME NEW id \in Ids, RemoveId(id)
      PROVE  IsMade(collection')
  <2>1. Erased(Made(R, t, a), id) = Made(Put(R, id, NoRecord), t, a)
    BY <1>1, ErasedMade
  <2>2. Put(R, id, NoRecord) \in Stores(t)
    BY <1>1, PutFacts
  <2>3. collection' = Made(Put(R, id, NoRecord), t, a)
    BY <1>1, <1>2, <2>1 DEF RemoveId
  <2> QED BY <1>1, <2>2, <2>3, MadeIsMade
<1>3. ASSUME NEW id \in Ids, NEW at \in PlacesOf[id], NEW p \in Payloads, Add(id, at, p)
      PROVE  IsMade(collection')
  <2>1. at \in Places
    BY DEF Places
  <2>2. /\ collection' = Made(Put(R, id, Row(t, at, p)), t, a)
        /\ Put(R, id, Row(t, at, p)) \in Stores(t)
    BY <1>1, <1>3, <2>1, Writes DEF Add
  <2> QED BY <1>1, <2>2, MadeIsMade
<1>4. ASSUME Train
      PROVE  IsMade(collection')
  <2>1. collection' = Made(Encoded(R), TRUE, a) /\ Encoded(R) \in Stores(TRUE)
    BY <1>1, <1>4, TrainedMade DEF Train
  <2> QED BY <1>1, <2>1, MadeIsMade
<1> QED BY <1>2, <1>3, <1>4

\* What the containers of such a collection agree on.
LEMMA MadeAgrees ==
    ASSUME IsMade(collection)
    PROVE  ContainersAgree
<1> DEFINE c == collection
<1> DEFINE R == collection.records
<1>1. /\ c.trained \in BOOLEAN /\ c.accelerated \in BOOLEAN /\ R \in Stores(c.trained)
      /\ c = Made(R, c.trained, c.accelerated)
  BY DEF IsMade
<1>2. /\ c.index = [id \in Ids |-> IF R[id] = NoRecord THEN NoPlace ELSE R[id].at]
      /\ c.exact = PostingsOf(R, c.accelerated)
  BY <1>1 DEF Made
<1>3. Present(c) = {id \in Ids : R[id] # NoRecord}
  BY DEF Present
<1>4. \A id \in Present(c) : R[id] \in RecordType /\ R[id].coded = c.trained
  BY <1>1, <1>3 DEF Stores, Rows
<1>5. TypeOK
  <2>1. DOMAIN R = Ids
    BY <1>1 DEF Stores
  <2>2. c.index \in [Ids -> Places \union {NoPlace}]
    BY <1>2, <1>3, <1>4, RecordFacts
  <2> QED BY <1>1, <1>4, <2>1, <2>2 DEF TypeOK
<1>6. Index!Held = Present(c)
  BY <1>2, <1>3, <1>4, RecordFacts DEF Index!Held
<1>7. c.exact = UNION {Entries(c, id, R[id].payload) : id \in Present(c)}
  BY <1>2, <1>3 DEF PostingsOf, Entries
<1>8. \A id \in Present(c) : c.index[id] = R[id].at
  BY <1>2, <1>3
<1> QED BY <1>4, <1>5, <1>6, <1>7, <1>8 DEF ContainersAgree

\* The records determine both indexes, in every reachable state of a collection.
THEOREM CollectionInvariant == Spec => []IsMade(collection)
<1>1. Init => IsMade(collection)
  <2> SUFFICES ASSUME NEW a \in BOOLEAN, collection = EmptyCollection(a)
               PROVE  IsMade(collection)
    BY DEF Init
  <2> DEFINE R == [id \in Ids |-> NoRecord]
  <2> DEFINE no == FALSE
  <2>1. PostingsOf(R, a) = {}
    BY DEF PostingsOf
  <2>2. R \in Stores(no)
    BY DEF Stores
  <2>3. collection = Made(R, no, a)
    BY <2>1 DEF EmptyCollection, Made
  <2> QED BY <2>2, <2>3, MadeIsMade
<1>2. IsMade(collection) /\ [Next]_collection => IsMade(collection)'
  <2> SUFFICES ASSUME IsMade(collection), [Next]_collection
               PROVE  IsMade(collection')
    OBVIOUS
  <2>1. CASE Reopen \/ RebuildIndex
    BY <2>1, ReopenedIsMade DEF Reopen, RebuildIndex
  <2> QED BY <2>1, WritesKeep DEF Next
<1> QED BY <1>1, <1>2, PTL DEF Spec

\* ContainersAgree: after any history of writes, training, rebuilds and restarts
\* the store and both indexes hold the same records.
THEOREM ContainersAlwaysAgree == Spec => []ContainersAgree
BY CollectionInvariant, MadeAgrees, PTL

\* NothingChangesOnTheWay: undo, checkpoint and restart, and rebuild bring back
\* the collection as it was.
THEOREM WayBackIsExact == Spec => []NothingChangesOnTheWay
<1>1. IsMade(collection) => NothingChangesOnTheWay
  <2> SUFFICES ASSUME IsMade(collection)
               PROVE  NothingChangesOnTheWay
    OBVIOUS
  <2>1. Reopened(collection) = collection /\ Rebuilt(collection) = collection
    BY ReopenedIsMade
  <2>2. ASSUME NEW id \in Ids
        PROVE  Restored(Erased(collection, id), id, collection.records[id]) = collection
    <3> DEFINE R == collection.records
    <3> DEFINE t == collection.trained
    <3> DEFINE a == collection.accelerated
    <3>1. t \in BOOLEAN /\ R \in Stores(t) /\ collection = Made(R, t, a)
      BY DEF IsMade
    <3> HIDE DEF R, t, a
    <3>2. Erased(collection, id) = Made(Put(R, id, NoRecord), t, a)
      BY <3>1, PutFacts, ErasedMade
    <3> DEFINE S == Put(R, id, NoRecord)
    <3>3. S \in AnyStore /\ Put(S, id, R[id]) = R /\ R[id] \in RecordType \union {NoRecord}
      BY <3>1, PutFacts
    <3> HIDE DEF S
    <3>4. Restored(Made(S, t, a), id, R[id]) = Made(Put(S, id, R[id]), t, a)
      BY <3>3, RestoredMade
    <3> QED BY <3>1, <3>2, <3>3, <3>4 DEF S, R
  <2>3. ASSUME NEW id \in Ids, NEW at \in PlacesOf[id], NEW p \in Payloads
        PROVE  Restored(Placed(collection, id, at, p), id, collection.records[id]) = collection
    <3>1. at \in Places
      BY DEF Places
    <3> QED BY <3>1, Writes DEF IsMade
  <2> QED BY <2>1, <2>2, <2>3 DEF NothingChangesOnTheWay
<1> QED BY <1>1, CollectionInvariant, PTL

-----------------------------------------------------------------------------
(* Filters: what a function on syntax trees is, node by node.              *)

\* A function on trees that says of a node what F makes of its subtrees.
Solved(F, S, h) ==
    /\ S \subseteq Nodes
    /\ \A n \in S : Parts(n) \subseteq S /\ h[n] = F[n][h]

\* F looks at the subtrees of a node only.
Local(F, V) ==
    /\ \A n \in Nodes, g \in [Nodes -> V] : F[n][g] \in V
    /\ \A n \in Nodes, g, h \in [Nodes -> V] :
          (\A m \in Parts(n) : g[m] = h[m]) => F[n][g] = F[n][h]

LEMMA SolutionsAgree ==
    ASSUME NEW V, NEW F, Local(F, V), NEW g \in [Nodes -> V], NEW h \in [Nodes -> V],
           NEW S, NEW T, Solved(F, S, g), Solved(F, T, h)
    PROVE  \A n \in S \intersect T : g[n] = h[n]
<1> DEFINE B == {n \in S \intersect T : g[n] # h[n]}
<1>1. SUFFICES ASSUME B # {} PROVE FALSE
  OBVIOUS
<1>2. B \in SUBSET Nodes
  BY DEF Solved
<1>3. PICK n \in B : Parts(n) \intersect B = {}
  BY <1>1, <1>2, MetadataAssumption
<1>4. \A m \in Parts(n) : g[m] = h[m]
  BY <1>3 DEF Solved
<1>5. F[n][g] = F[n][h]
  BY <1>2, <1>4 DEF Local
<1> QED BY <1>5 DEF Solved

\* Every such F has a function that solves it on all of Nodes.
LEMMA TreeRecursion ==
    ASSUME NEW V, NEW v \in V, NEW F, Local(F, V)
    PROVE  \E h \in [Nodes -> V] : \A n \in Nodes : h[n] = F[n][h]
<1> DEFINE Good == {p \in (SUBSET Nodes) \X [Nodes -> V] : Solved(F, p[1], p[2])}
<1> DEFINE U == {n \in Nodes : \E p \in Good : n \in p[1]}
<1> DEFINE Of(n) == CHOOSE p \in Good : n \in p[1]
<1> DEFINE H == [n \in Nodes |-> IF n \in U THEN Of(n)[2][n] ELSE v]
<1>1. \A n \in U : Of(n) \in Good /\ n \in Of(n)[1]
  <2> HIDE DEF Good
  <2> QED OBVIOUS
<1>2. H \in [Nodes -> V]
  <2> HIDE DEF Of
  <2> QED BY <1>1
<1>3. \A p \in Good : \A n \in p[1] : n \in U /\ H[n] = p[2][n]
  <2> SUFFICES ASSUME NEW p \in Good, NEW n \in p[1]
               PROVE  n \in U /\ H[n] = p[2][n]
    OBVIOUS
  <2>1. n \in U
    OBVIOUS
  <2>2. Of(n) \in Good /\ n \in Of(n)[1]
    BY <1>1, <2>1
  <2> HIDE DEF Of
  <2>3. Of(n)[2][n] = p[2][n]
    BY <2>2, SolutionsAgree
  <2> HIDE DEF U
  <2> QED BY <2>1, <2>3
<1>4. Solved(F, U, H)
  <2>1. U \subseteq Nodes
    OBVIOUS
  <2>2. ASSUME NEW n \in U
        PROVE  Parts(n) \subseteq U /\ H[n] = F[n][H]
    <3>1. PICK p \in Good : n \in p[1]
      OBVIOUS
    <3> HIDE DEF U, H
    <3>2. p[1] \subseteq Nodes /\ p[2] \in [Nodes -> V] /\ Solved(F, p[1], p[2])
      OBVIOUS
    <3>3. Parts(n) \subseteq p[1] /\ p[2][n] = F[n][p[2]]
      BY <3>1, <3>2 DEF Solved
    <3>4. Parts(n) \subseteq U /\ \A m \in Parts(n) : H[m] = p[2][m]
      BY <1>3, <3>3
    <3>5. F[n][p[2]] = F[n][H]
      BY <1>2, <3>1, <3>2, <3>4 DEF Local
    <3> QED BY <1>3, <3>1, <3>3, <3>4, <3>5
  <2> HIDE DEF U, H
  <2> QED BY <2>1, <2>2 DEF Solved
<1>5. U = Nodes
  <2>1. SUFFICES ASSUME Nodes \ U # {} PROVE FALSE
    OBVIOUS
  <2>2. PICK n \in Nodes \ U : Parts(n) \intersect (Nodes \ U) = {}
    <3> HIDE DEF U
    <3> QED BY <2>1, MetadataAssumption
  <2>3. Parts(n) \subseteq U
    BY <2>2, MetadataAssumption
  <2> DEFINE G == [H EXCEPT ![n] = F[n][H]]
  <2>4. G \in [Nodes -> V] /\ G[n] = F[n][H] /\ \A m \in U : G[m] = H[m]
    <3> HIDE DEF H, U
    <3>1. F[n][H] \in V
      BY <1>2, <2>2 DEF Local
    <3> QED BY <1>2, <2>2, <3>1
  <2>5. ASSUME NEW m \in U \union {n}
        PROVE  Parts(m) \subseteq U /\ G[m] = F[m][G]
    <3> HIDE DEF G, H
    <3>1. Parts(m) \subseteq U
      BY <1>4, <2>3 DEF Solved
    <3>2. G[m] = F[m][H]
      BY <1>4, <2>4 DEF Solved
    <3>3. \A k \in Parts(m) : G[k] = H[k]
      BY <2>4, <3>1
    <3>4. m \in Nodes
      BY <2>2
    <3>5. F[m][G] = F[m][H]
      BY <1>2, <2>4, <3>3, <3>4 DEF Local
    <3> QED BY <3>1, <3>2, <3>5
  <2>6. Solved(F, U \union {n}, G)
    <3> HIDE DEF G
    <3> QED BY <2>2, <2>5 DEF Solved
  <2>7. <<U \union {n}, G>> \in Good
    <3> HIDE DEF G, H
    <3> QED BY <2>2, <2>4, <2>6
  <2> QED BY <1>3, <2>2, <2>7
<1> HIDE DEF U, H
<1> QED BY <1>2, <1>4, <1>5 DEF Solved

\* What a filter makes of a payload, and what it demands, on every syntax tree.
Judged(payload) == CHOOSE h : h = [node \in Nodes |-> Verdict(node, payload, h)]
Demanded == CHOOSE w : w = [node \in Nodes |-> Required(node, w)]

LEMMA JudgedFacts ==
    ASSUME NEW payload
    PROVE  /\ \A n \in Nodes : Judged(payload)[n] = Verdict(n, payload, Judged(payload))
           /\ \A f : Matches(f, payload) <=> (f = Everything \/ Judged(payload)[f])
<1> DEFINE F == [n \in Nodes |-> [g \in [Nodes -> BOOLEAN] |-> Verdict(n, payload, g)]]
<1>1. Local(F, BOOLEAN)
  <2>1. \A n \in Nodes, g \in [Nodes -> BOOLEAN] :
           F[n][g] = Verdict(n, payload, g) /\ F[n][g] \in BOOLEAN
    BY DEF Verdict
  <2>2. ASSUME NEW n \in Nodes, NEW g \in [Nodes -> BOOLEAN], NEW h \in [Nodes -> BOOLEAN],
               \A m \in Parts(n) : g[m] = h[m]
        PROVE  Verdict(n, payload, g) = Verdict(n, payload, h)
    <3>1. n.kind \in {"conj", "disj"} => g[n.a] = h[n.a] /\ g[n.b] = h[n.b]
      BY <2>2 DEF Parts
    <3>2. n.kind = "neg" => g[n.a] = h[n.a]
      BY <2>2 DEF Parts
    <3> QED BY <3>1, <3>2 DEF Verdict
  <2> HIDE DEF F
  <2> QED BY <2>1, <2>2 DEF Local
<1>2. PICK h \in [Nodes -> BOOLEAN] : \A n \in Nodes : h[n] = F[n][h]
  <2> DEFINE V == BOOLEAN
  <2> DEFINE yes == TRUE
  <2> HIDE DEF F
  <2>0. yes \in V
    OBVIOUS
  <2>1. Local(F, V)
    BY <1>1
  <2> HIDE DEF V, yes
  <2>2. \E h \in [Nodes -> V] : \A n \in Nodes : h[n] = F[n][h]
    BY <2>0, <2>1, TreeRecursion
  <2> QED BY <2>2 DEF V
<1>3. h = [n \in Nodes |-> Verdict(n, payload, h)]
  BY <1>2
<1>4. Judged(payload) = [n \in Nodes |-> Verdict(n, payload, Judged(payload))]
  BY <1>3 DEF Judged
<1>5. \A f : Matches(f, payload) <=> (f = Everything \/ Judged(payload)[f])
  BY DEF Matches, Judged
<1> QED BY <1>4, <1>5

LEMMA DemandedFacts ==
    /\ \A n \in Nodes : Demanded[n] = Required(n, Demanded)
    /\ \A f : ExactConstraints(f) = IF f = Everything THEN {} ELSE Demanded[f]
<1> DEFINE X == {<<n.field, {n.value}>> : n \in Nodes} \union {<<n.field, n.values>> : n \in Nodes}
<1> DEFINE V == (SUBSET X) \union {NoConstraints}
<1> DEFINE F == [n \in Nodes |-> [g \in [Nodes -> V] |-> Required(n, g)]]
<1>1. Local(F, V)
  <2>1. ASSUME NEW n \in Nodes, NEW g \in [Nodes -> V]
        PROVE  Required(n, g) \in V
    <3>1. {<<n.field, {n.value}>>} \in V /\ {<<n.field, n.values>>} \in V /\ NoConstraints \in V
      OBVIOUS
    <3>2. ASSUME n.kind = "conj", NoConstraints \notin {g[n.a], g[n.b]}
          PROVE  g[n.a] \union g[n.b] \in V
      <4>1. n.a \in Nodes /\ n.b \in Nodes
        BY <3>2, MetadataAssumption DEF Parts
      <4> QED BY <3>2, <4>1
    <3> HIDE DEF V
    <3> QED BY <3>1, <3>2 DEF Required
  <2>2. ASSUME NEW n \in Nodes, NEW g \in [Nodes -> V], NEW h \in [Nodes -> V],
               \A m \in Parts(n) : g[m] = h[m]
        PROVE  Required(n, g) = Required(n, h)
    <3>1. n.kind = "conj" => g[n.a] = h[n.a] /\ g[n.b] = h[n.b]
      BY <2>2 DEF Parts
    <3> QED BY <3>1 DEF Required
  <2>3. \A n \in Nodes, g \in [Nodes -> V] : F[n][g] = Required(n, g)
    BY DEF F
  <2> HIDE DEF F, V
  <2> QED BY <2>1, <2>2, <2>3 DEF Local
<1>2. PICK h \in [Nodes -> V] : \A n \in Nodes : h[n] = F[n][h]
  <2>1. NoConstraints \in V
    OBVIOUS
  <2> HIDE DEF F, V
  <2> QED BY <1>1, <2>1, TreeRecursion
<1>3. h = [n \in Nodes |-> Required(n, h)]
  <2> HIDE DEF V
  <2> QED BY <1>2
<1>4. Demanded = [n \in Nodes |-> Required(n, Demanded)]
  <2> HIDE DEF V
  <2> QED BY <1>3 DEF Demanded
<1>5. \A f : ExactConstraints(f) = IF f = Everything THEN {} ELSE Demanded[f]
  BY DEF ExactConstraints, Demanded
<1> QED BY <1>4, <1>5

\* A payload meets a constraint if its field has one of the values.
Meets(payload, con) ==
    /\ con[1] \in DOMAIN payload
    /\ \E w \in con[2] : Satisfies("eq", payload[con[1]], w)

\* A filter that can be put as equalities demands one at least, and who passes
\* the filter meets them all.
LEMMA ConstraintsAreMet ==
    ASSUME NEW payload, NEW f \in Nodes, Matches(f, payload), f # Everything,
           ExactConstraints(f) # NoConstraints
    PROVE  /\ ExactConstraints(f) # {}
           /\ \A con \in ExactConstraints(f) : Meets(payload, con)
<1> DEFINE Right(n) ==
       Judged(payload)[n] /\ Demanded[n] # NoConstraints =>
           Demanded[n] # {} /\ \A con \in Demanded[n] : Meets(payload, con)
<1> DEFINE B == {n \in Nodes : ~Right(n)}
<1>1. ASSUME NEW n \in Nodes, \A m \in Parts(n) : Right(m)
      PROVE  Right(n)
  <2> HIDE DEF Right
  <2> SUFFICES ASSUME Judged(payload)[n], Demanded[n] # NoConstraints
               PROVE  Demanded[n] # {} /\ \A con \in Demanded[n] : Meets(payload, con)
    BY DEF Right
  <2>1. Verdict(n, payload, Judged(payload)) /\ Demanded[n] = Required(n, Demanded)
    BY JudgedFacts, DemandedFacts
  <2>2. CASE n.kind = "cmp" /\ n.op = "eq"
    <3>1. Demanded[n] = {<<n.field, {n.value}>>}
      BY <2>1, <2>2 DEF Required
    <3>2. n.field \in DOMAIN payload /\ Satisfies("eq", payload[n.field], n.value)
      BY <2>1, <2>2 DEF Verdict
    <3> QED BY <3>1, <3>2 DEF Meets
  <2>3. CASE n.kind = "in"
    <3>1. Demanded[n] = {<<n.field, n.values>>}
      BY <2>1, <2>3 DEF Required
    <3>2. n.field \in DOMAIN payload /\ \E w \in n.values : Satisfies("eq", payload[n.field], w)
      BY <2>1, <2>3 DEF Verdict
    <3> QED BY <3>1, <3>2 DEF Meets
  <2>4. CASE n.kind = "conj"
    <3>1. NoConstraints \notin {Demanded[n.a], Demanded[n.b]}
      BY <2>1, <2>4 DEF Required
    <3>2. Demanded[n] = Demanded[n.a] \union Demanded[n.b]
      BY <2>1, <2>4, <3>1 DEF Required
    <3>3. Judged(payload)[n.a] /\ Judged(payload)[n.b]
      BY <2>1, <2>4 DEF Verdict
    <3>4. Right(n.a) /\ Right(n.b)
      BY <1>1, <2>4 DEF Parts
    <3> QED BY <3>1, <3>2, <3>3, <3>4 DEF Right
  <2> QED BY <2>1, <2>2, <2>3, <2>4 DEF Required
<1>2. B = {}
  <2>1. SUFFICES ASSUME B # {} PROVE FALSE
    OBVIOUS
  <2>2. PICK n \in B : Parts(n) \intersect B = {}
    <3>1. B \in SUBSET Nodes
      OBVIOUS
    <3> HIDE DEF B
    <3> QED BY <2>1, <3>1, MetadataAssumption
  <2>3. \A m \in Parts(n) : Right(m)
    <3>1. Parts(n) \subseteq Nodes
      BY MetadataAssumption
    <3> HIDE DEF Right
    <3> QED BY <2>2, <3>1
  <2> HIDE DEF Right
  <2> QED BY <1>1, <2>3
<1>3. Right(f)
  <2> HIDE DEF Right
  <2> QED BY <1>2
<1>4. Judged(payload)[f] /\ ExactConstraints(f) = Demanded[f]
  BY JudgedFacts, DemandedFacts
<1> QED BY <1>3, <1>4

-----------------------------------------------------------------------------
(* Order: the rank of a record in a set decides where a list of the nearest *)
(* has it.                                                                  *)

Before(at, q, m, k) ==
    \/ Index!Distance(q, at[m]) < Index!Distance(q, at[k])
    \/ Index!Distance(q, at[m]) = Index!Distance(q, at[k]) /\ m < k

\* Those of S that come before id.
Ahead(at, q, S, id) == {m \in S : Before(at, q, m, id)}

Rank(at, q, S, id) == Cardinality(Ahead(at, q, S, id))

\* The records of S have a distance from q.
Located(at, q, S) == q \in Nat /\ S \subseteq Nat /\ IsFiniteSet(S) /\ \A id \in S : at[id] \in Nat

LEMMA OrderFacts ==
    ASSUME NEW at, NEW q, NEW S, Located(at, q, S)
    PROVE  /\ \A x \in S : ~Before(at, q, x, x)
           /\ \A x, y, z \in S : Before(at, q, x, y) /\ Before(at, q, y, z) => Before(at, q, x, z)
           /\ \A x, y \in S : x = y \/ Before(at, q, x, y) \/ Before(at, q, y, x)
<1> DEFINE d(x) == Index!Distance(q, at[x])
<1>1. \A x \in S : d(x) \in Int
  BY DEF Located, Index!Distance
<1> HIDE DEF d
<1>2. \A x, y : Before(at, q, x, y) <=> (d(x) < d(y) \/ (d(x) = d(y) /\ x < y))
  BY DEF Before, d
<1>3. \A x \in S : x \in Nat
  BY DEF Located
<1> QED BY <1>1, <1>2, <1>3

LEMMA RankGrows ==
    ASSUME NEW at, NEW q, NEW S, Located(at, q, S)
    PROVE  /\ \A x \in S : Rank(at, q, S, x) \in 0..(Cardinality(S) - 1)
           /\ \A x, y \in S : Before(at, q, x, y) => Rank(at, q, S, x) < Rank(at, q, S, y)
           /\ \A x, y \in S : Rank(at, q, S, x) = Rank(at, q, S, y) => x = y
           /\ Cardinality(S) \in Nat
<1>1. IsFiniteSet(S) /\ Cardinality(S) \in Nat
  BY FS_CardinalityType DEF Located
<1>2. ASSUME NEW x \in S
      PROVE  IsFiniteSet(Ahead(at, q, S, x)) /\ Rank(at, q, S, x) \in Nat
  <2>1. Ahead(at, q, S, x) \in SUBSET S
    BY DEF Ahead
  <2> QED BY <1>1, <2>1, FS_Subset, FS_CardinalityType DEF Rank
<1>3. ASSUME NEW T, IsFiniteSet(T), NEW U \in SUBSET T, NEW x \in T \ U
      PROVE  Cardinality(U) < Cardinality(T)
  <2>1. IsFiniteSet(U) /\ Cardinality(U) <= Cardinality(T) /\ Cardinality(T) # Cardinality(U)
    BY <1>3, FS_Subset
  <2> QED BY <1>3, <2>1, FS_CardinalityType
<1>4. ASSUME NEW x \in S
      PROVE  Rank(at, q, S, x) \in 0..(Cardinality(S) - 1)
  <2>1. x \in S \ Ahead(at, q, S, x) /\ Ahead(at, q, S, x) \in SUBSET S
    BY OrderFacts DEF Ahead
  <2>2. Rank(at, q, S, x) < Cardinality(S)
    BY <1>1, <1>3, <2>1 DEF Rank
  <2> QED BY <1>1, <1>2, <2>2
<1>5. ASSUME NEW x \in S, NEW y \in S, Before(at, q, x, y)
      PROVE  Rank(at, q, S, x) < Rank(at, q, S, y)
  <2>1. x \in Ahead(at, q, S, y) \ Ahead(at, q, S, x)
    BY <1>5, OrderFacts DEF Ahead
  <2>2. Ahead(at, q, S, x) \in SUBSET Ahead(at, q, S, y)
    BY <1>5, OrderFacts DEF Ahead
  <2> QED BY <1>2, <1>3, <2>1, <2>2 DEF Rank
<1>6. ASSUME NEW x \in S, NEW y \in S, Rank(at, q, S, x) = Rank(at, q, S, y)
      PROVE  x = y
  <2>1. x = y \/ Before(at, q, x, y) \/ Before(at, q, y, x)
    BY OrderFacts
  <2> QED BY <1>2, <1>5, <1>6, <2>1
<1> QED BY <1>1, <1>4, <1>5, <1>6

\* Every rank is taken.
LEMMA RankOnto ==
    ASSUME NEW at, NEW q, NEW S, Located(at, q, S), NEW r \in 0..(Cardinality(S) - 1)
    PROVE  \E x \in S : Rank(at, q, S, x) = r
<1> DEFINE n == Cardinality(S)
<1> DEFINE I == 0..(n - 1)
<1> DEFINE rank == [x \in S |-> Rank(at, q, S, x)]
<1>1. n \in Nat /\ IsFiniteSet(S)
  BY RankGrows DEF Located
<1>2. rank \in [S -> I] /\ \A x, y \in S : rank[x] = rank[y] => x = y
  BY RankGrows
<1>3. IsFiniteSet(I) /\ Cardinality(I) = n
  <2> HIDE DEF n
  <2> QED BY <1>1, FS_Interval
<1>4. rank \in Injection(S, I)
  <2> HIDE DEF rank, I
  <2> QED BY <1>2 DEF Injection, IsInjective
<1>5. rank \in Surjection(S, I)
  <2> HIDE DEF rank, I
  <2> QED BY <1>3, <1>4, FS_Injection
<1> QED BY <1>5 DEF Surjection

\* The list of the nearest, by the ranks of its members.
Ranked(s, at, q, S, n) ==
    /\ s = [i \in 1..Smaller(n, Cardinality(S)) |-> s[i]]
    /\ \A i \in 1..Smaller(n, Cardinality(S)) : s[i] \in S /\ Rank(at, q, S, s[i]) = i - 1

LEMMA NearestRanked ==
    ASSUME NEW at, NEW q, NEW S, Located(at, q, S), NEW n \in Nat
    PROVE  /\ Ranked(Nearest(at, q, S, n), at, q, S, n)
           /\ \A s : Ranked(s, at, q, S, n) => s = Nearest(at, q, S, n)
<1> DEFINE k == Smaller(n, Cardinality(S))
<1> DEFINE nth(r) == CHOOSE id \in S : Rank(at, q, S, id) = r - 1
<1>1. Cardinality(S) \in Nat /\ k \in Nat /\ k <= Cardinality(S)
  BY RankGrows DEF Smaller
<1>2. Nearest(at, q, S, n) = [r \in 1..k |-> nth(r)]
  BY DEF Nearest, Rank, Ahead, Before
<1>3. ASSUME NEW r \in 1..k
      PROVE  nth(r) \in S /\ Rank(at, q, S, nth(r)) = r - 1
  <2> HIDE DEF k
  <2>1. r - 1 \in 0..(Cardinality(S) - 1)
    BY <1>1, <1>3
  <2> QED BY <2>1, RankOnto
<1> HIDE DEF nth
<1>4. Ranked(Nearest(at, q, S, n), at, q, S, n)
  <2> HIDE DEF k
  <2> QED BY <1>2, <1>3 DEF Ranked, k
<1>5. ASSUME NEW s, Ranked(s, at, q, S, n)
      PROVE  s = Nearest(at, q, S, n)
  <2>1. s = [i \in 1..k |-> s[i]] /\ \A i \in 1..k : s[i] \in S /\ Rank(at, q, S, s[i]) = i - 1
    BY <1>5 DEF Ranked
  <2>2. \A i \in 1..k : s[i] = nth(i)
    <3> HIDE DEF k
    <3> QED BY <1>3, <2>1, RankGrows
  <2> HIDE DEF k
  <2> QED BY <1>2, <2>1, <2>2
<1> QED BY <1>4, <1>5

\* The hits are the k nearest of R, which are n of them or all.
Hits(hits, k, at, q, R, n) ==
    /\ Located(at, q, R) /\ n \in Nat
    /\ hits = Nearest(at, q, R, n) /\ k = Smaller(n, Cardinality(R))

\* Who comes before a hit is a hit, and with all ranks taken everyone is.
LEMMA HitsFacts ==
    ASSUME NEW at, NEW q, NEW R, NEW n, NEW hits, NEW k, Hits(hits, k, at, q, R, n)
    PROVE  /\ k \in Nat /\ DOMAIN hits = 1..k /\ Len(hits) = k
           /\ \A j \in 1..k : hits[j] \in R
           /\ \A j \in 1..k : \A x \in Ahead(at, q, R, hits[j]) : \E i \in 1..k : x = hits[i]
           /\ \A i, j \in 1..k : i < j => Before(at, q, hits[i], hits[j]) /\ hits[i] # hits[j]
           /\ k = Cardinality(R) => \A x \in R : \E i \in 1..k : x = hits[i]
<1>0. Located(at, q, R)
  BY DEF Hits
<1>1. k \in Nat /\ k <= Cardinality(R) /\ Cardinality(R) \in Nat
  BY RankGrows DEF Smaller, Hits
<1>2. /\ hits = [i \in 1..k |-> hits[i]]
      /\ \A i \in 1..k : hits[i] \in R /\ Rank(at, q, R, hits[i]) = i - 1
  BY NearestRanked DEF Ranked, Hits
<1>3. DOMAIN hits = 1..k /\ Len(hits) = k
  BY <1>1, <1>2
<1>4. ASSUME NEW i \in 1..k, NEW j \in 1..k, i < j
      PROVE  Before(at, q, hits[i], hits[j]) /\ hits[i] # hits[j]
  <2>1. Rank(at, q, R, hits[i]) < Rank(at, q, R, hits[j]) /\ hits[i] # hits[j]
    BY <1>1, <1>2, <1>4
  <2>2. ~Before(at, q, hits[j], hits[i])
    BY <1>1, <1>2, <1>4, <1>0, RankGrows
  <2> QED BY <1>2, <2>1, <2>2, <1>0, OrderFacts
<1>5. ASSUME NEW m \in R, Rank(at, q, R, m) < k
      PROVE  Rank(at, q, R, m) + 1 \in 1..k /\ m = hits[Rank(at, q, R, m) + 1]
  <2>1. Rank(at, q, R, m) \in Nat
    BY <1>0, RankGrows
  <2>2. Rank(at, q, R, m) + 1 \in 1..k
    BY <1>1, <1>5, <2>1
  <2>3. Rank(at, q, R, hits[Rank(at, q, R, m) + 1]) = Rank(at, q, R, m)
    BY <1>2, <2>1, <2>2
  <2> QED BY <1>2, <2>2, <2>3, <1>0, RankGrows
<1>6. ASSUME NEW j \in 1..k, NEW x \in Ahead(at, q, R, hits[j])
      PROVE  \E i \in 1..k : x = hits[i]
  <2>1. x \in R /\ Rank(at, q, R, x) < j - 1 /\ Rank(at, q, R, x) \in Nat
    BY <1>0, <1>2, RankGrows DEF Ahead
  <2>2. Rank(at, q, R, x) < k
    BY <1>1, <2>1
  <2> QED BY <1>5, <2>1, <2>2
<1>7. ASSUME k = Cardinality(R)
      PROVE  \A x \in R : \E i \in 1..k : x = hits[i]
  <2>1. \A m \in R : Rank(at, q, R, m) < k
    BY <1>1, <1>7, <1>0, RankGrows
  <2> QED BY <1>2, <1>5, <2>1
<1> QED BY <1>1, <1>2, <1>3, <1>4, <1>6, <1>7

\* All of a set, nearest first.
Listed(at, q, T) == Nearest(at, q, T, Cardinality(T))

LEMMA ListedFacts ==
    ASSUME NEW at, NEW q, NEW T, Located(at, q, T)
    PROVE  /\ Listed(at, q, T) \in Seq(T) /\ Len(Listed(at, q, T)) = Cardinality(T)
           /\ Cardinality(T) \in Nat
           /\ \A i \in 1..Cardinality(T) :
                 /\ Listed(at, q, T)[i] \in T
                 /\ Rank(at, q, T, Listed(at, q, T)[i]) = i - 1
<1>1. Cardinality(T) \in Nat /\ Smaller(Cardinality(T), Cardinality(T)) = Cardinality(T)
  BY RankGrows DEF Smaller
<1>2. Ranked(Listed(at, q, T), at, q, T, Cardinality(T))
  BY <1>1, NearestRanked DEF Listed
<1>3. /\ Listed(at, q, T) = [i \in 1..Cardinality(T) |-> Listed(at, q, T)[i]]
      /\ \A i \in 1..Cardinality(T) :
            Listed(at, q, T)[i] \in T /\ Rank(at, q, T, Listed(at, q, T)[i]) = i - 1
  BY <1>1, <1>2 DEF Ranked
<1> QED BY <1>1, <1>3

\* Who comes after all others is last.
LEMMA ListedAppend ==
    ASSUME NEW at, NEW q, NEW T, NEW x, Located(at, q, T \union {x}), x \notin T,
           \A m \in T : Before(at, q, m, x)
    PROVE  Listed(at, q, T \union {x}) = Append(Listed(at, q, T), x)
<1> DEFINE n == Cardinality(T)
<1> DEFINE s == Append(Listed(at, q, T), x)
<1>1. Located(at, q, T)
  <2>1. IsFiniteSet(T)
    <3>1. T \in SUBSET (T \union {x})
      OBVIOUS
    <3> QED BY <3>1, FS_Subset DEF Located
  <2> QED BY <2>1 DEF Located
<1>2. n \in Nat /\ Cardinality(T \union {x}) = n + 1
  BY <1>1, FS_AddElement, FS_CardinalityType DEF Located
<1>3. /\ DOMAIN s = 1..(n + 1) /\ s[n + 1] = x /\ s \in Seq(T \union {x})
      /\ \A i \in 1..n : s[i] = Listed(at, q, T)[i]
  BY <1>1, <1>2, ListedFacts
<1>4. ASSUME NEW i \in 1..n
      PROVE  s[i] \in T \union {x} /\ Rank(at, q, T \union {x}, s[i]) = i - 1
  <2>1. s[i] \in T /\ Rank(at, q, T, s[i]) = i - 1
    BY <1>1, <1>3, ListedFacts
  <2> HIDE DEF s
  <2>2. ~Before(at, q, x, s[i])
    BY <2>1, OrderFacts
  <2>3. Ahead(at, q, T \union {x}, s[i]) = Ahead(at, q, T, s[i])
    BY <2>2 DEF Ahead
  <2> QED BY <2>1, <2>3 DEF Rank
<1>5. Rank(at, q, T \union {x}, x) = n
  <2>1. Ahead(at, q, T \union {x}, x) = T
    BY OrderFacts DEF Ahead
  <2> QED BY <2>1 DEF Rank
<1>6. Ranked(s, at, q, T \union {x}, n + 1)
  <2> HIDE DEF s, n
  <2>1. Smaller(n + 1, Cardinality(T \union {x})) = n + 1
    BY <1>2 DEF Smaller
  <2>2. s = [i \in 1..(n + 1) |-> s[i]]
    BY <1>2, <1>3
  <2>3. \A i \in 1..(n + 1) : s[i] \in T \union {x} /\ Rank(at, q, T \union {x}, s[i]) = i - 1
    <3>1. s[n + 1] \in T \union {x} /\ Rank(at, q, T \union {x}, s[n + 1]) = (n + 1) - 1
      <4>1. (n + 1) - 1 = n /\ s[n + 1] = x
        BY <1>2, <1>3
      <4> QED BY <1>5, <4>1
    <3>2. 1..(n + 1) = 1..n \union {n + 1}
      BY <1>2
    <3> QED BY <1>4, <3>1, <3>2
  <2> QED BY <2>1, <2>2, <2>3 DEF Ranked
<1> HIDE DEF s
<1>7. s = Nearest(at, q, T \union {x}, n + 1)
  BY <1>2, <1>6, NearestRanked
<1> QED BY <1>2, <1>7 DEF Listed, s

\* What is kept of the hits is a list of those that are admitted.
LEMMA KeptListed ==
    ASSUME NEW at, NEW q, NEW R, Located(at, q, R), NEW n \in Nat,
           NEW hits, hits = Nearest(at, q, R, n), NEW A
    PROVE  Kept(hits, A) = Listed(at, q, A \intersect {hits[j] : j \in DOMAIN hits})
<1> DEFINE P == DOMAIN hits
<1> DEFINE Admits(S) == A \intersect {hits[j] : j \in S}
<1> DEFINE Body(it) == [S \in SUBSET P |-> IF S = {} THEN <<>>
                           ELSE IF hits[Max(S)] \in A
                                THEN Append(it[S \ {Max(S)}], hits[Max(S)])
                                ELSE it[S \ {Max(S)}]]
<1> DEFINE iter == CHOOSE it : it = Body(it)
<1> DEFINE made == [S \in SUBSET P |-> Listed(at, q, Admits(S))]
<1>1. Kept(hits, A) = iter[P]
  BY DEF Kept, FoldLeft, MapThenFoldSet
<1>2. /\ IsFiniteSet(P) /\ P \subseteq Nat
      /\ \A j \in P : hits[j] \in R
      /\ \A i, j \in P : i < j => Before(at, q, hits[i], hits[j]) /\ hits[i] # hits[j]
  <2> DEFINE k == Smaller(n, Cardinality(R))
  <2>1. /\ k \in Nat /\ P = 1..k
        /\ \A j \in 1..k : hits[j] \in R
        /\ \A i, j \in 1..k : i < j => Before(at, q, hits[i], hits[j]) /\ hits[i] # hits[j]
    <3>1. Hits(hits, k, at, q, R, n)
      BY DEF Hits
    <3> HIDE DEF k
    <3> QED BY <3>1, HitsFacts
  <2> HIDE DEF k, P
  <2>2. IsFiniteSet(1..k) /\ 1..k \subseteq Nat
    BY <2>1, FS_Interval
  <2> QED BY <2>1, <2>2
<1> HIDE DEF P
<1>3. \A S \in SUBSET P : Located(at, q, Admits(S))
  <2>1. \A S \in SUBSET P : Admits(S) \in SUBSET R
    BY <1>2
  <2> HIDE DEF Admits
  <2> QED BY <2>1, FS_Subset DEF Located
<1>4. ASSUME NEW S \in SUBSET P, S # {}
      PROVE  /\ Max(S) \in S
             /\ Listed(at, q, Admits(S)) =
                    IF hits[Max(S)] \in A
                    THEN Append(Listed(at, q, Admits(S \ {Max(S)})), hits[Max(S)])
                    ELSE Listed(at, q, Admits(S \ {Max(S)}))
  <2> DEFINE m == Max(S)
  <2>1. m \in S /\ \A i \in S : i <= m
    BY <1>2, <1>4, MaxFacts, FS_Subset
  <2> HIDE DEF m
  <2>2. CASE hits[m] \in A
    <3>1. Admits(S) = Admits(S \ {m}) \union {hits[m]}
      BY <2>1, <2>2
    <3>2. \A i \in S \ {m} : i < m
      BY <1>2, <2>1
    <3>3. \A x \in Admits(S \ {m}) : Before(at, q, x, hits[m]) /\ x # hits[m]
      BY <1>2, <2>1, <3>2
    <3>4. Located(at, q, Admits(S \ {m}) \union {hits[m]})
      <4> HIDE DEF Admits
      <4> QED BY <1>3, <3>1
    <3> HIDE DEF Admits
    <3>5. hits[m] \notin Admits(S \ {m})
      BY <3>3
    <3>6. \A x \in Admits(S \ {m}) : Before(at, q, x, hits[m])
      BY <3>3
    <3>7. Listed(at, q, Admits(S)) = Append(Listed(at, q, Admits(S \ {m})), hits[m])
      <4> DEFINE T == Admits(S \ {m})
      <4> DEFINE x == hits[m]
      <4>1. Located(at, q, T \union {x}) /\ x \notin T /\ \A y \in T : Before(at, q, y, x)
        BY <3>4, <3>5, <3>6
      <4> HIDE DEF T, x
      <4>2. Listed(at, q, T \union {x}) = Append(Listed(at, q, T), x)
        BY <4>1, ListedAppend
      <4> QED BY <3>1, <4>2 DEF T, x
    <3> QED BY <2>1, <2>2, <3>7 DEF m
  <2>3. CASE hits[m] \notin A
    <3>1. Admits(S) = Admits(S \ {m})
      BY <2>1, <2>3
    <3> HIDE DEF Admits
    <3> QED BY <2>1, <2>3, <3>1 DEF m
  <2> QED BY <2>2, <2>3
<1>5. Listed(at, q, Admits({})) = <<>>
  <2>1. Admits({}) = {} /\ Located(at, q, Admits({}))
    BY <1>3
  <2> HIDE DEF Admits
  <2> DEFINE s == Listed(at, q, {})
  <2>2. s \in Seq({}) /\ Len(s) = 0
    <3>1. Located(at, q, {}) /\ Cardinality({}) = 0
      BY <2>1, FS_EmptySet
    <3> QED BY <3>1, ListedFacts
  <2> HIDE DEF s
  <2>3. s = <<>>
    BY <2>2
  <2> QED BY <2>1, <2>3 DEF s
<1>6. \A S \in SUBSET P : made[S] = Listed(at, q, Admits(S))
  OBVIOUS
<1> HIDE DEF Admits
<1>7. made = Body(made)
  <2>1. ASSUME NEW S \in SUBSET P
        PROVE  made[S] = IF S = {} THEN <<>>
                         ELSE IF hits[Max(S)] \in A
                              THEN Append(made[S \ {Max(S)}], hits[Max(S)])
                              ELSE made[S \ {Max(S)}]
    <3> HIDE DEF made
    <3> QED BY <1>4, <1>5, <1>6
  <2> QED BY <2>1
<1>8. iter = Body(iter)
  <2> HIDE DEF Body, made
  <2> QED BY <1>7
<1>9. \A S \in SUBSET P : iter[S] = made[S]
  <2> DEFINE G == {S \in SUBSET P : iter[S] = made[S]}
  <2>1. {} \in G
    <3>1. iter[{}] = <<>>
      <4> HIDE DEF iter
      <4> QED BY <1>8
    <3> HIDE DEF iter, made
    <3> QED BY <1>5, <1>6, <3>1
  <2>2. ASSUME NEW S \in SUBSET P, S # {}, S \ {Max(S)} \in G
        PROVE  S \in G
    <3>1. iter[S] = IF hits[Max(S)] \in A
                    THEN Append(iter[S \ {Max(S)}], hits[Max(S)])
                    ELSE iter[S \ {Max(S)}]
      <4> HIDE DEF iter
      <4> QED BY <1>8, <2>2
    <3>2. made[S] = IF hits[Max(S)] \in A
                    THEN Append(made[S \ {Max(S)}], hits[Max(S)])
                    ELSE made[S \ {Max(S)}]
      <4> HIDE DEF made
      <4> QED BY <1>7, <2>2
    <3> HIDE DEF iter, made
    <3> QED BY <2>2, <3>1, <3>2
  <2> HIDE DEF G
  <2>3. \A S \in SUBSET P : S \in G
    BY <1>2, <2>1, <2>2, FoldInduction
  <2> QED BY <2>3 DEF G
<1>10. iter[P] = Listed(at, q, Admits(P))
  <2> HIDE DEF iter, made
  <2> QED BY <1>6, <1>9
<1> QED BY <1>1, <1>10 DEF Admits, P

\* What is kept of the hits, and all that there is to keep.
Sieved(kept, D, hits, A, R) == kept = Kept(hits, A) /\ D = A \intersect R

\* The hits are a beginning of what the index can find, so what is kept of them is
\* a beginning of all that it could keep, and all of it when nothing is left.
LEMMA KeptFacts ==
    ASSUME NEW at, NEW q, NEW R, NEW n, NEW hits, NEW k, Hits(hits, k, at, q, R, n),
           NEW A, NEW kept, NEW D, Sieved(kept, D, hits, A, R)
    PROVE  /\ Len(kept) \in Nat /\ Len(kept) <= Cardinality(D) /\ Cardinality(D) \in Nat
           /\ Len(hits) = k
           /\ \A m \in 0..Len(kept) : SubSeq(kept, 1, m) = Nearest(at, q, D, m)
           /\ k = Cardinality(R) => Len(kept) = Cardinality(D)
<1> DEFINE T == A \intersect {hits[j] : j \in 1..k}
<1>0. /\ Located(at, q, R) /\ n \in Nat /\ hits = Nearest(at, q, R, n)
      /\ kept = Kept(hits, A) /\ D = A \intersect R
  BY DEF Hits, Sieved
<1>1. /\ k \in Nat /\ DOMAIN hits = 1..k /\ Len(hits) = k
      /\ \A j \in 1..k : hits[j] \in R
      /\ \A j \in 1..k : \A x \in Ahead(at, q, R, hits[j]) : \E i \in 1..k : x = hits[i]
      /\ k = Cardinality(R) => \A x \in R : \E i \in 1..k : x = hits[i]
  BY HitsFacts
<1>2. kept = Listed(at, q, T)
  BY <1>0, <1>1, KeptListed
<1>3. T \in SUBSET D /\ D \in SUBSET R
  BY <1>0, <1>1
<1>4. ASSUME NEW x \in T
      PROVE  Ahead(at, q, D, x) = Ahead(at, q, T, x)
  <2>1. PICK j \in 1..k : x = hits[j]
    OBVIOUS
  <2>2. \A y \in Ahead(at, q, R, x) : \E i \in 1..k : y = hits[i]
    BY <1>1, <2>1
  <2> QED BY <1>0, <1>1, <2>2 DEF Ahead
<1>5. k = Cardinality(R) => T = D
  BY <1>0, <1>1
<1> HIDE DEF T
<1>6. /\ IsFiniteSet(D) /\ Located(at, q, D) /\ Located(at, q, T)
      /\ Cardinality(T) <= Cardinality(D) /\ Cardinality(D) \in Nat
  <2>1. IsFiniteSet(D)
    BY <1>3, <1>0, FS_Subset DEF Located
  <2>2. IsFiniteSet(T) /\ Cardinality(T) <= Cardinality(D)
    BY <1>3, <2>1, FS_Subset
  <2> QED BY <1>3, <2>1, <2>2, <1>0, FS_CardinalityType DEF Located
<1>7. /\ kept \in Seq(T) /\ Len(kept) = Cardinality(T) /\ Cardinality(T) \in Nat
      /\ \A i \in 1..Len(kept) : kept[i] \in T /\ Rank(at, q, T, kept[i]) = i - 1
  BY <1>2, <1>6, ListedFacts
<1>8. ASSUME NEW m \in 0..Len(kept)
      PROVE  SubSeq(kept, 1, m) = Nearest(at, q, D, m)
  <2> DEFINE s == SubSeq(kept, 1, m)
  <2>1. m \in Nat /\ Smaller(m, Cardinality(D)) = m
    BY <1>6, <1>7 DEF Smaller
  <2>2. s = [i \in 1..m |-> kept[i]]
    BY <1>7
  <2> HIDE DEF s
  <2>3. ASSUME NEW i \in 1..m
        PROVE  s[i] \in D /\ Rank(at, q, D, s[i]) = i - 1
    <3>1. s[i] = kept[i] /\ i \in 1..Len(kept)
      BY <1>7, <2>2
    <3> QED BY <1>3, <1>4, <1>7, <3>1 DEF Rank
  <2>4. Ranked(s, at, q, D, m)
    BY <2>1, <2>2, <2>3 DEF Ranked
  <2> QED BY <1>6, <2>1, <2>4, NearestRanked DEF s
<1>9. k = Cardinality(R) => Len(kept) = Cardinality(D)
  BY <1>1, <1>5, <1>7
<1> QED BY <1>1, <1>6, <1>7, <1>8, <1>9

-----------------------------------------------------------------------------
(* Seek: the three ways to the same answer.                                *)

\* Only the places of the members count.
LEMMA NearestSame ==
    ASSUME NEW at, NEW bt, NEW q, NEW S, Located(at, q, S), Located(bt, q, S), NEW n \in Nat,
           \A id \in S : at[id] = bt[id]
    PROVE  Nearest(at, q, S, n) = Nearest(bt, q, S, n)
<1> DEFINE s == Nearest(at, q, S, n)
<1>1. Ranked(s, at, q, S, n)
  BY NearestRanked
<1>2. \A x \in S : Rank(at, q, S, x) = Rank(bt, q, S, x)
  <2>1. ASSUME NEW x \in S
        PROVE  Ahead(at, q, S, x) = Ahead(bt, q, S, x)
    <3>1. \A m \in S : Before(at, q, m, x) <=> Before(bt, q, m, x)
      BY DEF Before
    <3> QED BY <3>1 DEF Ahead
  <2> QED BY <2>1 DEF Rank
<1> HIDE DEF s
<1>3. Ranked(s, bt, q, S, n)
  BY <1>1, <1>2 DEF Ranked
<1> QED BY <1>3, NearestRanked DEF s

LEMMA Growth ==
    ASSUME NEW a \in Nat \ {0}, NEW w \in Nat \ {0, 1}
    PROVE  a * w \in Nat /\ a < a * w
<1>1. a * w = a + a * (w - 1) /\ a * (w - 1) \in Nat
  OBVIOUS
<1>2. a * (w - 1) >= 1
  OBVIOUS
<1> QED BY <1>1, <1>2

\* The index is asked, and reach is what it can find.
Asked(c, q, top, f, threshold, reach) ==
    /\ top \in Nat \ {0} /\ reach \subseteq Present(c) /\ Present(c) # {}
    /\ Located(c.index, q, Present(c))
    /\ FirstFetch(c, top, f, threshold) \in 0..Size(c)

\* Asking the index for more and more hits ends with the nearest of those that it
\* can find and the query admits.
LEMMA ProbeIsNearest ==
    ASSUME NEW c, NEW q, NEW top, NEW f, NEW threshold, NEW reach,
           Asked(c, q, top, f, threshold, reach)
    PROVE  Probe(c, q, top, f, threshold, reach) =
               Nearest(c.index, q, Admitted(c, q, f, threshold) \intersect reach, top)
<1> DEFINE A == Admitted(c, q, f, threshold)
<1> DEFINE D == A \intersect reach
<1> DEFINE want == Nearest(c.index, q, D, top)
<1> DEFINE N == Size(c)
<1> DEFINE hits(n) == Nearest(c.index, q, reach, n)
<1> DEFINE kept(n) == Kept(hits(n), A)
<1> DEFINE done(n) == Satisfied(c, top, n, hits(n), kept(n))
<1> DEFINE more(n) == Smaller(N, n * Widening)
<1> DEFINE Body(p) == [n \in 1..N |-> IF done(n) THEN SubSeq(kept(n), 1, Smaller(top, Len(kept(n))))
                                      ELSE p[more(n)]]
<1> DEFINE probe == CHOOSE p : p = Body(p)
<1>0. /\ top \in Nat \ {0} /\ reach \subseteq Present(c) /\ Present(c) # {}
      /\ Located(c.index, q, Present(c))
      /\ FirstFetch(c, top, f, threshold) \in 0..N
  BY DEF Asked
<1>1. Probe(c, q, top, f, threshold, reach) = probe[Larger(FirstFetch(c, top, f, threshold), 1)]
  BY DEF Probe
<1>2. N \in Nat \ {0} /\ Located(c.index, q, reach) /\ Cardinality(reach) \in Nat /\ Cardinality(reach) <= N
  <2>1. IsFiniteSet(Present(c)) /\ IsFiniteSet(reach) /\ Cardinality(reach) <= N
    BY <1>0, FS_Subset DEF Located, Size
  <2>2. N \in Nat /\ N # 0 /\ Cardinality(reach) \in Nat
    BY <1>0, <2>1, FS_CardinalityType, FS_EmptySet DEF Size
  <2> QED BY <1>0, <2>1, <2>2 DEF Located
<1> HIDE DEF N, A
<1>3. ASSUME NEW n \in 1..N
      PROVE  /\ Len(kept(n)) \in Nat /\ Len(kept(n)) <= Cardinality(D) /\ Cardinality(D) \in Nat
             /\ Len(hits(n)) = Smaller(n, Cardinality(reach))
             /\ \A m \in 0..Len(kept(n)) : SubSeq(kept(n), 1, m) = Nearest(c.index, q, D, m)
             /\ Len(hits(n)) = Cardinality(reach) => Len(kept(n)) = Cardinality(D)
  <2> DEFINE h == hits(n)
  <2> DEFINE k == Smaller(n, Cardinality(reach))
  <2> DEFINE l == kept(n)
  <2>1. Hits(h, k, c.index, q, reach, n)
    BY <1>2 DEF Hits
  <2>2. Sieved(l, D, h, A, reach)
    BY DEF Sieved
  <2>3. h = hits(n) /\ l = kept(n) /\ k = Smaller(n, Cardinality(reach))
    OBVIOUS
  <2> HIDE DEF h, k, l, D, hits, kept
  <2>4. /\ Len(l) \in Nat /\ Len(l) <= Cardinality(D) /\ Cardinality(D) \in Nat
        /\ Len(h) = k
        /\ \A m \in 0..Len(l) : SubSeq(l, 1, m) = Nearest(c.index, q, D, m)
        /\ k = Cardinality(reach) => Len(l) = Cardinality(D)
    BY <2>1, <2>2, KeptFacts
  <2> QED BY <2>3, <2>4
<1>4. ASSUME NEW n \in 1..N, done(n)
      PROVE  SubSeq(kept(n), 1, Smaller(top, Len(kept(n)))) = want
  <2>1. CASE Len(kept(n)) >= top
    <3>1. Smaller(top, Len(kept(n))) = top /\ top \in 0..Len(kept(n))
      BY <1>0, <1>3, <2>1 DEF Smaller
    <3> HIDE DEF kept
    <3> QED BY <1>3, <3>1
  <2>2. CASE ~(Len(kept(n)) >= top)
    <3>1. n >= N \/ Len(hits(n)) < n
      BY <1>4, <2>2 DEF Satisfied, N
    <3>2. Len(hits(n)) = Cardinality(reach)
      BY <1>2, <1>3, <3>1 DEF Smaller
    <3>3. Len(kept(n)) = Cardinality(D) /\ Cardinality(D) \in Nat /\ Cardinality(D) < top
      <4> HIDE DEF kept, hits, D
      <4> QED BY <1>0, <1>3, <2>2, <3>2
    <3>4. Smaller(top, Len(kept(n))) = Cardinality(D)
      BY <1>0, <3>3 DEF Smaller
    <3>5. SubSeq(kept(n), 1, Cardinality(D)) = Nearest(c.index, q, D, Cardinality(D))
      <4> HIDE DEF kept, hits, D
      <4> QED BY <1>3, <3>3
    <3>6. Smaller(top, Cardinality(D)) = Smaller(Cardinality(D), Cardinality(D))
      BY <1>0, <3>3 DEF Smaller
    <3>7. Nearest(c.index, q, D, Cardinality(D)) = want
      <4> HIDE DEF D
      <4> QED BY <3>6 DEF Nearest
    <3> QED BY <3>4, <3>5, <3>7
  <2> QED BY <2>1, <2>2
<1>5. ASSUME NEW n \in 1..N, ~done(n)
      PROVE  more(n) \in 1..N /\ n < more(n)
  <2>1. n < N
    BY <1>2, <1>5 DEF Satisfied, N
  <2>2. n * Widening \in Nat /\ n < n * Widening
    BY CollectionAssumption, Growth
  <2> QED BY <1>2, <2>1, <2>2 DEF Smaller
<1> HIDE DEF want, done, more, kept
<1>6. \A n \in 1..N : probe[n] = IF done(n) THEN want ELSE probe[more(n)]
  <2> DEFINE constant == [n \in 1..N |-> want]
  <2>1. constant = Body(constant)
    BY <1>4, <1>5
  <2>2. probe = Body(probe)
    <3> HIDE DEF constant, Body
    <3> QED BY <2>1
  <2> HIDE DEF probe
  <2> QED BY <1>4, <2>2
<1> HIDE DEF probe
<1>7. \A n \in 1..N : probe[n] = want
  <2> DEFINE B == {n \in 1..N : probe[n] # want}
  <2>1. SUFFICES ASSUME B # {} PROVE FALSE
    OBVIOUS
  <2>2. Max(B) \in B /\ \A n \in B : n <= Max(B)
    <3>1. IsFiniteSet(B) /\ B \subseteq Nat
      <4>1. B \in SUBSET (1..N) /\ IsFiniteSet(1..N)
        BY <1>2, FS_Interval
      <4> QED BY <1>2, <4>1, FS_Subset
    <3> HIDE DEF B
    <3> QED BY <2>1, <3>1, MaxFacts
  <2> DEFINE n == Max(B)
  <2> HIDE DEF n
  <2>3. n \in 1..N /\ probe[n] # want /\ \A m \in 1..N : n < m => probe[m] = want
    BY <1>2, <2>2 DEF n
  <2> QED BY <1>5, <1>6, <2>3
<1>8. Larger(FirstFetch(c, top, f, threshold), 1) \in 1..N
  BY <1>0, <1>2 DEF Larger
<1> QED BY <1>1, <1>7, <1>8 DEF want, A

\* The metadata index finds those that the filter admits, but for the records whose
\* value it encodes otherwise.
LEMMA CandidatesFacts ==
    ASSUME NEW c, c.exact = UNION {Entries(c, id, c.records[id].payload) : id \in Present(c)},
           NEW f \in Filters, CandidatesOf(c, f) # NoConstraints, NEW q, NEW threshold
    PROVE  Admitted(c, q, f, threshold) \intersect CandidatesOf(c, f) =
               Admitted(c, q, f, threshold) \ EncodedApart(c, f)
<1> DEFINE constraints == ExactConstraints(f)
<1> DEFINE payload(id) == c.records[id].payload
<1> DEFINE alike(id, con) ==
       /\ con[1] \in DOMAIN payload(id)
       /\ \E w \in con[2] : EncodeValue(w) = EncodeValue(payload(id)[con[1]])
<1>1. /\ c.accelerated /\ f # Everything /\ f \in Nodes
      /\ CandidatesOf(c, f) = ExactCandidates(c.exact, f) /\ constraints # NoConstraints
  BY DEF CandidatesOf, ExactCandidates, Filters
<1>2. ASSUME NEW p
      PROVE  p \in c.exact <=> \E id \in Present(c) : \E field \in DOMAIN payload(id) :
                                   p = <<field, EncodeValue(payload(id)[field]), id>>
  BY <1>1 DEF Entries, Postings
<1> DEFINE found(con) == {p[3] : p \in {e \in c.exact :
                                           e[1] = con[1] /\ \E v \in con[2] : e[2] = EncodeValue(v)}}
<1>3. ASSUME NEW con, NEW id \in Present(c)
      PROVE  id \in found(con) <=> alike(id, con)
  <2>1. ASSUME id \in found(con)
        PROVE  alike(id, con)
    <3>1. PICK e \in c.exact : e[3] = id /\ e[1] = con[1] /\ \E v \in con[2] : e[2] = EncodeValue(v)
      BY <2>1
    <3>2. PICK i \in Present(c) : \E field \in DOMAIN payload(i) :
              e = <<field, EncodeValue(payload(i)[field]), i>>
      BY <1>2, <3>1
    <3> QED BY <3>1, <3>2
  <2>2. ASSUME alike(id, con)
        PROVE  id \in found(con)
    <3> DEFINE e == <<con[1], EncodeValue(payload(id)[con[1]]), id>>
    <3>1. e \in c.exact
      BY <1>2, <2>2
    <3>2. e[1] = con[1] /\ e[3] = id /\ \E v \in con[2] : e[2] = EncodeValue(v)
      BY <2>2
    <3> HIDE DEF e
    <3> QED BY <3>1, <3>2
  <2> QED BY <2>1, <2>2
<1>4. CandidatesOf(c, f) = {id \in UNION {found(con) : con \in constraints} :
                               \A con \in constraints : id \in found(con)}
  BY <1>1 DEF ExactCandidates
<1>5. ASSUME NEW id \in Admitted(c, q, f, threshold)
      PROVE  id \in CandidatesOf(c, f) <=> id \notin EncodedApart(c, f)
  <2>1. id \in Present(c) /\ Matches(f, payload(id))
    BY DEF Admitted
  <2>2. constraints # {} /\ \A con \in constraints : Meets(payload(id), con)
    BY <1>1, <2>1, ConstraintsAreMet
  <2>3. id \in CandidatesOf(c, f) <=> \A con \in constraints : alike(id, con)
    <3> HIDE DEF constraints, alike, found
    <3> QED BY <1>3, <1>4, <2>1, <2>2
  <2>4. id \in EncodedApart(c, f) <=> \E con \in constraints : ~alike(id, con)
    <3>1. \A con \in constraints :
             con[1] \in DOMAIN payload(id) /\ {w \in con[2] : Satisfies("eq", payload(id)[con[1]], w)} # {}
      BY <2>2 DEF Meets
    <3> HIDE DEF constraints
    <3>2. id \in EncodedApart(c, f) <=>
             \E con \in constraints : /\ con[1] \in DOMAIN payload(id)
                                      /\ {w \in con[2] : Satisfies("eq", payload(id)[con[1]], w)} # {}
                                      /\ \A w \in con[2] :
                                            EncodeValue(w) # EncodeValue(payload(id)[con[1]])
      BY <1>1, <2>1 DEF EncodedApart, constraints
    <3> QED BY <3>1, <3>2
  <2> QED BY <2>3, <2>4
<1> QED BY <1>5

\* Seek, in a collection whose containers agree, for any number of hits.
LEMMA SeekIsNearest ==
    ASSUME ContainersAgree, NEW q \in Places, NEW top \in Nat, NEW f \in Filters, NEW threshold,
           NEW reach, reach \subseteq Present(collection)
    PROVE  LET c == collection
               admitted == Admitted(c, q, f, threshold)
               strategy == Strategy(c, top, f, threshold)
           IN  Seek(c, q, top, f, threshold, reach) =
                   Nearest(PlaceOf(c), q,
                           IF strategy = "ann_index" THEN admitted \intersect reach
                           ELSE IF strategy = "full_scan" THEN admitted
                           ELSE admitted \ EncodedApart(c, f), top)
<1> DEFINE c == collection
<1> DEFINE A == Admitted(c, q, f, threshold)
<1> DEFINE strategy == Strategy(c, top, f, threshold)
<1> DEFINE due == IF strategy = "ann_index" THEN A \intersect reach
                  ELSE IF strategy = "full_scan" THEN A ELSE A \ EncodedApart(c, f)
<1>1. /\ c.exact = UNION {Entries(c, id, c.records[id].payload) : id \in Present(c)}
      /\ \A id \in Present(c) : c.index[id] = c.records[id].at /\ c.records[id] \in RecordType
  BY DEF ContainersAgree, TypeOK
<1>2. Located(PlaceOf(c), q, Present(c)) /\ Located(c.index, q, Present(c))
  <2>1. Places \subseteq Nat
    BY CollectionAssumption DEF Places
  <2>2. \A id \in Present(c) : c.index[id] \in Nat /\ PlaceOf(c)[id] = c.index[id]
    BY <1>1, <2>1, RecordFacts DEF PlaceOf
  <2>3. Present(c) \in SUBSET Ids /\ IsFiniteSet(Present(c)) /\ Present(c) \subseteq Nat
    <3>1. Present(c) \in SUBSET Ids
      BY DEF Present
    <3> QED BY <3>1, CollectionAssumption, FS_Subset
  <2> QED BY <2>1, <2>2, <2>3 DEF Located
<1>3. A \subseteq Present(c)
  BY DEF Admitted
<1>4. \A S \in SUBSET Present(c) : Located(PlaceOf(c), q, S) /\ Located(c.index, q, S)
  BY <1>2, FS_Subset DEF Located
<1>5. \A id \in Present(c) : PlaceOf(c)[id] = c.index[id]
  BY <1>1 DEF PlaceOf
<1> HIDE DEF A, strategy, c
<1>6. due \in SUBSET Present(c)
  BY <1>3
<1>7. CASE top = 0 \/ Present(c) = {}
  <2>1. Smaller(top, Cardinality(due)) = 0
    <3>1. Cardinality(due) \in Nat
      BY <1>4, <1>6, RankGrows
    <3>2. top = 0 \/ Cardinality(due) = 0
      BY <1>6, <1>7, FS_EmptySet
    <3> HIDE DEF due
    <3> QED BY <3>1, <3>2 DEF Smaller
  <2>2. Nearest(PlaceOf(c), q, due, top) = <<>>
    <3> HIDE DEF due
    <3> QED BY <2>1 DEF Nearest
  <2>3. Seek(c, q, top, f, threshold, reach) = <<>>
    BY <1>7 DEF Seek
  <2> QED BY <2>2, <2>3 DEF A, strategy, c
<1>8. CASE top # 0 /\ Present(c) # {} /\ strategy = "full_scan"
  BY <1>8 DEF Seek, A, strategy, c
<1>9. CASE top # 0 /\ Present(c) # {} /\ strategy = "exact_candidates"
  <2>1. CandidatesOf(c, f) # NoConstraints
    BY <1>9 DEF Strategy, strategy
  <2>2. A \intersect CandidatesOf(c, f) = A \ EncodedApart(c, f)
    BY <1>1, <2>1, CandidatesFacts DEF A
  <2>3. Seek(c, q, top, f, threshold, reach) = Nearest(PlaceOf(c), q, A \intersect CandidatesOf(c, f), top)
    BY <1>9 DEF Seek, A, strategy
  <2> QED BY <1>9, <2>2, <2>3 DEF A, strategy, c
<1>10. CASE top # 0 /\ Present(c) # {} /\ strategy = "ann_index"
  <2>1. Size(c) \in Nat \ {0}
    BY <1>2, <1>10, RankGrows, FS_EmptySet DEF Size, Located
  <2>2. ~PreferFullScan(c, top, threshold)
    BY <1>10 DEF Strategy, strategy
  <2>3. threshold = NoThreshold /\ top <= Size(c)
    <3>1. threshold = NoThreshold /\ ~(top >= Larger(Size(c) \div 2, 1))
      BY <2>2 DEF PreferFullScan
    <3>2. Size(c) \div 2 \in Nat /\ Size(c) \div 2 <= Size(c)
      BY <2>1
    <3> QED BY <2>1, <3>1, <3>2 DEF Larger
  <2>4. FirstFetch(c, top, f, threshold) \in 0..Size(c)
    <3>1. top * FetchFactor \in Nat /\ FetchFloor \in Nat
      BY CollectionAssumption
    <3> QED BY <2>1, <2>3, <3>1 DEF FirstFetch, Smaller, Larger
  <2>5. Probe(c, q, top, f, threshold, reach) = Nearest(c.index, q, A \intersect reach, top)
    <3>1. Asked(c, q, top, f, threshold, reach)
      BY <1>2, <1>10, <2>4 DEF c, Asked
    <3>2. Probe(c, q, top, f, threshold, reach) =
              Nearest(c.index, q, Admitted(c, q, f, threshold) \intersect reach, top)
      BY <3>1, ProbeIsNearest
    <3> QED BY <3>2 DEF A
  <2>6. Nearest(c.index, q, A \intersect reach, top) = Nearest(PlaceOf(c), q, A \intersect reach, top)
    BY <1>3, <1>4, <1>5, NearestSame
  <2>7. Seek(c, q, top, f, threshold, reach) = Probe(c, q, top, f, threshold, reach)
    BY <1>10 DEF Seek, strategy
  <2> QED BY <1>10, <2>5, <2>6, <2>7 DEF A, strategy, c
<1>11. strategy \in {"full_scan", "exact_candidates", "ann_index"}
  BY DEF Strategy, strategy
<1> QED BY <1>7, <1>8, <1>9, <1>10, <1>11

\* SeekIsExact: in every reachable state of a collection, whichever way seek takes,
\* it answers with the nearest of the records that are due.
THEOREM SeekFindsTheNearest == Spec => []SeekIsExact
<1>1. ContainersAgree => SeekIsExact
  <2> SUFFICES ASSUME ContainersAgree,
                      NEW q \in Places, NEW top \in 0..2, NEW f \in Filters,
                      NEW threshold \in {NoThreshold, 3},
                      NEW reach \in IF Strategy(collection, top, f, threshold) = "ann_index"
                                    THEN Reaches(collection) ELSE {Present(collection)}
               PROVE  Seek(collection, q, top, f, threshold, reach) =
                          Nearest(PlaceOf(collection), q,
                                  IF Strategy(collection, top, f, threshold) = "ann_index"
                                  THEN Admitted(collection, q, f, threshold) \intersect reach
                                  ELSE IF Strategy(collection, top, f, threshold) = "full_scan"
                                  THEN Admitted(collection, q, f, threshold)
                                  ELSE Admitted(collection, q, f, threshold)
                                           \ EncodedApart(collection, f), top)
    BY DEF SeekIsExact
  <2>1. reach \subseteq Present(collection) /\ top \in Nat
    BY DEF Reaches
  <2> QED BY <2>1, SeekIsNearest
<1> QED BY <1>1, ContainersAlwaysAgree, PTL

-----------------------------------------------------------------------------
(* Training: the published state, the log behind it and what a checkpoint   *)
(* has read so far.                                                         *)

IsState(s) ==
    /\ s = State(s.codebook, s.records)
    /\ s.codebook \in BOOLEAN /\ s.records \in AnyStore

StatesAre ==
    /\ IsMade(collection)
    /\ IsState(base) /\ IsState(image)
    /\ log \in Seq(LogEntry) /\ Len(log) <= MaxLog
    /\ step \in {"idle", "records", "publish", "reset"}
    /\ training \in BOOLEAN /\ trained \in BOOLEAN
    /\ races \subseteq {"truncated", "half_image"}

\* A codebook never goes away: not from memory while it is on disk, not from the
\* disk by a checkpoint, and a training has written one before it returns.
CodebooksStay ==
    /\ base.codebook => collection.trained
    /\ trained => base.codebook
    /\ step # "idle" =>
          /\ image.codebook => collection.trained
          /\ base.codebook \/ training => image.codebook
    /\ step = "reset" => base = image

\* No state is half encoded, unless a training came between the codebook and the
\* records of an image.
NoneIsHalf ==
    "half_image" \notin races =>
        /\ base.records \in Stores(base.codebook)
        /\ step = "records" => image.codebook = collection.trained
        /\ step \in {"publish", "reset"} => image.records \in Stores(image.codebook)

\* A crash leaves what the client has, before the image is published, after it, and
\* after the log is truncated.
DiskIsCurrent ==
    LET R == collection.records
        t == collection.trained
    IN races = {} =>
          /\ Agreed(base.records, base.codebook, log, R, t)
          /\ step \in {"publish", "reset"} =>
                /\ Agreed(image.records, image.codebook, log, R, t)
                /\ Agreed(image.records, image.codebook, <<>>, R, t)

IInv == StatesAre /\ CodebooksStay /\ NoneIsHalf /\ DiskIsCurrent

-----------------------------------------------------------------------------
(* What writes, trainings and crashes do to the agreement of disk and memory. *)

LEMMA EncodedPut ==
    ASSUME NEW R \in Stores(FALSE), NEW e \in LogEntry
    PROVE  Encoded(Put(R, e.id, RowOf(FALSE, e))) = Put(Encoded(R), e.id, RowOf(TRUE, e))
<1> DEFINE S == Put(R, e.id, RowOf(FALSE, e))
<1>1. /\ e.id \in Ids /\ S[e.id] = RowOf(FALSE, e)
      /\ \A id \in Ids \ {e.id} : S[id] = R[id]
  BY EntryFacts DEF Put, Stores
<1>2. Encoded(S)[e.id] = RowOf(TRUE, e)
  <2>1. CASE e.at = NoPlace
    BY <1>1, <2>1 DEF Encoded, RowOf
  <2>2. CASE e.at # NoPlace
    <3>1. S[e.id] = Row(FALSE, e.at, e.payload) /\ S[e.id] # NoRecord
      BY <1>1, <2>2, EntryFacts, RowFacts, RecordFacts DEF RowOf
    <3>2. S[e.id].at = e.at /\ S[e.id].payload = e.payload
      <4>1. /\ Row(FALSE, e.at, e.payload).at = e.at
            /\ Row(FALSE, e.at, e.payload).payload = e.payload
        BY DEF Row
      <4> HIDE DEF S
      <4> QED BY <3>1, <4>1
    <3>3. RowOf(TRUE, e) = Row(TRUE, e.at, e.payload)
      BY <2>2 DEF RowOf
    <3> HIDE DEF S
    <3> QED BY <1>1, <3>1, <3>2, <3>3 DEF Encoded
  <2> QED BY <2>1, <2>2
<1>3. \A id \in Ids \ {e.id} : Encoded(S)[id] = Encoded(R)[id]
  <2> HIDE DEF S
  <2> QED BY <1>1 DEF Encoded
<1>4. Encoded(S) = [id \in Ids |-> Encoded(S)[id]] /\ DOMAIN Encoded(R) = Ids
  <2> HIDE DEF S
  <2> QED BY DEF Encoded
<1> DEFINE X == Encoded(S)
<1> DEFINE Y == Encoded(R)
<1> DEFINE row == RowOf(TRUE, e)
<1> HIDE DEF S, X, Y, row
<1>5. Put(Y, e.id, row) = [id \in Ids |-> IF id = e.id THEN row ELSE Y[id]]
  BY <1>1, <1>4 DEF Put, Y
<1>6. X = [id \in Ids |-> IF id = e.id THEN row ELSE Y[id]]
  <2>1. X = [id \in Ids |-> X[id]] /\ X[e.id] = row /\ \A id \in Ids \ {e.id} : X[id] = Y[id]
    BY <1>2, <1>3, <1>4 DEF X, Y, row
  <2> QED BY <2>1
<1> QED BY <1>5, <1>6 DEF X, Y, row, S

\* A write goes into the log and into memory.
LEMMA AgreedAppend ==
    ASSUME NEW b \in BOOLEAN, NEW t \in BOOLEAN, NEW B, NEW R, NEW L \in Seq(LogEntry),
           NEW e \in LogEntry, Agreed(B, b, L, R, t)
    PROVE  Agreed(B, b, Append(L, e), Put(R, e.id, RowOf(t, e)), t)
<1>1. B \in Stores(b) /\ B \in AnyStore
  BY RecordFacts DEF Agreed
<1>2. Roll(B, b, Append(L, e)) = Put(Roll(B, b, L), e.id, RowOf(b, e))
  BY <1>1, RollAppend
<1>3. CASE t /\ ~b
  <2>1. R = Encoded(Roll(B, FALSE, L)) /\ Roll(B, FALSE, L) \in Stores(FALSE)
    BY <1>3, <1>1, RolledType DEF Agreed, Roll
  <2>2. Encoded(Roll(B, FALSE, Append(L, e))) = Put(R, e.id, RowOf(TRUE, e))
    BY <1>2, <1>3, <2>1, EncodedPut
  <2> QED BY <1>1, <1>3, <2>2 DEF Agreed
<1>4. CASE ~(t /\ ~b)
  <2>1. t = b /\ R = Roll(B, b, L)
    BY <1>4 DEF Agreed
  <2> QED BY <1>1, <1>2, <1>4, <2>1 DEF Agreed
<1> QED BY <1>3, <1>4

\* The records of memory are encoded, those of the disk are not.
LEMMA AgreedTrain ==
    ASSUME NEW b \in BOOLEAN, NEW B, NEW R, NEW L, Agreed(B, b, L, R, FALSE)
    PROVE  Agreed(B, b, L, Encoded(R), TRUE) /\ ~b
BY DEF Agreed

\* Writes that are logged, with what is true of the collection that they are made in.
LEMMA LoggedKeeps ==
    ASSUME IInv, NEW e \in LogEntry, collection' = Replayed(collection, e), Logged(e)
    PROVE  IInv'
<1> DEFINE R == collection.records
<1> DEFINE t == collection.trained
<1> DEFINE a == collection.accelerated
<1>1. /\ t \in BOOLEAN /\ a \in BOOLEAN /\ R \in Stores(t) /\ R \in AnyStore
      /\ collection = Made(R, t, a)
  BY RecordFacts DEF IInv, StatesAre, IsMade
<1>2. /\ log \in Seq(LogEntry) /\ log' = Append(log, e) /\ Len(log) < MaxLog
      /\ log' \in Seq(LogEntry) /\ Len(log') <= MaxLog
      /\ UNCHANGED <<base, step, image, training, trained>>
      /\ races' = races \union Races(step)
  <2>1. log \in Seq(LogEntry) /\ Len(log) < MaxLog /\ log' = Append(log, e)
    BY DEF IInv, StatesAre, Logged
  <2>2. Append(log, e) \in Seq(LogEntry) /\ Len(Append(log, e)) = Len(log) + 1 /\ Len(log) \in Nat
    BY <2>1
  <2> QED BY <2>1, <2>2, TrainingAssumption DEF Logged
<1> DEFINE row == RowOf(t, e)
<1> DEFINE S == Put(R, e.id, row)
<1> HIDE DEF R, t, a, row
<1>3. collection' = Made(S, t, a) /\ S \in Stores(t)
  <2>1. Replayed(Made(R, t, a), e) = Made(S, t, a)
    BY <1>1, ReplayedMade DEF row
  <2>2. S \in Stores(t)
    BY <1>1, EntryFacts, PutFacts DEF row
  <2> QED BY <1>1, <2>1, <2>2
<1>4. IsMade(collection') /\ collection'.records = S /\ collection'.trained = t
  <2>1. Made(S, t, a).records = S /\ Made(S, t, a).trained = t
    BY DEF Made
  <2> HIDE DEF S
  <2> QED BY <1>1, <1>3, <2>1, MadeIsMade
<1> HIDE DEF S
<1>5. races' \subseteq {"truncated", "half_image"} /\ races \subseteq races'
  BY <1>2 DEF IInv, StatesAre, Races
<1>6. StatesAre'
  BY <1>2, <1>4, <1>5 DEF IInv, StatesAre, IsState
<1>7. CodebooksStay'
  BY <1>2, <1>4 DEF IInv, CodebooksStay, t
<1>8. NoneIsHalf'
  BY <1>2, <1>4, <1>5 DEF IInv, NoneIsHalf, t
<1>9. DiskIsCurrent'
  <2>1. races' = {} => races = {} /\ step \notin {"publish", "reset"}
    BY <1>2 DEF Races
  <2>2. races = {} => Agreed(base.records, base.codebook, log, R, t)
    BY DEF IInv, DiskIsCurrent, R, t
  <2>3. base.codebook \in BOOLEAN
    BY DEF IInv, StatesAre, IsState
  <2>4. races = {} => Agreed(base.records, base.codebook, log', S, t)
    BY <1>1, <1>2, <2>2, <2>3, AgreedAppend DEF S, row
  <2> QED BY <1>2, <1>4, <2>1, <2>4 DEF DiskIsCurrent
<1> QED BY <1>6, <1>7, <1>8, <1>9 DEF IInv

\* Training changes the collection; the disk still has what it encodes.
LEMMA TrainFacts ==
    ASSUME IInv, Train
    PROVE  /\ ~collection.trained /\ ~base.codebook
           /\ IsMade(collection)' /\ collection'.trained = TRUE
           /\ collection'.records = Encoded(collection.records)
           /\ \A B, L : \A b \in BOOLEAN :
                 Agreed(B, b, L, collection.records, collection.trained)
                     => Agreed(B, b, L, collection'.records, collection'.trained)
<1> DEFINE R == collection.records
<1> DEFINE a == collection.accelerated
<1>1. /\ a \in BOOLEAN /\ R \in AnyStore /\ collection = Made(R, collection.trained, a)
      /\ collection.trained = FALSE
  BY RecordFacts DEF IInv, StatesAre, IsMade, Train
<1> HIDE DEF R, a
<1>2. collection' = Made(Encoded(R), TRUE, a) /\ Encoded(R) \in Stores(TRUE)
  <2>1. collection = Made(R, FALSE, a) /\ collection' = Trained(collection)
    BY <1>1 DEF Train
  <2>2. Trained(Made(R, FALSE, a)) = Made(Encoded(R), TRUE, a) /\ Encoded(R) \in Stores(TRUE)
    BY <1>1, TrainedMade
  <2> QED BY <2>1, <2>2
<1>3. collection'.records = Encoded(R) /\ collection'.trained = TRUE
  BY <1>2 DEF Made
<1>4. IsMade(collection')
  BY <1>1, <1>2, MadeIsMade
<1>5. \A B, L : \A b \in BOOLEAN : Agreed(B, b, L, R, FALSE) => Agreed(B, b, L, Encoded(R), TRUE)
  BY AgreedTrain
<1>6. ~base.codebook
  BY <1>1 DEF IInv, CodebooksStay
<1> QED BY <1>1, <1>3, <1>4, <1>5, <1>6 DEF R

-----------------------------------------------------------------------------
(* The invariant of training. *)

LEMMA TrainingInitially == TrainingInit => IInv
<1> SUFFICES ASSUME TrainingInit PROVE IInv
  OBVIOUS
<1> DEFINE R == [id \in Ids |-> NoRecord]
<1> DEFINE no == FALSE
<1>1. R \in Stores(no) /\ R \in AnyStore /\ no \in BOOLEAN
  BY DEF Stores, AnyStore
<1>2. collection = Made(R, no, no)
  <2>1. PostingsOf(R, no) = {}
    BY DEF PostingsOf
  <2> QED BY <2>1 DEF TrainingInit, EmptyCollection, Made
<1>3. IsMade(collection) /\ collection.records = R /\ collection.trained = no
  <2>1. IsMade(Made(R, no, no))
    BY <1>1, MadeIsMade
  <2> QED BY <1>2, <2>1 DEF Made
<1>4. /\ base.codebook = no /\ base.records = R /\ base = State(base.codebook, base.records)
      /\ image = base
  BY <1>3 DEF TrainingInit, State
<1>5. log = <<>> /\ log \in Seq(LogEntry) /\ Len(log) <= MaxLog
  BY TrainingAssumption DEF TrainingInit
<1>6. Roll(R, no, log) = R
  BY <1>5 DEF Roll, Rolled, On
<1>7. Agreed(R, no, log, R, no)
  BY <1>1, <1>6 DEF Agreed
<1> HIDE DEF R, no
<1>8. StatesAre
  BY <1>1, <1>3, <1>4, <1>5 DEF TrainingInit, StatesAre, IsState
<1>9. CodebooksStay
  BY <1>3, <1>4 DEF TrainingInit, CodebooksStay, no
<1>10. NoneIsHalf
  BY <1>1, <1>4 DEF TrainingInit, NoneIsHalf
<1>11. DiskIsCurrent
  BY <1>3, <1>4, <1>7 DEF TrainingInit, DiskIsCurrent
<1> QED BY <1>8, <1>9, <1>10, <1>11 DEF IInv

LEMMA TrainingKeeps == IInv /\ [TrainingNext]_vars => IInv'
<1> SUFFICES ASSUME IInv, [TrainingNext]_vars
             PROVE  IInv'
  OBVIOUS
<1>0. /\ StatesAre /\ CodebooksStay /\ NoneIsHalf /\ DiskIsCurrent
      /\ collection.trained \in BOOLEAN /\ IsMade(collection)
      /\ collection.records \in Stores(collection.trained) /\ collection.records \in AnyStore
      /\ base.codebook \in BOOLEAN /\ image.codebook \in BOOLEAN
  BY RecordFacts DEF IInv, StatesAre, IsState, IsMade
<1>1. ASSUME NEW id \in Ids, RemoveAndLog(id)
      PROVE  IInv'
  <2>1. Delete(id) \in LogEntry
    BY DEF Delete, LogEntry
  <2>2. Delete(id).id = id /\ Delete(id).at = NoPlace
    BY DEF Delete
  <2>3. collection' = Replayed(collection, Delete(id)) /\ Logged(Delete(id))
    BY <1>1, <2>2 DEF RemoveAndLog, RemoveId, Replayed
  <2> QED BY <2>1, <2>3, LoggedKeeps
<1>2. ASSUME NEW id \in Ids, NEW at \in PlacesOf[id], NEW p \in Payloads, AddAndLog(id, at, p)
      PROVE  IInv'
  <2>1. at \in Places /\ at # NoPlace
    BY RecordFacts DEF Places
  <2>2. Insert(id, at, p) \in LogEntry
    BY <2>1 DEF Insert, LogEntry
  <2>3. Insert(id, at, p).id = id /\ Insert(id, at, p).at = at /\ Insert(id, at, p).payload = p
    BY DEF Insert
  <2>4. collection' = Replayed(collection, Insert(id, at, p)) /\ Logged(Insert(id, at, p))
    BY <1>2, <2>1, <2>3 DEF AddAndLog, Add, Replayed
  <2> QED BY <2>2, <2>4, LoggedKeeps
<1>3. CASE TrainInMemory
  <2>1. /\ Train /\ UNCHANGED <<base, log, step, image, training, trained>>
        /\ races \subseteq races' /\ races' \subseteq races \union {"half_image"}
        /\ step = "records" /\ ~image.codebook => "half_image" \in races'
    BY <1>3 DEF TrainInMemory
  <2>2. StatesAre'
    BY <1>0, <2>1, TrainFacts DEF StatesAre, IsState
  <2>3. CodebooksStay'
    BY <1>0, <2>1, TrainFacts DEF CodebooksStay
  <2>4. NoneIsHalf'
    BY <1>0, <2>1, TrainFacts DEF NoneIsHalf
  <2>5. DiskIsCurrent'
    BY <1>0, <2>1, TrainFacts DEF DiskIsCurrent
  <2> QED BY <2>2, <2>3, <2>4, <2>5 DEF IInv
<1>4. CASE StartTraining
  <2>1. /\ Train /\ step = "idle" /\ step' = "records" /\ training' = TRUE
        /\ UNCHANGED <<base, log, trained, races>>
        /\ image' = [image EXCEPT !.codebook = TRUE]
    BY <1>4 DEF StartTraining
  <2>2. IsState(image') /\ image'.codebook = TRUE
    <3>1. image = State(image.codebook, image.records) /\ image.records \in AnyStore
      BY <1>0 DEF StatesAre, IsState
    <3>2. image' = State(TRUE, image.records)
      BY <2>1, <3>1 DEF State
    <3> QED BY <3>1, <3>2 DEF IsState, State
  <2>3. StatesAre'
    BY <1>0, <2>1, <2>2, TrainFacts DEF StatesAre, IsState
  <2>4. CodebooksStay'
    BY <1>0, <2>1, <2>2, TrainFacts DEF CodebooksStay
  <2>5. NoneIsHalf'
    BY <1>0, <2>1, <2>2, TrainFacts DEF NoneIsHalf
  <2>6. DiskIsCurrent'
    BY <1>0, <2>1, TrainFacts DEF DiskIsCurrent
  <2> QED BY <2>3, <2>4, <2>5, <2>6 DEF IInv
<1>5. CASE StartCheckpoint
  <2>1. /\ step = "idle" /\ step' = "records" /\ training' = FALSE
        /\ UNCHANGED <<collection, base, log, trained, races>>
        /\ image' = [image EXCEPT !.codebook = collection.trained]
    BY <1>5 DEF StartCheckpoint
  <2>2. IsState(image') /\ image'.codebook = collection.trained
    <3>1. image = State(image.codebook, image.records) /\ image.records \in AnyStore
      BY <1>0 DEF StatesAre, IsState
    <3> DEFINE t == collection.trained
    <3>2. t \in BOOLEAN
      BY <1>0
    <3> HIDE DEF t
    <3>3. image' = State(t, image.records)
      BY <2>1, <3>1 DEF State, t
    <3>4. image'.codebook = t /\ image'.records = image.records
      BY <3>3 DEF State
    <3> QED BY <3>1, <3>2, <3>3, <3>4 DEF IsState, t
  <2>3. StatesAre'
    BY <1>0, <2>1, <2>2 DEF StatesAre, IsState, IsMade
  <2>4. CodebooksStay'
    BY <1>0, <2>1, <2>2 DEF CodebooksStay
  <2>5. NoneIsHalf'
    BY <1>0, <2>1, <2>2 DEF NoneIsHalf
  <2>6. DiskIsCurrent'
    BY <1>0, <2>1 DEF DiskIsCurrent
  <2> QED BY <2>3, <2>4, <2>5, <2>6 DEF IInv
<1>6. CASE CopyRecords
  <2>1. /\ step = "records" /\ step' = "publish"
        /\ UNCHANGED <<collection, base, log, training, trained, races>>
        /\ image' = [image EXCEPT !.records = collection.records]
    BY <1>6 DEF CopyRecords
  <2>2. IsState(image') /\ image'.codebook = image.codebook /\ image'.records = collection.records
    <3>1. image = State(image.codebook, image.records)
      BY <1>0 DEF StatesAre, IsState
    <3>2. image' = State(image.codebook, collection.records)
      BY <2>1, <3>1 DEF State
    <3>3. image'.codebook = image.codebook /\ image'.records = collection.records
      BY <3>2 DEF State
    <3> QED BY <1>0, <3>2, <3>3 DEF IsState
  <2>3. StatesAre'
    BY <1>0, <2>1, <2>2 DEF StatesAre, IsState, IsMade
  <2>4. CodebooksStay'
    BY <1>0, <2>1, <2>2 DEF CodebooksStay
  <2>5. NoneIsHalf'
    BY <1>0, <2>1, <2>2 DEF NoneIsHalf
  <2>6. DiskIsCurrent'
    <3> DEFINE R == collection.records
    <3> DEFINE t == collection.trained
    <3>1. races = {} => Agreed(base.records, base.codebook, log, R, t) /\ image.codebook = t
      BY <1>0, <2>1 DEF DiskIsCurrent, NoneIsHalf
    <3>2. log \in Seq(LogEntry)
      BY <1>0 DEF StatesAre
    <3>3. races = {} => Agreed(R, t, log, R, t) /\ Agreed(R, t, <<>>, R, t)
      BY <1>0, <3>1, <3>2, Rebase
    <3> QED BY <2>1, <2>2, <3>1, <3>3 DEF DiskIsCurrent
  <2> QED BY <2>3, <2>4, <2>5, <2>6 DEF IInv
<1>7. CASE Publish
  <2>1. /\ step = "publish" /\ step' = "reset" /\ base' = image
        /\ UNCHANGED <<collection, log, image, training, trained, races>>
    BY <1>7 DEF Publish
  <2>2. StatesAre'
    BY <1>0, <2>1 DEF StatesAre, IsState, IsMade
  <2>3. CodebooksStay'
    BY <1>0, <2>1 DEF CodebooksStay
  <2>4. NoneIsHalf'
    BY <1>0, <2>1 DEF NoneIsHalf
  <2>5. DiskIsCurrent'
    BY <1>0, <2>1 DEF DiskIsCurrent
  <2> QED BY <2>2, <2>3, <2>4, <2>5 DEF IInv
<1>8. CASE Reset
  <2>1. /\ step = "reset" /\ step' = "idle" /\ log' = <<>>
        /\ trained' = (trained \/ training)
        /\ UNCHANGED <<collection, base, image, training, races>>
    BY <1>8 DEF Reset
  <2>2. StatesAre'
    <3>1. <<>> \in Seq(LogEntry) /\ Len(<<>>) <= MaxLog
      BY TrainingAssumption
    <3> QED BY <1>0, <2>1, <3>1 DEF StatesAre, IsState, IsMade
  <2>3. CodebooksStay'
    BY <1>0, <2>1 DEF CodebooksStay
  <2>4. NoneIsHalf'
    BY <1>0, <2>1 DEF NoneIsHalf
  <2>5. DiskIsCurrent'
    BY <1>0, <2>1 DEF DiskIsCurrent, CodebooksStay
  <2> QED BY <2>2, <2>3, <2>4, <2>5 DEF IInv
<1>9. CASE CheckpointFails
  <2>1. /\ step' = "idle"
        /\ UNCHANGED <<collection, base, log, image, training, trained, races>>
    BY <1>9 DEF CheckpointFails
  <2>2. StatesAre'
    BY <1>0, <2>1 DEF StatesAre, IsState, IsMade
  <2> QED BY <1>0, <2>1, <2>2 DEF IInv, CodebooksStay, NoneIsHalf, DiskIsCurrent
<1>10. CASE CrashAndOpen
  <2>1. /\ races = {} /\ collection' = Recovered /\ step' = "idle"
        /\ UNCHANGED <<base, log, image, training, trained, races>>
    BY <1>10 DEF CrashAndOpen
  <2> DEFINE b == base.codebook
  <2> DEFINE R == Roll(base.records, base.codebook, log)
  <2> DEFINE a == collection.accelerated
  <2>2. b \in BOOLEAN /\ base.records \in Stores(b) /\ log \in Seq(LogEntry) /\ a \in BOOLEAN
    BY <1>0, <2>1 DEF StatesAre, NoneIsHalf, IsMade
  <2>3. R \in Stores(b) /\ collection' = Made(R, b, a)
    BY <2>1, <2>2, RecoveredMade
  <2>4. Agreed(base.records, b, log, R, b)
    BY <2>2 DEF Agreed
  <2> HIDE DEF b, R, a
  <2>5. IsMade(collection') /\ collection'.records = R /\ collection'.trained = b
    <3>1. Made(R, b, a).records = R /\ Made(R, b, a).trained = b
      BY DEF Made
    <3> QED BY <2>2, <2>3, <3>1, MadeIsMade
  <2>6. StatesAre'
    BY <1>0, <2>1, <2>5 DEF StatesAre, IsState
  <2>7. CodebooksStay'
    BY <1>0, <2>1, <2>5 DEF CodebooksStay, b
  <2>8. NoneIsHalf'
    BY <1>0, <2>1 DEF NoneIsHalf
  <2>9. DiskIsCurrent'
    BY <2>1, <2>4, <2>5 DEF DiskIsCurrent, b
  <2> QED BY <2>6, <2>7, <2>8, <2>9 DEF IInv
<1>11. CASE UNCHANGED vars
  BY <1>0, <1>11 DEF vars, IInv, StatesAre, IsState, IsMade, CodebooksStay, NoneIsHalf, DiskIsCurrent
<1> QED
  BY <1>1, <1>2, <1>3, <1>4, <1>5, <1>6, <1>7, <1>8, <1>9, <1>10, <1>11 DEF TrainingNext

\* The disk, the image that is being written and memory differ at most in whether
\* they are encoded, in every state of any training, checkpoint and crash.
THEOREM TrainingInvariant == TrainingSpec => []IInv
BY TrainingInitially, TrainingKeeps, PTL DEF TrainingSpec

\* NoPartialQuantize: whatever interrupts a training, all records on disk are codes
\* of the codebook beside them, or none is.
THEOREM QuantizedOrNot == TrainingSpec => []NoPartialQuantize
<1>1. IInv => NoPartialQuantize
  <2> SUFFICES ASSUME IInv
               PROVE  NoPartialQuantize
    OBVIOUS
  <2>1. TypeOK
    BY MadeAgrees DEF IInv, StatesAre, ContainersAgree
  <2>2. \A s : IsState(s) => s \in StateType
    BY DEF IsState, State, StateType, AnyStore
  <2>3. TrainingTypeOK
    BY <2>1, <2>2 DEF IInv, StatesAre, TrainingTypeOK
  <2>4. ASSUME "half_image" \notin races, NEW id \in Ids, base.records[id] # NoRecord
        PROVE  base.records[id].coded = base.codebook
    BY <2>4 DEF IInv, NoneIsHalf, Stores, Rows
  <2>5. "half_image" \notin races => Readable(base)
    BY <2>4 DEF Readable
  <2> QED BY <2>3, <2>4, <2>5 DEF NoPartialQuantize
<1> QED BY <1>1, TrainingInvariant, PTL

\* RecoveredIsTheCollection: what a crash leaves at any step of a checkpoint or of a
\* training is what the client has.
THEOREM RecoveryIsTheCollection == TrainingSpec => []RecoveredIsTheCollection
<1>1. IInv => RecoveredIsTheCollection
  <2> SUFFICES ASSUME IInv, races = {}
               PROVE  IF collection.trained /\ ~base.codebook
                      THEN Trained(Recovered) = collection
                      ELSE Recovered = collection
    BY DEF RecoveredIsTheCollection
  <2> DEFINE b == base.codebook
  <2> DEFINE t == collection.trained
  <2> DEFINE a == collection.accelerated
  <2> DEFINE R == collection.records
  <2> DEFINE Rolls == Roll(base.records, base.codebook, log)
  <2>1. /\ b \in BOOLEAN /\ t \in BOOLEAN /\ base.records \in Stores(b) /\ log \in Seq(LogEntry)
        /\ collection = Made(R, t, a) /\ Agreed(base.records, b, log, R, t)
    BY DEF IInv, StatesAre, IsState, IsMade, NoneIsHalf, DiskIsCurrent
  <2>2. Rolls \in Stores(b) /\ Recovered = Made(Rolls, b, a)
    BY <2>1, RecoveredMade
  <2>3. (b => t) /\ R = IF t /\ ~b THEN Encoded(Rolls) ELSE Rolls
    BY <2>1 DEF Agreed
  <2> HIDE DEF b, t, a, R, Rolls
  <2>4. CASE t /\ ~b
    <3>1. Trained(Recovered) = Made(Encoded(Rolls), TRUE, a)
      BY <2>1, <2>2, TrainedMade, RecordFacts
    <3> QED BY <2>1, <2>3, <2>4, <3>1 DEF b, t
  <2>5. CASE ~(t /\ ~b)
    <3>1. t = b /\ R = Rolls
      BY <2>1, <2>3, <2>5
    <3> QED BY <2>1, <2>2, <2>5, <3>1 DEF b, t
  <2> QED BY <2>4, <2>5
<1> QED BY <1>1, TrainingInvariant, PTL

\* TrainingIsDurable: the codebook of a training that returned is on disk for good.
THEOREM TrainingLasts == TrainingSpec => []TrainingIsDurable
<1>1. IInv => TrainingIsDurable
  BY DEF IInv, CodebooksStay, TrainingIsDurable
<1> QED BY <1>1, TrainingInvariant, PTL
=============================================================================
