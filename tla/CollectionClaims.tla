-------------------------- MODULE CollectionClaims --------------------------
(***************************************************************************)
(* Statements about filtered search that the code does not keep.           *)
(***************************************************************************)
EXTENDS MCCollection

\* "re-filtered by Filter::matches, so correctness survives" (docs/_redesign/
\* _phase1_cpp.md:173): a filtered search on the exact ways finds every record
\* that the filter accepts.  A number that is an integer here and a double there
\* is encoded apart when it is long, and never found.
FilteredSeekMissesNothing ==
    LET c == collection IN
    \A q \in Places, top \in 1..2, f \in Filters :
        Strategy(c, top, f, NoThreshold) # "ann_index" =>
            Seek(c, q, top, f, NoThreshold, Present(c))
                = Nearest(PlaceOf(c), q, Admitted(c, q, f, NoThreshold), top)

\* "Re-probe with a wider beam until the filter is satisfied or the whole
\* collection has been swept" (src/Database.cpp:1246): no search returns fewer
\* records than were asked for and are there.  An index that returns fewer hits
\* than it was asked for ends the search.
ShortAnswersSweptTheCollection ==
    LET c == collection IN
    \A q \in Places, top \in 1..2, f \in Filters : \A reach \in Reaches(c) :
        LET hits == Seek(c, q, top, f, NoThreshold, reach) IN
        \/ Len(hits) = Smaller(top, Cardinality(Admitted(c, q, f, NoThreshold)))
        \/ EncodedApart(c, f) # {}
=============================================================================
