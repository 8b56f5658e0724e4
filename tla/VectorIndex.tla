----------------------------- MODULE VectorIndex -----------------------------
(***************************************************************************)
(* What Index.hpp promises: an index holds a vector for each id that was   *)
(* added and not removed, and answers from these.  A vector is a place on  *)
(* a line, which is enough to tell nearer from farther.                    *)
(***************************************************************************)
EXTENDS Integers, Sequences

CONSTANTS
    Ids,
    PlacesOf,   \* the places that the vector of an id may be at
    NoPlace

VARIABLE content    \* the place of each id that is in the index

Held == {id \in Ids : content[id] # NoPlace}

Distance(p, q) == IF p >= q THEN p - q ELSE q - p

\* A list of ids that search() may return: of what is in the index, nothing
\* twice, nearest first, and no more than was asked for.
Legal(hits, q, k) ==
    /\ Len(hits) <= k
    /\ \A i \in DOMAIN hits : hits[i] \in Held
    /\ \A i, j \in DOMAIN hits :
          i < j => /\ hits[i] # hits[j]
                   /\ Distance(q, content[hits[i]]) <= Distance(q, content[hits[j]])

\* The list that leaves nothing out: who is not in it is no nearer than its last.
Exact(hits, q, k) ==
    /\ Legal(hits, q, k)
    /\ Len(hits) < k => Held \subseteq {hits[i] : i \in DOMAIN hits}
    /\ \A id \in Held \ {hits[i] : i \in DOMAIN hits} :
          \A i \in DOMAIN hits : Distance(q, content[hits[i]]) <= Distance(q, content[id])

-----------------------------------------------------------------------------
Init == content = [id \in Ids |-> NoPlace]

\* A caller removes an id before it adds it again.
Add(id, p) ==
    /\ content[id] = NoPlace
    /\ content' = [content EXCEPT ![id] = p]

Remove(id) ==
    /\ content[id] # NoPlace
    /\ content' = [content EXCEPT ![id] = NoPlace]

Next == \E id \in Ids : Remove(id) \/ \E p \in PlacesOf[id] : Add(id, p)

Spec == Init /\ [][Next]_content
=============================================================================
