------------------------------- MODULE MCHnsw -------------------------------
EXTENDS Hnsw, TLC

CONSTANTS r1, r2, r3, r4

\* No two pairs of these places are equally far apart.
MCPlacesOf == r1 :> {0} @@ r2 :> {1} @@ r3 :> {4} @@ r4 :> {9}
=============================================================================
