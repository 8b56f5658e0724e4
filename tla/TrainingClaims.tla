--------------------------- MODULE TrainingClaims ---------------------------
(***************************************************************************)
(* A statement about training that the code does not keep.                 *)
(***************************************************************************)
EXTENDS MCTraining

\* "the reason no partial-quantize state can exist on disk" (src/Database.cpp:1557):
\* every published state can be opened.  A checkpoint that reads the codebook before
\* a call of Collection::train() and the records after it publishes codes without
\* their codebook.
NoHalfQuantizedDisk == Readable(base)
=============================================================================
