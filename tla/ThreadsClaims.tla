--------------------------- MODULE ThreadsClaims ---------------------------
(***************************************************************************)
(* What the headers and the documents say of concurrent callers, without   *)
(* the exemptions of Threads.  Each claim fails in the run that checks it. *)
(***************************************************************************)
EXTENDS MCThreads

\* RecoveryIsAcknowledged with one of its exemptions taken away.
KeptDespite(cause) ==
    races \intersect (Unrecoverable \ {cause}) = {} =>
        \A k \in Keys :
            \/ Recovered[k] = acked[k]
            \/ \E t \in Running("write") :
                  pc[t] = "store" /\ Next1(t) = [key |-> k, val |-> Recovered[k]]

\* storage/WAL.hpp:16: "every mutation is appended and (unless durability is
\* relaxed) fsync'd before it is acknowledged, so writes survive [...]".  A
\* checkpoint copies a collection, lets its lock go and later truncates the log:
\* what was added in between is in neither.
WritesDuringACheckpointSurvive == KeptDespite("truncated")

\* Database.cpp:1785: "A write after close() would never be WAL-logged and never
\* checkpointed: it would return success and then vanish. Refuse it."  Between
\* set_wal(nullptr) and seal() it does just that.
WritesDuringACloseAreKeptOrRefused == KeptDespite("detached")

\* storage/WAL.hpp:16, again: an add that falls into the window of a batch counts
\* when the batch commits, and never if it does not.
WritesBesideABatchSurvive == KeptDespite("in_window")

\* Database.cpp:1939: "Hold the instance lock for the whole batch so a concurrent
\* writer cannot interleave its own mutations between our ops (which would make
\* the undo log restore state that is no longer the correct pre-batch state)".
\* Collection::add does not take that lock.
UndoRestoresOnlyTheBatch == Running("commit") = {} => mem = acked

\* docs/internals/transaction-engine.md:433: "Single-writer ensures no dirty reads
\* or lost updates."  A reader between two operations of a batch sees the first.
ReadersSeeNoHalfBatch == \A k \in Keys : Free(Col(k)) => mem[k] = acked[k]

\* elips.hpp:118: "every public method is safe to call concurrently from multiple
\* threads on the same object".  While reset() has the descriptor closed, an add
\* throws on a disk that has no fault.
AddsFailOnlyOnFaults ==
    [][\A t \in Threads : pc[t] = "append" /\ pc'[t] \in {"idle", "undo"} =>
         ~Writable(t) \/ Nothing(t) \/ "io" \in Faults]_vars
=============================================================================
