----------------------------- MODULE WALReplay -----------------------------
(***************************************************************************)
(* The recovery as the code runs it: WAL::replay scans the file, stops at  *)
(* the first record it cannot read, applies the transaction framing, and   *)
(* open() plays the surviving entries, in order, over the loaded state.    *)
(*                                                                         *)
(* The specification of this module writes any log, one entry at a time,   *)
(* so that its invariants speak about every log up to MaxWritten entries.      *)
(***************************************************************************)
EXTENDS WAL, SequencesExt

CONSTANT MaxWritten     \* bound on the length of the logs explored

VARIABLES
    loaded,         \* the store loaded from the snapshot or the segments
    written         \* the entries of wal.log

replayVars == <<loaded, written>>

-----------------------------------------------------------------------------
(* The code. *)

\* Mutant: a record it cannot read costs the whole log.
AllOrNone(l) == IF \E i \in DOMAIN l : l[i].op = "torn" THEN <<>> ELSE l

\* The records WAL::replay parses: it breaks at the first invalid one.
ValidPrefix(l) ==
    LET firstTorn == SelectInSeq(l, LAMBDA e : e.op = "torn")
    IN  IF firstTorn = 0 THEN l ELSE SubSeq(l, 1, firstTorn - 1)

\* The locals of the framing loop are in_txn, pending and applied.
Opened(st) == [st EXCEPT !.in_txn = TRUE, !.pending = <<>>]
Closed(st) == [in_txn |-> FALSE, pending |-> <<>>, applied |-> st.applied \o st.pending]

\* Mutants: a begin marker leaves the entries of the window before it pending;
\* an erase is applied at once, window or not.
FrameStepKeepsPending(st, e) ==
    IF e.op = "txn_begin" THEN [st EXCEPT !.in_txn = TRUE]
    ELSE IF e.op = "txn_commit" THEN Closed(st)
    ELSE IF st.in_txn THEN [st EXCEPT !.pending = Append(@, e)]
    ELSE [st EXCEPT !.applied = Append(@, e)]
FrameStepErasesAtOnce(st, e) ==
    IF e.op = "txn_begin" THEN Opened(st)
    ELSE IF e.op = "txn_commit" THEN Closed(st)
    ELSE IF st.in_txn /\ e.op = "insert" THEN [st EXCEPT !.pending = Append(@, e)]
    ELSE [st EXCEPT !.applied = Append(@, e)]

\* One turn of the loop.
FrameStep(st, e) ==
    IF e.op = "txn_begin" THEN Opened(st)
    ELSE IF e.op = "txn_commit" THEN Closed(st)
    ELSE IF st.in_txn THEN [st EXCEPT !.pending = Append(@, e)]
    ELSE [st EXCEPT !.applied = Append(@, e)]

Replay(l) ==
    FoldLeft(FrameStep, [in_txn |-> FALSE, pending |-> <<>>, applied |-> <<>>],
             ValidPrefix(l)).applied

\* The loop of open(): add() for an insert, remove() for an erase.
PlayEntry(store, e) == [store EXCEPT ![e.key] = e.val]
Play(store, entries) == FoldLeft(PlayEntry, store, entries)

-----------------------------------------------------------------------------
(* Every log. *)

Entries == {Insert(k, v) : k \in Keys, v \in Values}
             \union {Erase(k) : k \in Keys}
             \union {TxnBegin, TxnCommit, Torn}

ReplayInit == loaded \in Stores /\ written = <<>>

AppendAny ==
    /\ Len(written) < MaxWritten
    /\ \E e \in Entries : written' = Append(written, e)
    /\ UNCHANGED loaded

ReplayNext == AppendAny

ReplaySpec == ReplayInit /\ [][ReplayNext]_replayVars

-----------------------------------------------------------------------------
(* Properties. *)

\* The loop and the fold compute the store that the closed form describes,
\* which is what every other module of the project takes a recovery to be.
ReplayIsRecover == Play(loaded, Replay(written)) = Recover(loaded, written)

\* What a recovery applied stays applied however the log grows: a later begin,
\* a later torn record or a later unfinished batch takes nothing back.
ReplayMonotone == [][IsPrefix(Replay(written), Replay(written'))]_replayVars

\* The positions in the log of the entries that a replay lets through.
Survivors ==
    LET tagged == [i \in DOMAIN written |-> [written[i] EXCEPT !.val = i]]
    IN  {Replay(tagged)[j].val : j \in DOMAIN Replay(tagged)}

\* A batch counts as a whole or not at all: of the puts that follow a begin
\* marker without another marker in between, all survive or none does.
WindowsAllOrNothing ==
    \A b \in Readable(written) : written[b].op = "txn_begin" =>
        LET inside == {i \in Readable(written) :
                          i > b /\ \A m \in (b + 1)..i : IsPut(written[m])}
        IN  inside \subseteq Survivors \/ inside \intersect Survivors = {}
=============================================================================
