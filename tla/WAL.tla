-------------------------------- MODULE WAL --------------------------------
(***************************************************************************)
(* The write-ahead log of one database directory (storage/WAL.hpp,         *)
(* WAL.cpp) as a sequence of entries, and what a recovery reads out of it. *)
(*                                                                         *)
(* The recovery is stated here in closed form, by which entries count and  *)
(* which of them is the last on a key: a form that the proofs can unfold.  *)
(* WALReplay states the loop of WAL::replay and the fold of open() step by *)
(* step, and MCWALReplay checks that the two agree on every short log.     *)
(***************************************************************************)
EXTENDS Integers, Sequences

CONSTANTS
    Keys,       \* a key stands for one (collection, record id) pair
    Values,     \* the contents of a record: vector, payload, attachments
    NoRecord,   \* "there is no such record"
    NoKey       \* the empty collection and zero id of a framing entry

ASSUME KeysAssumption == NoKey \notin Keys
ASSUME ValuesAssumption == NoRecord \notin Values

-----------------------------------------------------------------------------
(* Stores and entries. *)

Contents == Values \union {NoRecord}
Stores == [Keys -> Contents]
EmptyStore == [k \in Keys |-> NoRecord]

\* "torn" is not an Op of the code: it is a record some bytes of which are
\* missing, or whose CRC32C does not match, wherever in the file it lies.
Ops == {"insert", "erase", "txn_begin", "txn_commit", "torn"}

Entry == [op : Ops, key : Keys \union {NoKey}, val : Contents]

Insert(k, v) == [op |-> "insert", key |-> k, val |-> v]
Erase(k) == [op |-> "erase", key |-> k, val |-> NoRecord]
TxnBegin == [op |-> "txn_begin", key |-> NoKey, val |-> NoRecord]
TxnCommit == [op |-> "txn_commit", key |-> NoKey, val |-> NoRecord]
Torn == [op |-> "torn", key |-> NoKey, val |-> NoRecord]

\* The entry that stores contents c under key k: an insert, or an erase.
Put(k, c) == IF c = NoRecord THEN Erase(k) ELSE Insert(k, c)

-----------------------------------------------------------------------------
(* What a replay makes of a log. *)

\* Positions the scan reaches: it stops at the first entry that is torn.
Readable(log) == {i \in DOMAIN log : \A j \in 1..i : log[j].op # "torn"}

\* The scan reaches the position right after the last entry.
Intact(log) == \A i \in DOMAIN log : log[i].op # "torn"

\* Mutants: the framing is ignored; a begin marker does not discard what the
\* window before it left pending.
Unframed(log, n) == FALSE
CommittedByAny(log, i) == \E c \in Readable(log) : c > i /\ log[c].op = "txn_commit"

\* After the first n entries the replay is inside a window: the last framing
\* entry among them is a txn_begin.
InTxn(log, n) ==
    \E b \in 1..n :
        /\ log[b].op = "txn_begin"
        /\ \A m \in (b + 1)..n : log[m].op # "txn_commit"

\* The window that entry i lies in is closed: a commit marker the scan reaches
\* comes after i, before any other begin.
Committed(log, i) ==
    \E c \in Readable(log) :
        /\ c > i
        /\ log[c].op = "txn_commit"
        /\ \A m \in (i + 1)..(c - 1) : log[m].op # "txn_begin"

IsPut(e) == e.op \in {"insert", "erase"}

\* The entries that a replay applies, in the order of the log.
Applied(log) ==
    {i \in Readable(log) : IsPut(log[i]) /\ (InTxn(log, i) => Committed(log, i))}

\* The entries it would apply if a commit marker came next.
AppliedIfCommitted(log) ==
    Applied(log) \union
    {i \in Readable(log) :
        IsPut(log[i]) /\ \A m \in (i + 1)..Len(log) : log[m].op # "txn_begin"}

\* The state of key k after the entries at positions S on top of a base store.
LastOn(base, log, S, k) ==
    LET last == {i \in S : /\ log[i].key = k
                          /\ \A j \in S : log[j].key = k => j <= i}
    IN  IF last = {} THEN base[k] ELSE log[CHOOSE i \in last : TRUE].val

\* The store that open() builds from a base (snapshot or segments) and a log.
Recover(base, log) ==
    LET After[S \in SUBSET DOMAIN log] == [k \in Keys |-> LastOn(base, log, S, k)]
    IN  After[Applied(log)]

RecoverIfCommitted(base, log) ==
    [k \in Keys |-> LastOn(base, log, AppliedIfCommitted(log), k)]

\* The next entry appended counts as soon as it is complete: no torn entry
\* hides it and no open window withholds it.
Clean(log) == Intact(log) /\ ~InTxn(log, Len(log))
=============================================================================
