------------------------------ MODULE Threads ------------------------------
(***************************************************************************)
(* Threads of one process that share a Database.  Collection::add and      *)
(* remove take the lock of their collection and nothing else; commit(),    *)
(* checkpoint() and close() take the database's mutex and reach for the    *)
(* lock of one collection at a time.  Engine has the same calls one after  *)
(* another and every fault; here they overlap, the directory is reduced to *)
(* a base and a log, and the only fault is an append that throws and       *)
(* leaves nothing behind.  The process may die in any state: the           *)
(* properties look at what a recovery would build there.                   *)
(*                                                                         *)
(* A step ends where a thread releases a lock or touches what others read  *)
(* without one: the log, the log's descriptor and the pointers to it.      *)
(***************************************************************************)
EXTENDS WAL

CONSTANTS
    Threads, NoThread,
    Collections,
    CollectionOf,   \* the collection that a key belongs to
    Repertoire,     \* which kinds of call a thread makes
    Batches,        \* the transactions that threads may commit
    MaxCalls,       \* bound on the calls of each thread
    Faults          \* {"io"}, or nothing

Kinds == {"write", "commit", "checkpoint", "close"}
Op == [key : Keys, val : Contents]

ASSUME ThreadsAssumption ==
    /\ NoThread \notin Threads
    /\ CollectionOf \in [Keys -> Collections]
    /\ Repertoire \in [Threads -> SUBSET Kinds]
    /\ \A b \in Batches : b \in Seq(Op) /\ b # <<>>
    /\ MaxCalls \in [Threads -> Nat]
    /\ Faults \subseteq {"io"}

VARIABLES
    mutex,      \* Database::mutex_: the thread that holds it
    lock,       \* Collection::mutex_: the thread that holds it exclusively
    wal, fd,    \* wal.log; its descriptor: "open", or "closed" inside reset()
    base,       \* the published snapshot
    mem,        \* records_ of the collections
    attached,   \* the collections whose wal_ is set
    sealed,     \* the collections whose sealed_ is set
    closed,     \* Database::closed_
    pc, kind,   \* where a thread is, and in what call
    todo, undo, \* ops_ not applied yet; undo_log
    copy,       \* what the running checkpoint has copied, by collection
    calls,      \* calls a thread has yet to make
    acked,      \* auxiliary: mem without the batches that have not committed
    races       \* auxiliary: see Causes

locks == <<mutex, lock>>
disk == <<wal, fd, base>>
handle == <<attached, sealed, closed>>
threads == <<pc, kind, todo, undo, calls>>
vars == <<locks, disk, mem, handle, threads, copy, acked, races>>

-----------------------------------------------------------------------------
(* What two calls that overlap may do to each other.                         *)

Causes ==
    {"late",        \* appended behind the copy that a checkpoint has taken
     "truncated",   \* and truncated with the log
     "in_window",   \* appended inside the window of somebody else's batch
     "buried",      \* which failed: the next batch has opened a window of its own
     "overlap",     \* written on a key that a running batch has captured
     "clobbered",   \* and overwritten when that batch was undone
     "detached"}    \* not logged: close() had taken the log away

\* Outstanding causes for which a recovery may miss an acknowledged call.
Unrecoverable == {"truncated", "in_window", "buried", "clobbered", "detached"}

-----------------------------------------------------------------------------
Col(k) == CollectionOf[k]
Next1(t) == Head(todo[t])
Free(c) == lock[c] = NoThread

\* Mutants: a reader does not wait for the writer; it copies every record.
SharedAnyway(c) == TRUE
CopyEverything(store, c) == store

SharedLock(c) == Free(c)
Running(k) == {t \in Threads : pc[t] # "idle" /\ kind[t] = k}
Captured(t) == {undo[t][i].key : i \in DOMAIN undo[t]}

\* The collections whose records the running checkpoint has copied and whose
\* log it has yet to truncate.
Copied == DOMAIN copy
Restrict1(store, c) == [k \in {x \in Keys : Col(x) = c} |-> store[k]]

Goto(t, label) == pc' = [pc EXCEPT ![t] = label]
Lock(t, c) == lock' = [lock EXCEPT ![c] = t]
Unlock(c) == lock' = [lock EXCEPT ![c] = NoThread]

Enter(t, k, label, ops) ==
    /\ pc[t] = "idle" /\ calls[t] > 0 /\ k \in Repertoire[t]
    /\ calls' = [calls EXCEPT ![t] = @ - 1]
    /\ Goto(t, label)
    /\ kind' = [kind EXCEPT ![t] = k]
    /\ todo' = [todo EXCEPT ![t] = ops]
    /\ undo' = [undo EXCEPT ![t] = <<>>]

\* A call that changes nothing: it throws at once, or finds nothing to do.
Bounce(t, k) == Enter(t, k, "idle", <<>>) /\ UNCHANGED <<locks, disk, mem, handle, copy, acked, races>>

-----------------------------------------------------------------------------
(* Collection::add and remove, called by a client or by a batch: the lock,   *)
(* ensure_writable, the log; then memory, and the lock is given back.        *)

Call(t, op) == Enter(t, "write", "append", <<op>>)
               /\ UNCHANGED <<locks, disk, mem, handle, copy, acked, races>>

\* Mutants: the lock is not waited for; a sealed collection takes writes.
EntersAnyway(t) == pc[t] = "append"
WritableAnyway(t) == TRUE

CanEnter(t) == pc[t] = "append" /\ Free(Col(Next1(t).key))

Writable(t) == Col(Next1(t).key) \notin sealed

\* A removal of a record that is not there returns false.
Nothing(t) == Next1(t).val = NoRecord /\ mem[Next1(t).key] = NoRecord

\* What others had under way when the thread appended.
RacesOfAppend(t) ==
    LET c == Col(Next1(t).key) IN
    {x \in {"detached"} : c \notin attached} \union
    (IF kind[t] = "commit" THEN {} ELSE
        {x \in {"late"} : c \in Copied} \union
        {x \in {"in_window"} : c \in attached /\ InTxn(wal, Len(wal))} \union
        {x \in {"overlap"} : \E u \in Threads : Next1(t).key \in Captured(u)})

AppendEntry(t) ==
    LET op == Next1(t) IN
    /\ CanEnter(t) /\ Writable(t) /\ ~Nothing(t)
    /\ Col(op.key) \in attached => fd = "open"
    /\ Lock(t, Col(op.key))
    /\ wal' = IF Col(op.key) \in attached THEN Append(wal, Put(op.key, op.val)) ELSE wal
    /\ races' = races \union RacesOfAppend(t)
    /\ Goto(t, "store")
    /\ UNCHANGED <<mutex, fd, base, mem, handle, kind, todo, undo, calls, copy, acked>>

\* Mutant: the lock stays with a call that threw.
FinishKeepingTheLock(t, c) ==
    /\ Lock(t, c)
    /\ Goto(t, IF kind[t] = "commit" THEN "undo" ELSE "idle")

Throw(t, c) ==
    /\ Unlock(c)
    /\ Goto(t, IF kind[t] = "commit" THEN "undo" ELSE "idle")

\* The descriptor is closed, or the write fails.
AppendFails(t) ==
    /\ CanEnter(t) /\ Writable(t) /\ ~Nothing(t)
    /\ Col(Next1(t).key) \in attached
    /\ fd = "closed" \/ "io" \in Faults
    /\ Throw(t, Col(Next1(t).key))
    /\ UNCHANGED <<mutex, disk, mem, handle, kind, todo, undo, calls, copy, acked, races>>

AfterOp(t) == Goto(t, IF kind[t] = "commit" THEN "capture" ELSE "idle")

\* add and remove inside commit() meet no sealed collection: close() needs the
\* mutex that commit() holds.
Refused(t) ==
    /\ CanEnter(t) /\ ~Writable(t)
    /\ kind[t] = "write"
    /\ Goto(t, "idle")
    /\ UNCHANGED <<locks, disk, mem, handle, kind, todo, undo, calls, copy, acked, races>>

NothingToRemove(t) ==
    /\ CanEnter(t) /\ Writable(t) /\ Nothing(t)
    /\ AfterOp(t)
    /\ todo' = [todo EXCEPT ![t] = Tail(@)]
    /\ UNCHANGED <<locks, disk, mem, handle, kind, undo, calls, copy, acked, races>>

Store(t) ==
    LET op == Next1(t) IN
    /\ pc[t] = "store"
    /\ mem' = [mem EXCEPT ![op.key] = op.val]
    /\ acked' = IF kind[t] = "commit" THEN acked ELSE [acked EXCEPT ![op.key] = op.val]
    /\ Unlock(Col(op.key))
    /\ AfterOp(t)
    /\ todo' = [todo EXCEPT ![t] = Tail(@)]
    /\ UNCHANGED <<mutex, disk, handle, kind, undo, calls, copy, races>>

-----------------------------------------------------------------------------
(* Transaction::commit, under the mutex from end to end.                     *)

TakeMutex(t) == mutex = NoThread /\ mutex' = t

\* The collections of the batch are not sealed, and the begin marker is
\* appended.
Begin(t, batch) ==
    /\ TakeMutex(t)
    /\ \A i \in DOMAIN batch : Col(batch[i].key) \notin sealed
    /\ Enter(t, "commit", "capture", batch)
    /\ wal' = Append(wal, TxnBegin)
    /\ races' = {IF x = "in_window" THEN "buried" ELSE x : x \in races}
    /\ UNCHANGED <<lock, fd, base, mem, handle, copy, acked>>

\* A collection is sealed, or the begin marker cannot be appended.
BeginFails(t, batch) ==
    /\ mutex = NoThread
    /\ \/ \E i \in DOMAIN batch : Col(batch[i].key) \in sealed
       \/ "io" \in Faults /\ ~closed
    /\ Bounce(t, "commit")

\* Collection::get, under a shared lock that is given back at once.
Capture(t) ==
    LET op == Next1(t) IN
    /\ pc[t] = "capture" /\ todo[t] # <<>>
    /\ SharedLock(Col(op.key))
    /\ undo' = [undo EXCEPT ![t] = Append(@, [key |-> op.key, previous |-> mem[op.key]])]
    /\ Goto(t, "append")
    /\ UNCHANGED <<locks, disk, mem, handle, kind, todo, calls, copy, acked, races>>

EndBatch(t) ==
    /\ mutex' = NoThread
    /\ Goto(t, "idle")
    /\ todo' = [todo EXCEPT ![t] = <<>>]
    /\ undo' = [undo EXCEPT ![t] = <<>>]
    /\ UNCHANGED <<lock, kind, calls, copy>>

\* Everything appended in the window counts now, whoever appended it.
Commit(t) ==
    /\ pc[t] = "capture" /\ todo[t] = <<>>
    /\ wal' = Append(wal, TxnCommit)
    /\ acked' = mem
    /\ races' = races \ {"in_window", "overlap"}
    /\ EndBatch(t)
    /\ UNCHANGED <<fd, base, mem, handle>>

\* Mutant: the oldest capture is restored first.
PickOldest(t) == 1

\* The entry of the undo_log that is restored next: the latest one.
PickUndo(t) == Len(undo[t])

\* Collection::restore_for_undo.
UndoOne(t) ==
    LET i == PickUndo(t)
        e == undo[t][i]
        rest == SubSeq(undo[t], 1, i - 1) \o SubSeq(undo[t], i + 1, Len(undo[t]))
    IN
    /\ pc[t] = "undo"
    /\ Free(Col(e.key))
    /\ mem' = [mem EXCEPT ![e.key] = e.previous]
    /\ IF rest = <<>>
       THEN /\ EndBatch(t)
            /\ races' = {IF x = "overlap" THEN "clobbered" ELSE x : x \in races}
       ELSE /\ undo' = [undo EXCEPT ![t] = rest]
            /\ UNCHANGED <<locks, pc, kind, todo, calls, copy, races>>
    /\ UNCHANGED <<disk, handle, acked>>

-----------------------------------------------------------------------------
(* Database::checkpoint_locked, and what close() does after it.              *)

StartCheckpoint(t) ==
    /\ TakeMutex(t)
    /\ \/ Enter(t, "checkpoint", "copy", <<>>)
       \/ ~closed /\ Enter(t, "close", "copy", <<>>)
    /\ UNCHANGED <<lock, disk, mem, handle, copy, acked, races>>

CloseAgain(t) == mutex = NoThread /\ closed /\ Bounce(t, "close")

\* Collection::records, under a shared lock that is given back at once.
CopyRecords(t) ==
    /\ pc[t] = "copy"
    /\ \E c \in Collections \ Copied :
          /\ SharedLock(c)
          /\ copy' = [x \in Copied \union {c} |->
                         IF x = c THEN Restrict1(mem, c) ELSE copy[x]]
    /\ Goto(t, IF Copied' = Collections THEN "publish" ELSE "copy")
    /\ UNCHANGED <<locks, disk, mem, handle, kind, todo, undo, calls, acked, races>>

ReleaseMutex == mutex' = NoThread

\* The rename.  Without a log, after a close(), the checkpoint ends here.
Publish(t) ==
    /\ pc[t] = "publish"
    /\ base' = [k \in Keys |-> copy[Col(k)][k]]
    /\ IF closed
       THEN /\ Goto(t, "idle") /\ ReleaseMutex
            /\ copy' = << >>
       ELSE Goto(t, "reset") /\ UNCHANGED <<mutex, copy>>
    /\ UNCHANGED <<lock, wal, fd, mem, handle, kind, todo, undo, calls, acked, races>>

\* WAL::reset closes the descriptor ...
CloseLog(t) ==
    /\ pc[t] = "reset"
    /\ fd' = "closed"
    /\ Goto(t, "reopen")
    /\ UNCHANGED <<locks, wal, base, mem, handle, kind, todo, undo, calls, copy, acked, races>>

\* ... and opens the file again with O_TRUNC.
ReopenLog(t) ==
    /\ pc[t] = "reopen"
    /\ fd' = "open" /\ wal' = <<>>
    /\ races' = {x \in {"truncated"} : "late" \in races} \union
                (races \intersect {"clobbered", "detached"})
    /\ copy' = << >>
    /\ IF kind[t] = "close"
       THEN Goto(t, "detach") /\ UNCHANGED mutex
       ELSE Goto(t, "idle") /\ ReleaseMutex
    /\ UNCHANGED <<lock, base, mem, handle, kind, todo, undo, calls, acked>>

\* Collection::set_wal(nullptr) takes no lock.
Detach(t) ==
    /\ pc[t] = "detach"
    /\ \E c \in attached : attached' = attached \ {c}
    /\ Goto(t, "seal")
    /\ UNCHANGED <<locks, disk, mem, sealed, closed, kind, todo, undo, calls, copy, acked, races>>

\* Mutant: seal() does not take the lock.
SealAnyway(c) == TRUE

CanSeal(c) == Free(c)

\* Collection::seal; after the last one the log object and closed_.
Seal(t) ==
    /\ pc[t] = "seal"
    /\ \E c \in Collections \ (attached \union sealed) :
          CanSeal(c) /\ sealed' = sealed \union {c}
    /\ IF sealed' = Collections
       THEN closed' = TRUE /\ Goto(t, "idle") /\ ReleaseMutex
       ELSE UNCHANGED <<closed, mutex>> /\ Goto(t, "detach")
    /\ UNCHANGED <<lock, disk, mem, attached, kind, todo, undo, calls, copy, acked, races>>

-----------------------------------------------------------------------------
Init ==
    /\ mutex = NoThread /\ lock = [c \in Collections |-> NoThread]
    /\ wal = <<>> /\ fd = "open" /\ base \in Stores /\ mem = base /\ acked = base
    /\ attached = Collections /\ sealed = {} /\ closed = FALSE
    /\ pc = [t \in Threads |-> "idle"] /\ kind = [t \in Threads |-> "write"]
    /\ todo = [t \in Threads |-> <<>>] /\ undo = [t \in Threads |-> <<>>]
    /\ copy = << >> /\ calls = MaxCalls /\ races = {}

NewCall(t) ==
    \/ \E op \in Op : Call(t, op)
    \/ \E batch \in Batches : Begin(t, batch) \/ BeginFails(t, batch)
    \/ StartCheckpoint(t) \/ CloseAgain(t)

Continue(t) ==
    \/ AppendEntry(t) \/ AppendFails(t) \/ Refused(t) \/ NothingToRemove(t) \/ Store(t)
    \/ Capture(t) \/ Commit(t) \/ UndoOne(t)
    \/ CopyRecords(t) \/ Publish(t) \/ CloseLog(t) \/ ReopenLog(t)
    \/ Detach(t) \/ Seal(t)

\* Every thread has made its calls, and every call has returned.
Done ==
    /\ \A t \in Threads : pc[t] = "idle"
    /\ \A t \in Threads : calls[t] = 0
    /\ UNCHANGED vars

Next == (\E t \in Threads : NewCall(t) \/ Continue(t)) \/ Done

Spec == Init /\ [][Next]_vars

\* The operating system runs every thread that can run.
FairSpec == Spec /\ \A t \in Threads : WF_vars(Continue(t))

-----------------------------------------------------------------------------
(* Properties. *)

Labels == {"idle", "append", "store", "capture", "undo", "copy", "publish",
           "reset", "reopen", "detach", "seal"}

TypeOK ==
    /\ mutex \in Threads \union {NoThread}
    /\ lock \in [Collections -> Threads \union {NoThread}]
    /\ wal \in Seq(Entry) /\ fd \in {"open", "closed"}
    /\ base \in Stores /\ mem \in Stores /\ acked \in Stores
    /\ attached \subseteq Collections /\ sealed \subseteq Collections /\ closed \in BOOLEAN
    /\ pc \in [Threads -> Labels] /\ kind \in [Threads -> Kinds]
    /\ todo \in [Threads -> Seq(Op)]
    /\ undo \in [Threads -> Seq([key : Keys, previous : Contents])]
    /\ Copied \subseteq Collections
    /\ \A c \in Copied : copy[c] \in [{k \in Keys : Col(k) = c} -> Contents]
    /\ calls \in [Threads -> Nat] /\ races \subseteq Causes

Recovered == Recover(base, wal)

\* If the process died now, the next open() would find every acknowledged
\* write and every committed batch, none of an unfinished batch, and at most
\* those unacknowledged writes that are complete in the log.
RecoveryIsAcknowledged ==
    races \intersect Unrecoverable = {} =>
        \A k \in Keys :
            \/ Recovered[k] = acked[k]
            \/ \E t \in Running("write") :
                  pc[t] = "store" /\ Next1(t) = [key |-> k, val |-> Recovered[k]]

\* When no batch is half way, the records in memory are the acknowledged ones:
\* a batch that failed has taken back its own writes and nobody else's.
MemoryIsAcknowledged ==
    /\ TypeOK
    /\ Running("commit") = {} /\ "clobbered" \notin races => mem = acked

\* When nothing runs, memory and disk agree on every key: the log has the
\* writes of all threads in the order in which memory took them.
QuietDiskMatchesMemory ==
    (\A t \in Threads : pc[t] = "idle") /\ races \intersect Unrecoverable = {} =>
        Recovered = mem

\* Once close() has returned no write takes effect and nothing is appended,
\* however many threads were on their way into a collection.
ClosedIsFinal == [][closed => UNCHANGED <<mem, wal>>]_vars

\* Every call returns: no two of the locks are ever waited for in opposite
\* orders, and no exception leaves one of them taken.
EveryCallReturns == \A t \in Threads : pc[t] # "idle" ~> pc[t] = "idle"
=============================================================================
