--------------------------- MODULE ThreadsProofs ---------------------------
(***************************************************************************)
(* What holds of the threads of a Database for every number of threads,    *)
(* collections, keys and calls: memory is what has been acknowledged, a    *)
(* recovery finds what has been acknowledged, and close() is final.        *)
(*                                                                         *)
(* The invariant comes in four layers.  Shape says who holds which lock    *)
(* and where in a call a thread can be; SealInv that nobody is inside a    *)
(* sealed collection; UndoInv that a running batch can take back exactly   *)
(* its own writes; DiskInv that the log, with the copies of a running      *)
(* checkpoint, leads to what memory holds or is about to hold.             *)
(***************************************************************************)
EXTENDS Threads, WALProofs

-----------------------------------------------------------------------------
(* The inductive invariant. *)

Exclusive == {"commit", "checkpoint", "close"}

\* The database's mutex is held through the calls that take it, and only there.
MutexInv ==
    \A t \in Threads : mutex = t <=> pc[t] # "idle" /\ kind[t] \in Exclusive

\* A collection's lock is held between the log and memory, and only there.
LockInv ==
    \A t \in Threads, c \in Collections :
        lock[c] = t <=> pc[t] = "store" /\ Col(Next1(t).key) = c

LabelsOf(k) ==
    CASE k = "write" -> {"idle", "append", "store"}
      [] k = "commit" -> {"idle", "capture", "append", "store", "undo"}
      [] k = "checkpoint" -> {"idle", "copy", "publish", "reset", "reopen"}
      [] k = "close" -> {"idle", "copy", "publish", "reset", "reopen", "detach", "seal"}

Copying == {"copy", "publish", "reset", "reopen"}

\* Where a thread can be, and what it has in its hands there.
PcOf(t) ==
    /\ pc[t] \in LabelsOf(kind[t])
    /\ pc[t] \in {"append", "store"} => todo[t] # <<>>
    /\ pc[t] = "undo" => undo[t] # <<>>
    /\ undo[t] # <<>> => kind[t] = "commit" /\ pc[t] # "idle"
    /\ kind[t] = "commit" /\ pc[t] \in {"append", "store"} =>
          undo[t] # <<>> /\ undo[t][Len(undo[t])].key = Next1(t).key
    /\ pc[t] \in {"publish", "reset", "reopen"} => Copied = Collections

PcInv ==
    /\ \A t \in Threads : PcOf(t)
    /\ Copied # {} => \E t \in Threads : pc[t] \in Copying

Shape == TypeOK /\ MutexInv /\ LockInv /\ PcInv

\* Nobody is inside a sealed collection; a closed database is sealed, and no
\* call that goes on to truncate the log or to seal is under way.
SealInv ==
    /\ \A c \in sealed : Free(c)
    /\ closed => sealed = Collections /\ Running("commit") = {}
    /\ \A t \in Threads : pc[t] \in {"reset", "reopen", "detach", "seal"} => ~closed

\* While a batch runs, the keys it has not captured hold what is acknowledged,
\* and the first capture of a key is what is acknowledged of it.
Revertible(t) ==
    /\ \A k \in Keys \ Captured(t) : mem[k] = acked[k]
    /\ \A i \in DOMAIN undo[t] :
          (\A j \in 1..(i - 1) : undo[t][j].key # undo[t][i].key)
             => undo[t][i].previous = acked[undo[t][i].key]
    /\ \A u \in Threads : kind[u] = "write" /\ pc[u] = "store" =>
          Next1(u).key \notin Captured(t)

UndoInv ==
    /\ "overlap" \in races => Running("commit") # {}
    /\ races \intersect {"overlap", "clobbered"} = {} =>
          \A t \in Running("commit") : Revertible(t)
    /\ "clobbered" \notin races /\ Running("commit") = {} => mem = acked

\* The operations that are in the log, or past it, and not in memory yet.
Arriving == {Next1(t) : t \in {u \in Threads : pc[u] = "store"}}
ArrivingWrites == {Next1(t) : t \in {u \in Threads : pc[u] = "store" /\ kind[u] = "write"}}

\* Store f is what store will be when the operations have arrived in it.
Agrees(f, store, ops) ==
    \A k \in Keys :
        /\ \A op \in ops : op.key = k => f[k] = op.val
        /\ (\A op \in ops : op.key # k) => f[k] = store[k]

Recoverable == races \intersect Unrecoverable = {}

RecInv == Recoverable => Agrees(Recovered, acked, ArrivingWrites)

\* If the running batch committed now, the log would lead to memory.
WindowInv ==
    (races \intersect Unrecoverable) \subseteq {"in_window"} =>
        \A t \in Running("commit") :
            pc[t] # "undo" => Agrees(RecoverIfCommitted(base, wal), mem, Arriving)

\* The log decides the contents of key k, whatever base lies under it.
InLog(log, k) ==
    \E i \in Applied(log) :
        /\ log[i].key = k
        /\ \A j \in Applied(log) : log[j].key = k => j <= i

Settled(c, k) == copy[c][k] = mem[k] /\ \A op \in Arriving : op.key # k

\* A copied record is the one in memory, or the log has a later one; unless a
\* writer came late, it is the one in memory.
CopyInv ==
    \A c \in Copied : \A k \in {x \in Keys : Col(x) = c} :
        /\ "late" \notin races => Settled(c, k)
        /\ Recoverable => InLog(wal, k) \/ Settled(c, k)

DiskInv ==
    /\ Intact(wal)
    /\ Running("commit") # {} => InTxn(wal, Len(wal))
    /\ \A t \in Threads : pc[t] \in {"reset", "reopen"} =>
          base = [k \in Keys |-> copy[Col(k)][k]]
    /\ RecInv /\ WindowInv /\ CopyInv

IInv == Shape /\ SealInv /\ UndoInv /\ DiskInv

-----------------------------------------------------------------------------
(* Shape. *)

\* What the types say of the thread that takes a step.
LEMMA NextOp ==
    ASSUME TypeOK, NEW t \in Threads, todo[t] # <<>>
    PROVE  /\ Next1(t) \in Op /\ Next1(t).key \in Keys /\ Next1(t).val \in Contents
           /\ Col(Next1(t).key) \in Collections
           /\ Tail(todo[t]) \in Seq(Op)
<1>1. todo[t] \in Seq(Op)
  BY DEF TypeOK
<1>2. Next1(t) \in Op /\ Tail(todo[t]) \in Seq(Op)
  BY <1>1 DEF Next1
<1> QED BY <1>2, ThreadsAssumption DEF Op, Col

\* A thread that takes a step leaves the others where they are.
Elsewhere(t) ==
    \A u \in Threads : u # t =>
        /\ pc'[u] = pc[u] /\ kind'[u] = kind[u]
        /\ todo'[u] = todo[u] /\ undo'[u] = undo[u]

LEMMA OthersStay ==
    ASSUME TypeOK, NEW t \in Threads, NewCall(t) \/ Continue(t)
    PROVE  Elsewhere(t)
<1> USE DEF Elsewhere, TypeOK
<1>1. ASSUME NEW k, NEW l, NEW ops, Enter(t, k, l, ops) PROVE Elsewhere(t)
  BY <1>1 DEF Enter, Goto
<1>2. ASSUME NewCall(t) PROVE Elsewhere(t)
  BY <1>1, <1>2 DEF NewCall, Call, Begin, BeginFails, Bounce, StartCheckpoint, CloseAgain
<1>3. CASE AppendEntry(t) \/ AppendFails(t) \/ Refused(t) \/ NothingToRemove(t) \/ Store(t)
  BY <1>3 DEF AppendEntry, AppendFails, Throw, Refused, NothingToRemove, Store, AfterOp, Goto
<1>4. CASE Capture(t) \/ Commit(t) \/ UndoOne(t)
  BY <1>4 DEF Capture, Commit, UndoOne, EndBatch, Goto, threads
<1>5. CASE CopyRecords(t) \/ Publish(t) \/ CloseLog(t) \/ ReopenLog(t) \/ Detach(t) \/ Seal(t)
  BY <1>5 DEF CopyRecords, Publish, CloseLog, ReopenLog, Detach, Seal, Goto
<1> QED BY <1>2, <1>3, <1>4, <1>5 DEF Continue

\* Undoing takes the latest entry off the undo log.
Rest(t) ==
    SubSeq(undo[t], 1, PickUndo(t) - 1) \o SubSeq(undo[t], PickUndo(t) + 1, Len(undo[t]))

LEMMA UndoRest ==
    ASSUME TypeOK, NEW t \in Threads, undo[t] # <<>>
    PROVE  /\ PickUndo(t) = Len(undo[t]) /\ PickUndo(t) \in DOMAIN undo[t]
           /\ undo[t][PickUndo(t)] \in [key : Keys, previous : Contents]
           /\ Rest(t) \in Seq([key : Keys, previous : Contents])
           /\ DOMAIN Rest(t) = 1..(Len(undo[t]) - 1) /\ DOMAIN undo[t] = 1..Len(undo[t])
           /\ Len(undo[t]) \in Nat \ {0}
           /\ \A j \in DOMAIN Rest(t) : Rest(t)[j] = undo[t][j]
           /\ Rest(t) = <<>> <=> Len(undo[t]) = 1
<1> DEFINE U == [key : Keys, previous : Contents]
           u == undo[t]
           n == Len(u)
           rest == SubSeq(u, 1, n - 1) \o SubSeq(u, n + 1, n)
<1>1. u \in Seq(U) /\ u # <<>>
  BY DEF TypeOK
<1>2. PickUndo(t) = n /\ Rest(t) = rest
  BY DEF PickUndo, Rest
<1> HIDE DEF U, u
<1>3. n \in Nat /\ n >= 1 /\ DOMAIN u = 1..n /\ u[n] \in U
  BY <1>1
<1>4. /\ SubSeq(u, 1, n - 1) \in Seq(U) /\ Len(SubSeq(u, 1, n - 1)) = n - 1
      /\ \A j \in 1..(n - 1) : SubSeq(u, 1, n - 1)[j] = u[j]
  BY <1>1, <1>3
<1>5. SubSeq(u, n + 1, n) = <<>>
  BY <1>1, <1>3
<1>6. rest = SubSeq(u, 1, n - 1)
  BY <1>4, <1>5
<1>7. rest \in Seq(U) /\ Len(rest) = n - 1 /\ \A j \in 1..(n - 1) : rest[j] = u[j]
  BY <1>4, <1>6
<1>8. DOMAIN rest = 1..(n - 1)
  BY <1>3, <1>7
<1>9. rest = <<>> <=> n = 1
  <2> HIDE DEF rest
  <2> QED BY <1>3, <1>7
<1> HIDE DEF rest
<1>10. \A j \in DOMAIN Rest(t) : Rest(t)[j] = u[j]
  BY <1>2, <1>7, <1>8
<1>11. PickUndo(t) \in DOMAIN u /\ n \in Nat \ {0}
  BY <1>2, <1>3
<1> QED BY <1>2, <1>3, <1>7, <1>8, <1>9, <1>10, <1>11 DEF U, u

\* TypeOK in parts.
ThreadType ==
    /\ pc \in [Threads -> Labels] /\ kind \in [Threads -> Kinds]
    /\ todo \in [Threads -> Seq(Op)]
    /\ undo \in [Threads -> Seq([key : Keys, previous : Contents])]
    /\ calls \in [Threads -> Nat]

CopyType ==
    /\ Copied \subseteq Collections
    /\ \A c \in Copied : copy[c] \in [{k \in Keys : Col(k) = c} -> Contents]

DataType ==
    /\ mutex \in Threads \union {NoThread}
    /\ lock \in [Collections -> Threads \union {NoThread}]
    /\ wal \in Seq(Entry) /\ fd \in {"open", "closed"}
    /\ base \in Stores /\ mem \in Stores /\ acked \in Stores
    /\ attached \subseteq Collections /\ sealed \subseteq Collections /\ closed \in BOOLEAN
    /\ races \subseteq Causes

LEMMA TypeParts ==
    /\ TypeOK <=> ThreadType /\ CopyType /\ DataType
    /\ TypeOK' <=> ThreadType' /\ CopyType' /\ DataType'
BY DEF TypeOK, ThreadType, CopyType, DataType

LEMMA CopyStays ==
    ASSUME copy' = copy
    PROVE  Copied' = Copied /\ (CopyType => CopyType')
BY DEF CopyType, Copied, Col

LEMMA EnterFacts ==
    ASSUME TypeOK, NEW t \in Threads, NEW k \in Kinds, NEW l \in Labels,
           NEW ops \in Seq(Op), Enter(t, k, l, ops)
    PROVE  /\ ThreadType'
           /\ pc[t] = "idle"
           /\ pc'[t] = l /\ kind'[t] = k /\ todo'[t] = ops /\ undo'[t] = <<>>
<1> USE TypeParts DEF Enter, Goto, ThreadType
<1>1. pc' \in [Threads -> Labels] /\ kind' \in [Threads -> Kinds]
  OBVIOUS
<1>2. todo' \in [Threads -> Seq(Op)]
  OBVIOUS
<1>3. undo' \in [Threads -> Seq([key : Keys, previous : Contents])]
  <2> DEFINE U == [key : Keys, previous : Contents]
  <2>1. undo \in [Threads -> Seq(U)]
    BY DEF TypeOK
  <2>2. <<>> \in Seq(U)
    OBVIOUS
  <2> HIDE DEF U
  <2>3. undo' \in [Threads -> Seq(U)]
    BY <2>1, <2>2
  <2> QED BY <2>3 DEF U
<1>4. calls' \in [Threads -> Nat]
  OBVIOUS
<1> QED BY <1>1, <1>2, <1>3, <1>4

\* What is left to show of a step when it is shown of the thread that takes it.
LEMMA PcKept ==
    ASSUME Shape, NEW t \in Threads, Elsewhere(t), PcOf(t)',
           \/ Copied' = Copied
           \/ \A u \in Threads : u # t => pc[u] \notin {"publish", "reset", "reopen"},
           Copied' # {} => pc'[t] \in Copying \/ (Copied # {} /\ pc[t] \notin Copying)
    PROVE  PcInv'
<1>1. ASSUME NEW u \in Threads, u # t PROVE PcOf(u)'
  BY <1>1 DEF Shape, PcInv, PcOf, Elsewhere, Next1
<1>2. Copied' # {} => \E u \in Threads : pc'[u] \in Copying
  BY DEF Shape, PcInv, Elsewhere
<1> QED BY <1>1, <1>2 DEF PcInv

\* A thread enters a call that does not begin with the mutex.
LEMMA ShapeOfEntry ==
    ASSUME Shape, NEW t \in Threads, NEW k \in Kinds, NEW l \in Labels,
           NEW ops \in Seq(Op), Enter(t, k, l, ops), Elsewhere(t),
           UNCHANGED <<mutex, lock, copy>>,
           \/ l = "idle"
           \/ l = "append" /\ k = "write" /\ ops # <<>>
    PROVE  MutexInv' /\ LockInv' /\ PcInv'
<1>1. /\ TypeOK /\ t # NoThread /\ Elsewhere(t) /\ Copied' = Copied
      /\ pc[t] = "idle" /\ pc'[t] = l /\ kind'[t] = k /\ todo'[t] = ops /\ undo'[t] = <<>>
  BY EnterFacts, CopyStays, ThreadsAssumption DEF Shape
<1>2. MutexInv'
  BY <1>1 DEF Shape, MutexInv, Exclusive, Elsewhere
<1>3. LockInv'
  BY <1>1 DEF Shape, LockInv, Elsewhere, Next1, Col
<1>4. PcInv'
  <2>1. PcOf(t)'
    BY <1>1 DEF Shape, PcInv, PcOf, LabelsOf, Next1, Kinds
  <2> QED BY <1>1, <2>1, PcKept DEF Copying
<1> QED BY <1>2, <1>3, <1>4

\* A thread enters a call and takes the mutex.
LEMMA ShapeOfExclusiveEntry ==
    ASSUME Shape, NEW t \in Threads, NEW k \in Exclusive, NEW l \in Labels,
           NEW ops \in Seq(Op), Enter(t, k, l, ops), Elsewhere(t),
           mutex = NoThread, mutex' = t, UNCHANGED <<lock, copy>>,
           \/ l = "capture" /\ k = "commit"
           \/ l = "copy" /\ k # "commit"
    PROVE  MutexInv' /\ LockInv' /\ PcInv'
<1>1. /\ TypeOK /\ t # NoThread /\ Elsewhere(t) /\ Copied' = Copied
      /\ pc[t] = "idle" /\ pc'[t] = l /\ kind'[t] = k /\ todo'[t] = ops /\ undo'[t] = <<>>
  BY EnterFacts, CopyStays, ThreadsAssumption DEF Shape, Exclusive, Kinds
<1>2. MutexInv'
  BY <1>1, ThreadsAssumption DEF Shape, MutexInv, Exclusive, Elsewhere
<1>3. LockInv'
  BY <1>1 DEF Shape, LockInv, Elsewhere, Next1, Col
<1>4. PcInv'
  <2>1. PcOf(t)'
    BY <1>1 DEF Shape, PcInv, PcOf, LabelsOf, Next1, Exclusive
  <2> QED BY <1>1, <2>1, PcKept DEF Copying
<1> QED BY <1>2, <1>3, <1>4

LEMMA ShapeOfNewCall ==
    ASSUME Shape, NEW t \in Threads, NewCall(t)
    PROVE  Shape'
<1>1. Elsewhere(t) /\ TypeOK
  BY OthersStay DEF Shape
<1>2. ASSUME NEW op \in Op, Call(t, op) PROVE Shape'
  <2>1. Enter(t, "write", "append", <<op>>) /\ <<op>> \in Seq(Op) /\ <<op>> # <<>>
    BY <1>2 DEF Call
  <2>2. ThreadType'
    BY <1>1, <2>1, EnterFacts DEF Kinds, Labels
  <2>3. CopyType' /\ DataType'
    BY <1>1, <1>2, TypeParts, CopyStays DEF Call, DataType, locks, disk, handle
  <2>4. MutexInv' /\ LockInv' /\ PcInv'
    BY <1>1, <1>2, <2>1, ShapeOfEntry DEF Call, locks, Kinds, Labels
  <2> QED BY <2>2, <2>3, <2>4, TypeParts DEF Shape
<1>3. ASSUME NEW batch \in Batches, Begin(t, batch) PROVE Shape'
  <2>1. Enter(t, "commit", "capture", batch) /\ batch \in Seq(Op)
    BY <1>3, ThreadsAssumption DEF Begin
  <2>2. ThreadType'
    BY <1>1, <2>1, EnterFacts DEF Kinds, Labels
  <2>3. CopyType'
    BY <1>1, <1>3, TypeParts, CopyStays DEF Begin
  <2>4. wal' \in Seq(Entry)
    BY <1>1, <1>3, EntryFacts, AppendFacts DEF TypeOK, Begin, Logs
  <2>5. races' \subseteq Causes
    BY <1>1, <1>3 DEF TypeOK, Begin, Causes
  <2>6. DataType'
    BY <1>1, <1>3, <2>4, <2>5, TypeParts DEF Begin, TakeMutex, DataType, handle
  <2>7. MutexInv' /\ LockInv' /\ PcInv'
    BY <1>1, <1>3, <2>1, ShapeOfExclusiveEntry DEF Begin, TakeMutex, Exclusive, Labels
  <2> QED BY <2>2, <2>3, <2>6, <2>7, TypeParts DEF Shape
<1>4. ASSUME NEW k \in Kinds, Bounce(t, k) PROVE Shape'
  <2>1. Enter(t, k, "idle", <<>>) /\ <<>> \in Seq(Op)
    BY <1>4 DEF Bounce
  <2>2. ThreadType'
    BY <1>1, <2>1, EnterFacts DEF Labels
  <2>3. CopyType' /\ DataType'
    BY <1>1, <1>4, TypeParts, CopyStays DEF Bounce, DataType, locks, disk, handle
  <2>4. MutexInv' /\ LockInv' /\ PcInv'
    BY <1>1, <1>4, <2>1, ShapeOfEntry DEF Bounce, locks, Labels
  <2> QED BY <2>2, <2>3, <2>4, TypeParts DEF Shape
<1>5. ASSUME StartCheckpoint(t) PROVE Shape'
  <2> DEFINE none == <<>>
  <2>1. PICK k \in {"checkpoint", "close"} : Enter(t, k, "copy", none)
    BY <1>5 DEF StartCheckpoint
  <2>9. none \in Seq(Op) /\ k \in Kinds /\ k \in Exclusive /\ k # "commit" /\ "copy" \in Labels
    BY DEF Kinds, Exclusive, Labels
  <2> HIDE DEF none
  <2>2. ThreadType'
    BY <1>1, <2>1, <2>9, EnterFacts
  <2>3. CopyType' /\ DataType'
    BY <1>1, <1>5, TypeParts, CopyStays DEF StartCheckpoint, TakeMutex, DataType, disk, handle
  <2>4. MutexInv' /\ LockInv' /\ PcInv'
    BY <1>1, <1>5, <2>1, <2>9, ShapeOfExclusiveEntry DEF StartCheckpoint, TakeMutex
  <2> QED BY <2>2, <2>3, <2>4, TypeParts DEF Shape
<1> QED BY <1>2, <1>3, <1>4, <1>5 DEF NewCall, BeginFails, CloseAgain, Kinds

\* A step inside a call keeps the mutex, or ends the call and gives it back.
LEMMA MutexKept ==
    ASSUME Shape, NEW t \in Threads, Elsewhere(t), pc[t] # "idle", kind'[t] = kind[t],
           \/ mutex' = mutex /\ (pc'[t] # "idle" \/ kind[t] = "write")
           \/ mutex' = NoThread /\ pc'[t] = "idle" /\ kind[t] \in Exclusive
    PROVE  MutexInv'
BY ThreadsAssumption DEF Shape, MutexInv, Exclusive, Elsewhere

\* A step that is not between the log and memory leaves the collections' locks.
LEMMA LockKept ==
    ASSUME Shape, NEW t \in Threads, Elsewhere(t), pc[t] # "store", pc'[t] # "store",
           lock' = lock
    PROVE  LockInv'
BY DEF Shape, LockInv, Elsewhere, Next1, Col

LEMMA LockGivenBack ==
    ASSUME Shape, NEW t \in Threads, Elsewhere(t), pc[t] \in {"append", "store"},
           pc'[t] # "store",
           pc[t] = "append" => Free(Col(Next1(t).key)),
           lock' = [lock EXCEPT ![Col(Next1(t).key)] = NoThread]
    PROVE  LockInv'
<1> DEFINE c0 == Col(Next1(t).key)
<1>1. TypeOK /\ todo[t] # <<>> /\ t # NoThread
  BY ThreadsAssumption DEF Shape, PcInv, PcOf
<1>2. c0 \in Collections
  BY <1>1, NextOp
<1>3. SUFFICES ASSUME NEW u \in Threads, NEW c \in Collections
               PROVE  lock'[c] = u <=> pc'[u] = "store" /\ Col(Next1(u).key)' = c
  BY DEF LockInv, Col, Next1
<1>4. /\ lock' \in [Collections -> Threads \union {NoThread}]
      /\ lock'[c] = IF c = c0 THEN NoThread ELSE lock[c]
  BY <1>1, <1>2 DEF TypeOK
<1>5. lock[c] = u <=> pc[u] = "store" /\ Col(Next1(u).key) = c
  BY DEF Shape, LockInv
<1>6. lock[c0] = t \/ lock[c0] = NoThread
  BY <1>2 DEF Shape, LockInv, Free
<1>7. CASE u = t
  BY <1>2, <1>4, <1>5, <1>6, <1>7, ThreadsAssumption DEF Free
<1>8. CASE u # t
  <2>1. pc'[u] = pc[u] /\ Col(Next1(u).key)' = Col(Next1(u).key)
    BY <1>8 DEF Elsewhere, Next1, Col
  <2> HIDE DEF c0
  <2> QED BY <1>1, <1>4, <1>5, <1>6, <1>8, <2>1, ThreadsAssumption
<1> QED BY <1>7, <1>8

LEMMA ShapeOfAppendEntry ==
    ASSUME Shape, NEW t \in Threads, AppendEntry(t)
    PROVE  Shape'
<1> DEFINE op == Next1(t)
           c0 == Col(op.key)
<1>1. TypeOK /\ t # NoThread /\ Elsewhere(t) /\ pc[t] = "append" /\ todo[t] # <<>>
  BY OthersStay, ThreadsAssumption DEF Shape, PcInv, PcOf, AppendEntry, CanEnter, Continue
<1>2. op \in Op /\ op.key \in Keys /\ op.val \in Contents /\ c0 \in Collections
  BY <1>1, NextOp
<1>3. pc'[t] = "store" /\ kind' = kind /\ todo' = todo /\ undo' = undo /\ ThreadType'
  BY <1>1, TypeParts DEF AppendEntry, Goto, ThreadType, Labels
<1>4. CopyType' /\ Copied' = Copied
  BY <1>1, TypeParts, CopyStays DEF AppendEntry
<1>5. DataType'
  <2>1. wal' \in Seq(Entry)
    BY <1>1, <1>2, EntryFacts, AppendFacts DEF AppendEntry, TypeOK, Logs
  <2>2. races' \subseteq Causes
    BY <1>1 DEF AppendEntry, RacesOfAppend, TypeOK, Causes
  <2>3. lock' \in [Collections -> Threads \union {NoThread}]
    BY <1>1 DEF AppendEntry, Lock, TypeOK
  <2> QED BY <1>1, <2>1, <2>2, <2>3, TypeParts DEF AppendEntry, DataType, handle
<1>6. MutexInv'
  BY <1>1, <1>3, MutexKept DEF AppendEntry
<1>7. LockInv'
  <2>1. lock[c0] = NoThread /\ lock' = [lock EXCEPT ![c0] = t]
    BY DEF AppendEntry, CanEnter, Free, Lock
  <2>2. SUFFICES ASSUME NEW u \in Threads, NEW c \in Collections
                 PROVE  lock'[c] = u <=> pc'[u] = "store" /\ Col(Next1(u).key)' = c
    BY DEF LockInv, Col, Next1
  <2>3. lock'[c] = IF c = c0 THEN t ELSE lock[c]
    BY <1>1, <1>2, <2>1 DEF TypeOK
  <2>4. Col(Next1(u).key)' = Col(Next1(u).key) /\ (u # t => pc'[u] = pc[u])
    BY <1>1, <1>3 DEF Next1, Col, Elsewhere
  <2>5. /\ lock[c] = u <=> pc[u] = "store" /\ Col(Next1(u).key) = c
        /\ u # NoThread
    BY ThreadsAssumption DEF Shape, LockInv
  <2>6. CASE u = t
    BY <1>1, <1>3, <2>1, <2>3, <2>4, <2>5, <2>6
  <2>7. CASE u # t
    BY <1>1, <2>1, <2>3, <2>4, <2>5, <2>7
  <2> QED BY <2>6, <2>7
<1>8. PcInv'
  <2>1. PcOf(t)'
    BY <1>1, <1>3, <1>4 DEF Shape, PcInv, PcOf, LabelsOf, Next1, TypeOK, Kinds
  <2> QED BY <1>1, <1>3, <1>4, <2>1, PcKept DEF Copying
<1> QED BY <1>3, <1>4, <1>5, <1>6, <1>7, <1>8, TypeParts DEF Shape

LEMMA ShapeOfAppendFails ==
    ASSUME Shape, NEW t \in Threads, AppendFails(t)
    PROVE  Shape'
<1>1. TypeOK /\ Elsewhere(t) /\ pc[t] = "append" /\ todo[t] # <<>>
  BY OthersStay DEF Shape, PcInv, PcOf, AppendFails, CanEnter, Continue
<1>2. /\ pc'[t] = IF kind[t] = "commit" THEN "undo" ELSE "idle"
      /\ kind' = kind /\ todo' = todo /\ undo' = undo /\ ThreadType'
  BY <1>1, TypeParts DEF AppendFails, Throw, Goto, ThreadType, Labels
<1>3. kind[t] \in {"write", "commit"}
  BY <1>1 DEF Shape, PcInv, PcOf, LabelsOf, TypeOK, Kinds
<1>4. CopyType' /\ Copied' = Copied
  BY <1>1, TypeParts, CopyStays DEF AppendFails
<1>5. DataType'
  BY <1>1, TypeParts DEF AppendFails, Throw, Unlock, DataType, disk, handle
<1>6. MutexInv'
  BY <1>1, <1>2, <1>3, MutexKept DEF AppendFails
<1>7. LockInv'
  BY <1>1, <1>2, LockGivenBack DEF AppendFails, Throw, Unlock, CanEnter
<1>8. PcInv'
  <2>1. PcOf(t)'
    BY <1>1, <1>2, <1>3, <1>4 DEF Shape, PcInv, PcOf, LabelsOf, Next1
  <2> QED BY <1>1, <1>2, <1>3, <1>4, <2>1, PcKept DEF Copying
<1> QED BY <1>2, <1>4, <1>5, <1>6, <1>7, <1>8, TypeParts DEF Shape

LEMMA ShapeOfRefused ==
    ASSUME Shape, NEW t \in Threads, Refused(t) \/ NothingToRemove(t)
    PROVE  Shape'
<1> USE DEF Refused, NothingToRemove, AfterOp
<1>1. TypeOK /\ Elsewhere(t) /\ pc[t] = "append" /\ todo[t] # <<>>
  BY OthersStay DEF Shape, PcInv, PcOf, CanEnter, Continue
<1>2. /\ pc'[t] = IF kind[t] = "commit" THEN "capture" ELSE "idle"
      /\ kind' = kind /\ undo' = undo
  BY <1>1, TypeParts DEF Goto, ThreadType
<1>3. kind[t] \in {"write", "commit"}
  BY <1>1 DEF Shape, PcInv, PcOf, LabelsOf, TypeOK, Kinds
<1>4. CopyType' /\ Copied' = Copied /\ UNCHANGED locks
  BY <1>1, TypeParts, CopyStays
<1>5. DataType'
  BY <1>1, TypeParts DEF DataType, disk, handle, locks
<1>6. ThreadType'
  BY <1>1, NextOp, TypeParts DEF Goto, ThreadType, Labels
<1>7. MutexInv'
  BY <1>1, <1>2, <1>3, <1>4, MutexKept DEF locks
<1>8. LockInv'
  BY <1>1, <1>2, <1>4, LockKept DEF locks
<1>9. PcInv'
  <2>1. PcOf(t)'
    BY <1>1, <1>2, <1>3, <1>4 DEF Shape, PcInv, PcOf, LabelsOf, Next1
  <2> QED BY <1>1, <1>2, <1>3, <1>4, <2>1, PcKept DEF Copying
<1> QED BY <1>4, <1>5, <1>6, <1>7, <1>8, <1>9, TypeParts DEF Shape

LEMMA ShapeOfStore ==
    ASSUME Shape, NEW t \in Threads, Store(t)
    PROVE  Shape'
<1>1. TypeOK /\ Elsewhere(t) /\ pc[t] = "store" /\ todo[t] # <<>>
  BY OthersStay DEF Shape, PcInv, PcOf, Store, Continue
<1>2. /\ pc'[t] = IF kind[t] = "commit" THEN "capture" ELSE "idle"
      /\ kind' = kind /\ undo' = undo
  BY <1>1, TypeParts DEF Store, AfterOp, Goto, ThreadType
<1>3. kind[t] \in {"write", "commit"}
  BY <1>1 DEF Shape, PcInv, PcOf, LabelsOf, TypeOK, Kinds
<1>4. CopyType' /\ Copied' = Copied
  BY <1>1, TypeParts, CopyStays DEF Store
<1>5. DataType'
  <2>1. mem' \in Stores /\ acked' \in Stores
    BY <1>1, NextOp DEF Store, TypeOK, Stores
  <2>2. lock' \in [Collections -> Threads \union {NoThread}]
    BY <1>1 DEF Store, Unlock, TypeOK
  <2> QED BY <1>1, <2>1, <2>2, TypeParts DEF Store, DataType, disk, handle
<1>6. ThreadType'
  BY <1>1, NextOp, TypeParts DEF Store, AfterOp, Goto, ThreadType, Labels
<1>7. MutexInv'
  BY <1>1, <1>2, <1>3, MutexKept DEF Store
<1>8. LockInv'
  BY <1>1, <1>2, LockGivenBack DEF Store, Unlock
<1>9. PcInv'
  <2>1. PcOf(t)'
    BY <1>1, <1>2, <1>3, <1>4 DEF Shape, PcInv, PcOf, LabelsOf, Next1
  <2> QED BY <1>1, <1>2, <1>3, <1>4, <2>1, PcKept DEF Copying
<1> QED BY <1>4, <1>5, <1>6, <1>7, <1>8, <1>9, TypeParts DEF Shape

LEMMA ShapeOfCapture ==
    ASSUME Shape, NEW t \in Threads, Capture(t)
    PROVE  /\ Shape'
           /\ kind[t] = "commit"
           /\ undo'[t] = Append(undo[t], [key |-> Next1(t).key, previous |-> mem[Next1(t).key]])
           /\ Len(undo[t]) \in Nat /\ DOMAIN undo[t] = 1..Len(undo[t])
           /\ DOMAIN undo'[t] = 1..(Len(undo[t]) + 1)
           /\ \A i \in DOMAIN undo[t] : undo'[t][i] = undo[t][i]
           /\ undo'[t][Len(undo[t]) + 1] = [key |-> Next1(t).key, previous |-> mem[Next1(t).key]]
<1> DEFINE U == [key : Keys, previous : Contents]
           e == [key |-> Next1(t).key, previous |-> mem[Next1(t).key]]
           u == undo[t]
<1>1. TypeOK /\ Elsewhere(t) /\ pc[t] = "capture" /\ todo[t] # <<>>
  BY OthersStay DEF Shape, Capture, Continue
<1>2. kind[t] = "commit"
  BY <1>1 DEF Shape, PcInv, PcOf, LabelsOf, TypeOK, Kinds
<1>3. e \in U /\ u \in Seq(U) /\ undo \in [Threads -> Seq(U)]
  BY <1>1, NextOp DEF TypeOK, Stores
<1>4. undo'[t] = Append(u, e) /\ undo' = [undo EXCEPT ![t] = Append(u, e)]
  BY <1>3 DEF Capture
<1> HIDE DEF U, e, u
<1>5. /\ Append(u, e) \in Seq(U) /\ Len(Append(u, e)) = Len(u) + 1 /\ Len(u) \in Nat
      /\ DOMAIN u = 1..Len(u) /\ DOMAIN Append(u, e) = 1..(Len(u) + 1)
      /\ Append(u, e)[Len(u) + 1] = e /\ Append(u, e) # <<>>
  BY <1>3
<1>6. \A i \in DOMAIN u : Append(u, e)[i] = u[i]
  BY <1>3
<1>7. undo' \in [Threads -> Seq(U)]
  BY <1>3, <1>4, <1>5
<1>8. pc'[t] = "append" /\ kind' = kind /\ todo' = todo /\ ThreadType'
  BY <1>1, <1>7, TypeParts DEF Capture, Goto, ThreadType, Labels, U
<1>9. CopyType' /\ Copied' = Copied
  BY <1>1, TypeParts, CopyStays DEF Capture
<1>10. DataType'
  BY <1>1, TypeParts DEF Capture, DataType, disk, handle, locks
<1>11. MutexInv'
  BY <1>1, <1>8, MutexKept DEF Capture, locks
<1>12. LockInv'
  BY <1>1, <1>8, LockKept DEF Capture, locks
<1>13. undo'[t] # <<>> /\ undo'[t][Len(undo'[t])].key = Next1(t)'.key
  BY <1>4, <1>5, <1>8 DEF e, Next1
<1>14. PcInv'
  <2>1. PcOf(t)'
    BY <1>1, <1>2, <1>8, <1>9, <1>13 DEF Shape, PcInv, PcOf, LabelsOf, Next1
  <2> QED BY <1>1, <1>2, <1>8, <1>9, <1>13, <2>1, PcKept DEF Copying
<1> QED BY <1>2, <1>4, <1>5, <1>6, <1>8, <1>9, <1>10, <1>11, <1>12, <1>14, TypeParts DEF Shape, e, u

\* A batch that ends gives the mutex back and forgets its operations.
LEMMA ShapeOfEndBatch ==
    ASSUME Shape, NEW t \in Threads, Elsewhere(t), EndBatch(t),
           pc[t] = "undo" \/ pc[t] = "capture"
    PROVE  /\ ThreadType' /\ CopyType' /\ MutexInv' /\ LockInv' /\ PcInv'
           /\ kind[t] = "commit" /\ Copied' = Copied
           /\ pc'[t] = "idle" /\ kind' = kind /\ undo'[t] = <<>>
<1>1. TypeOK /\ kind[t] = "commit"
  BY DEF Shape, PcInv, PcOf, LabelsOf, TypeOK, Kinds
<1>2. pc'[t] = "idle" /\ kind' = kind /\ undo'[t] = <<>>
  BY <1>1 DEF EndBatch, Goto, TypeOK
<1>3. ThreadType'
  <2> DEFINE U == [key : Keys, previous : Contents]
  <2>1. /\ undo \in [Threads -> Seq(U)] /\ todo \in [Threads -> Seq(Op)]
        /\ <<>> \in Seq(U) /\ <<>> \in Seq(Op)
    <3>1. undo \in [Threads -> Seq(U)] /\ todo \in [Threads -> Seq(Op)]
      BY <1>1 DEF TypeOK
    <3>2. <<>> \in Seq(U) /\ <<>> \in Seq(Op)
      OBVIOUS
    <3> QED BY <3>1, <3>2
  <2> HIDE DEF U
  <2>2. undo' \in [Threads -> Seq(U)] /\ todo' \in [Threads -> Seq(Op)]
    BY <2>1 DEF EndBatch
  <2>3. pc' \in [Threads -> Labels]
    BY <1>1 DEF EndBatch, Goto, TypeOK, Labels
  <2> QED BY <1>1, <2>2, <2>3 DEF EndBatch, ThreadType, TypeOK, U
<1>4. CopyType' /\ Copied' = Copied
  BY <1>1, TypeParts, CopyStays DEF EndBatch
<1>5. MutexInv'
  BY <1>1, <1>2, MutexKept DEF EndBatch, Exclusive
<1>6. LockInv'
  BY <1>1, <1>2, LockKept DEF EndBatch
<1>7. PcInv'
  <2>1. PcOf(t)'
    BY <1>1, <1>2, <1>4 DEF Shape, PcInv, PcOf, LabelsOf, Next1
  <2> QED BY <1>1, <1>2, <1>4, <2>1, PcKept DEF Copying
<1> QED BY <1>1, <1>2, <1>3, <1>4, <1>5, <1>6, <1>7

LEMMA ShapeOfCommit ==
    ASSUME Shape, NEW t \in Threads, Commit(t)
    PROVE  Shape'
<1>1. TypeOK /\ Elsewhere(t) /\ pc[t] = "capture" /\ EndBatch(t)
  BY OthersStay DEF Shape, Commit, Continue
<1>2. wal' \in Seq(Entry)
  BY <1>1, EntryFacts, AppendFacts DEF Commit, TypeOK, Logs
<1>3. DataType'
  BY <1>1, <1>2, TypeParts DEF Commit, EndBatch, DataType, handle
<1> QED BY <1>1, <1>3, ShapeOfEndBatch, TypeParts DEF Shape

LEMMA ShapeOfUndoOne ==
    ASSUME Shape, NEW t \in Threads, UndoOne(t)
    PROVE  Shape'
<1> DEFINE U == [key : Keys, previous : Contents]
           e == undo[t][PickUndo(t)]
<1>1. TypeOK /\ Elsewhere(t) /\ pc[t] = "undo" /\ undo[t] # <<>>
  BY OthersStay DEF Shape, PcInv, PcOf, UndoOne, Continue
<1>2. e \in U /\ Rest(t) \in Seq(U)
  BY <1>1, UndoRest
<1>3. mem' \in Stores
  BY <1>1, <1>2 DEF UndoOne, TypeOK, Stores
<1>4. CASE Rest(t) = <<>>
  <2>1. EndBatch(t) /\ races' = {IF x = "overlap" THEN "clobbered" ELSE x : x \in races}
    BY <1>4 DEF UndoOne, Rest
  <2>2. races' \subseteq Causes
    BY <1>1, <2>1 DEF TypeOK, Causes
  <2>3. DataType'
    BY <1>1, <1>3, <2>1, <2>2, TypeParts DEF UndoOne, EndBatch, DataType, disk, handle
  <2> QED BY <1>1, <2>1, <2>3, ShapeOfEndBatch, TypeParts DEF Shape
<1>5. CASE Rest(t) # <<>>
  <2>1. /\ undo' = [undo EXCEPT ![t] = Rest(t)]
        /\ UNCHANGED <<locks, pc, kind, todo, calls, copy, races>>
    BY <1>5 DEF UndoOne, Rest
  <2>2. undo'[t] = Rest(t) /\ undo' \in [Threads -> Seq(U)]
    <3>1. undo \in [Threads -> Seq(U)]
      BY <1>1 DEF TypeOK
    <3> HIDE DEF U
    <3> QED BY <1>2, <2>1, <3>1
  <2>3. ThreadType'
    BY <1>1, <2>1, <2>2, TypeParts DEF ThreadType
  <2>4. CopyType' /\ Copied' = Copied
    BY <1>1, <2>1, TypeParts, CopyStays
  <2>5. DataType'
    BY <1>1, <1>3, <2>1, TypeParts DEF UndoOne, DataType, disk, handle, locks
  <2>6. MutexInv'
    BY <1>1, <2>1, MutexKept DEF locks
  <2>7. LockInv'
    BY <1>1, <2>1, LockKept DEF locks
  <2>8. PcInv'
    BY <1>1, <1>5, <2>1, <2>2, <2>4 DEF Shape, PcInv, PcOf, LabelsOf, Copying, Elsewhere, Next1
  <2> QED BY <2>3, <2>4, <2>5, <2>6, <2>7, <2>8, TypeParts DEF Shape
<1> QED BY <1>4, <1>5

\* At most one thread is in a call that has the mutex.
LEMMA Alone ==
    ASSUME Shape, NEW t \in Threads, pc[t] # "idle", kind[t] \in Exclusive,
           NEW u \in Threads, pc[u] # "idle", kind[u] \in Exclusive
    PROVE  u = t
BY DEF Shape, MutexInv

LEMMA ShapeOfCopyRecords ==
    ASSUME Shape, NEW t \in Threads, CopyRecords(t)
    PROVE  Shape'
<1>1. TypeOK /\ Elsewhere(t) /\ pc[t] = "copy" /\ kind[t] \in {"checkpoint", "close"}
  BY OthersStay DEF Shape, PcInv, PcOf, LabelsOf, TypeOK, Kinds, CopyRecords, Continue
<1>2. PICK c \in Collections \ Copied :
          copy' = [x \in Copied \union {c} |-> IF x = c THEN Restrict1(mem, c) ELSE copy[x]]
  BY DEF CopyRecords
<1>3. Copied' = Copied \union {c} /\ Copied' \subseteq Collections
  BY <1>1, <1>2 DEF Copied, TypeOK
<1>4. CopyType'
  <2>1. Restrict1(mem, c) \in [{k \in Keys : Col(k) = c} -> Contents]
    BY <1>1 DEF Restrict1, TypeOK, Stores
  <2>2. ASSUME NEW x \in Copied \union {c}
        PROVE  copy'[x] \in [{k \in Keys : Col(k) = x} -> Contents]
    BY <1>1, <1>2, <2>1, <2>2 DEF TypeOK
  <2> QED BY <1>3, <2>2 DEF CopyType, Col
<1>5. /\ pc'[t] = IF Copied' = Collections THEN "publish" ELSE "copy"
      /\ kind' = kind /\ todo' = todo /\ undo' = undo /\ ThreadType'
  BY <1>1, TypeParts DEF CopyRecords, Goto, ThreadType, Labels
<1>6. DataType'
  BY <1>1, TypeParts DEF CopyRecords, DataType, disk, handle, locks
<1>7. MutexInv'
  BY <1>1, <1>5, MutexKept DEF CopyRecords, locks
<1>8. LockInv'
  BY <1>1, <1>5, LockKept DEF CopyRecords, locks
<1>9. PcInv'
  <2>1. pc'[t] \in Copying /\ Copied # Collections
    BY <1>5 DEF Copying
  <2>2. ASSUME NEW u \in Threads, u # t PROVE pc[u] \notin {"publish", "reset", "reopen"}
    BY <1>1, <2>2, Alone DEF Shape, PcInv, PcOf, LabelsOf, TypeOK, Kinds, Exclusive
  <2>3. PcOf(t)'
    BY <1>1, <1>5 DEF Shape, PcInv, PcOf, LabelsOf
  <2> QED BY <1>1, <2>1, <2>2, <2>3, PcKept
<1> QED BY <1>4, <1>5, <1>6, <1>7, <1>8, <1>9, TypeParts DEF Shape

LEMMA ShapeOfPublish ==
    ASSUME Shape, NEW t \in Threads, Publish(t)
    PROVE  Shape'
<1>1. TypeOK /\ Elsewhere(t) /\ pc[t] = "publish" /\ kind[t] \in {"checkpoint", "close"}
  BY OthersStay DEF Shape, PcInv, PcOf, LabelsOf, TypeOK, Kinds, Publish, Continue
<1>2. Copied = Collections
  BY <1>1 DEF Shape, PcInv, PcOf
<1>3. base' \in Stores
  <2>1. ASSUME NEW k \in Keys PROVE copy[Col(k)][k] \in Contents
    <3>1. Col(k) \in Copied
      BY <1>2, ThreadsAssumption DEF Col
    <3>2. copy[Col(k)] \in [{x \in Keys : Col(x) = Col(k)} -> Contents]
      BY <1>1, <3>1 DEF TypeOK
    <3>3. k \in {x \in Keys : Col(x) = Col(k)}
      OBVIOUS
    <3> QED BY <3>2, <3>3
  <2> QED BY <2>1 DEF Publish, Stores
<1>4. /\ pc'[t] = IF closed THEN "idle" ELSE "reset"
      /\ mutex' = IF closed THEN NoThread ELSE mutex
      /\ copy' = IF closed THEN << >> ELSE copy
      /\ kind' = kind /\ todo' = todo /\ undo' = undo /\ ThreadType'
  BY <1>1, TypeParts DEF Publish, Goto, ReleaseMutex, ThreadType, Labels
<1>5. CopyType' /\ Copied' = IF closed THEN {} ELSE Copied
  <2>1. CASE closed
    <3>1. copy' = << >>
      BY <1>4, <2>1
    <3>2. Copied' = {}
      BY <3>1 DEF Copied
    <3> QED BY <2>1, <3>2 DEF CopyType
  <2>2. CASE ~closed
    BY <1>1, <1>4, <2>2, CopyStays, TypeParts
  <2> QED BY <2>1, <2>2
<1>6. DataType'
  BY <1>1, <1>3, <1>4, TypeParts DEF Publish, DataType, handle
<1>7. MutexInv'
  BY <1>1, <1>4, MutexKept DEF Exclusive
<1>8. LockInv'
  BY <1>1, <1>4, LockKept DEF Publish
<1>9. ASSUME NEW u \in Threads, u # t PROVE pc[u] \notin {"publish", "reset", "reopen"}
  BY <1>1, <1>9, Alone DEF Shape, PcInv, PcOf, LabelsOf, TypeOK, Kinds, Exclusive
<1>10. PcInv'
  <2>1. PcOf(t)'
    BY <1>1, <1>4, <1>5, <1>9 DEF Shape, PcInv, PcOf, LabelsOf, Next1
  <2> QED BY <1>1, <1>4, <1>5, <1>9, <2>1, PcKept DEF Copying
<1> QED BY <1>4, <1>5, <1>6, <1>7, <1>8, <1>10, TypeParts DEF Shape

LEMMA ShapeOfCloseLog ==
    ASSUME Shape, NEW t \in Threads, CloseLog(t)
    PROVE  Shape'
<1>1. TypeOK /\ Elsewhere(t) /\ pc[t] = "reset" /\ kind[t] \in {"checkpoint", "close"}
  BY OthersStay DEF Shape, PcInv, PcOf, LabelsOf, TypeOK, Kinds, CloseLog, Continue
<1>2. /\ pc'[t] = "reopen" /\ copy' = copy
      /\ kind' = kind /\ todo' = todo /\ undo' = undo /\ ThreadType'
  BY <1>1, TypeParts DEF CloseLog, Goto, ThreadType, Labels
<1>3. CopyType' /\ Copied' = Copied
  BY <1>1, <1>2, CopyStays, TypeParts
<1>4. DataType'
  BY <1>1, TypeParts DEF CloseLog, DataType, handle, locks
<1>5. MutexInv'
  BY <1>1, <1>2, MutexKept DEF CloseLog, locks
<1>6. LockInv'
  BY <1>1, <1>2, LockKept DEF CloseLog, locks
<1>7. PcInv'
  <2>1. PcOf(t)'
    BY <1>1, <1>2, <1>3 DEF Shape, PcInv, PcOf, LabelsOf, Next1
  <2> QED BY <1>1, <1>2, <1>3, <2>1, PcKept DEF Copying
<1> QED BY <1>2, <1>3, <1>4, <1>5, <1>6, <1>7, TypeParts DEF Shape

LEMMA ShapeOfReopenLog ==
    ASSUME Shape, NEW t \in Threads, ReopenLog(t)
    PROVE  Shape' /\ Copied' = {} /\ kind[t] \in {"checkpoint", "close"}
<1>1. TypeOK /\ Elsewhere(t) /\ pc[t] = "reopen" /\ kind[t] \in {"checkpoint", "close"}
  BY OthersStay DEF Shape, PcInv, PcOf, LabelsOf, TypeOK, Kinds, ReopenLog, Continue
<1>2. /\ pc'[t] = IF kind[t] = "close" THEN "detach" ELSE "idle"
      /\ mutex' = IF kind[t] = "close" THEN mutex ELSE NoThread
      /\ kind' = kind /\ todo' = todo /\ undo' = undo /\ ThreadType'
  BY <1>1, TypeParts DEF ReopenLog, Goto, ReleaseMutex, ThreadType, Labels
<1>3. CopyType' /\ Copied' = {}
  BY DEF ReopenLog, CopyType, Copied
<1>4. DataType'
  <2>1. races' \subseteq Causes
    BY <1>1 DEF ReopenLog, TypeOK, Causes
  <2>2. wal' \in Seq(Entry)
    <3>1. wal' = <<>>
      BY DEF ReopenLog
    <3>2. <<>> \in Seq(Entry)
      OBVIOUS
    <3> QED BY <3>1, <3>2
  <2> QED BY <1>1, <1>2, <2>1, <2>2, TypeParts DEF ReopenLog, DataType, handle
<1>5. MutexInv'
  BY <1>1, <1>2, MutexKept DEF Exclusive
<1>6. LockInv'
  BY <1>1, <1>2, LockKept DEF ReopenLog
<1>7. ASSUME NEW u \in Threads, u # t PROVE pc[u] \notin {"publish", "reset", "reopen"}
  BY <1>1, <1>7, Alone DEF Shape, PcInv, PcOf, LabelsOf, TypeOK, Kinds, Exclusive
<1>8. PcInv'
  <2>1. PcOf(t)'
    BY <1>1, <1>2, <1>3, <1>7 DEF Shape, PcInv, PcOf, LabelsOf, Next1
  <2> QED BY <1>1, <1>2, <1>3, <1>7, <2>1, PcKept DEF Copying
<1> QED BY <1>1, <1>2, <1>3, <1>4, <1>5, <1>6, <1>8, TypeParts DEF Shape

LEMMA ShapeOfSealing ==
    ASSUME Shape, NEW t \in Threads, Detach(t) \/ Seal(t)
    PROVE  Shape'
<1>1. TypeOK /\ Elsewhere(t) /\ pc[t] \in {"detach", "seal"} /\ kind[t] = "close"
  BY OthersStay DEF Shape, PcInv, PcOf, LabelsOf, TypeOK, Kinds, Detach, Seal, Continue
<1>2. /\ \/ pc'[t] \in {"detach", "seal"} /\ mutex' = mutex
         \/ pc'[t] = "idle" /\ mutex' = NoThread
      /\ lock' = lock /\ copy' = copy
      /\ kind' = kind /\ todo' = todo /\ undo' = undo /\ ThreadType'
  BY <1>1, TypeParts DEF Detach, Seal, Goto, ReleaseMutex, ThreadType, Labels, locks
<1>3. CopyType' /\ Copied' = Copied
  BY <1>1, <1>2, CopyStays, TypeParts
<1>4. DataType'
  BY <1>1, <1>2, TypeParts DEF Detach, Seal, DataType, disk, locks
<1>5. MutexInv'
  BY <1>1, <1>2, MutexKept DEF Exclusive
<1>6. LockInv'
  BY <1>1, <1>2, LockKept
<1>7. PcInv'
  <2>1. PcOf(t)'
    BY <1>1, <1>2, <1>3 DEF Shape, PcInv, PcOf, LabelsOf, Next1
  <2> QED BY <1>1, <1>2, <1>3, <2>1, PcKept DEF Copying
<1> QED BY <1>2, <1>3, <1>4, <1>5, <1>6, <1>7, TypeParts DEF Shape

LEMMA ShapeStep ==
    ASSUME Shape, [Next]_vars
    PROVE  Shape'
<1>1. CASE UNCHANGED vars
  <2> USE <1>1 DEF vars, locks, disk, handle, threads
  <2>1. Copied' = Copied /\ (CopyType => CopyType')
    BY CopyStays
  <2>2. (ThreadType => ThreadType') /\ (DataType => DataType')
    BY DEF ThreadType, DataType
  <2>3. MutexInv' /\ LockInv' /\ PcInv'
    BY <2>1 DEF Shape, MutexInv, LockInv, PcInv, PcOf, Next1, Col
  <2> QED BY <2>1, <2>2, <2>3, TypeParts DEF Shape
<1>2. ASSUME NEW t \in Threads, NewCall(t) PROVE Shape'
  BY <1>2, ShapeOfNewCall
<1>3. ASSUME NEW t \in Threads, Continue(t) PROVE Shape'
  BY <1>3, ShapeOfAppendEntry, ShapeOfAppendFails, ShapeOfRefused, ShapeOfStore,
     ShapeOfCapture, ShapeOfCommit, ShapeOfUndoOne, ShapeOfCopyRecords, ShapeOfPublish,
     ShapeOfCloseLog, ShapeOfReopenLog, ShapeOfSealing DEF Continue
<1> QED BY <1>1, <1>2, <1>3 DEF Next, Done

LEMMA ShapeInit == Init => Shape
<1> SUFFICES ASSUME Init PROVE Shape
  OBVIOUS
<1> USE ThreadsAssumption DEF Init
<1>1. Copied = {}
  BY DEF Copied
<1>2. <<>> \in Seq(Entry) /\ <<>> \in Seq(Op) /\ <<>> \in Seq([key : Keys, previous : Contents])
  OBVIOUS
<1>3. ThreadType /\ CopyType /\ DataType
  <2>1. todo \in [Threads -> Seq(Op)] /\ undo \in [Threads -> Seq([key : Keys, previous : Contents])]
    <3> DEFINE U == Seq([key : Keys, previous : Contents])
               O == Seq(Op)
    <3> HIDE DEF U, O
    <3>1. <<>> \in U /\ <<>> \in O
      BY <1>2 DEF U, O
    <3>2. todo \in [Threads -> O] /\ undo \in [Threads -> U]
      BY <3>1
    <3> QED BY <3>2 DEF U, O
  <2>2. wal \in Seq(Entry)
    BY <1>2
  <2> QED BY <1>1, <2>1, <2>2 DEF ThreadType, CopyType, DataType, Labels, Kinds
<1>4. MutexInv /\ LockInv /\ PcInv
  BY <1>1 DEF MutexInv, LockInv, PcInv, PcOf, LabelsOf
<1> QED BY <1>3, <1>4, TypeParts DEF Shape

-----------------------------------------------------------------------------
(* Sealed collections. *)

\* Only a call that has the mutex truncates the log or seals.
LEMMA ExclusiveLabels ==
    ASSUME Shape, NEW u \in Threads,
           pc[u] \in {"capture", "undo", "copy", "publish", "reset", "reopen", "detach", "seal"}
    PROVE  pc[u] # "idle" /\ kind[u] \in Exclusive /\ mutex = u
<1>1. kind[u] \in Exclusive /\ pc[u] # "idle"
  BY DEF Shape, PcInv, PcOf, LabelsOf, TypeOK, Kinds, Exclusive
<1> QED BY <1>1 DEF Shape, MutexInv

LEMMA SealStep ==
    ASSUME Shape, SealInv, Shape', [Next]_vars
    PROVE  SealInv'
<1>1. CASE UNCHANGED vars
  BY <1>1 DEF vars, locks, disk, handle, threads, SealInv, Free, Running
<1>2. ASSUME NEW t \in Threads, NewCall(t) \/ Continue(t) PROVE SealInv'
  <2>1. TypeOK /\ Elsewhere(t) /\ t # NoThread
    BY <1>2, OthersStay, ThreadsAssumption DEF Shape
  <2>2. CASE UNCHANGED <<locks, handle>> /\ pc'[t] \notin {"reset", "reopen", "detach", "seal"}
             /\ Running("commit")' \subseteq Running("commit")
    BY <2>1, <2>2 DEF SealInv, Free, locks, handle, Elsewhere
  <2>3. ASSUME NEW op \in Op, Call(t, op) PROVE SealInv'
    <3>1. pc'[t] = "append" /\ kind'[t] = "write" /\ UNCHANGED <<locks, handle>>
      BY <2>1, <2>3 DEF Call, Enter, Goto, TypeOK
    <3>2. Running("commit")' \subseteq Running("commit")
      BY <2>1, <3>1 DEF Running, Elsewhere
    <3> QED BY <2>2, <3>1, <3>2
  <2>4. ASSUME NEW batch \in Batches, Begin(t, batch) PROVE SealInv'
    <3>1. 1 \in DOMAIN batch /\ Col(batch[1].key) \in Collections \ sealed
      <4>1. batch \in Seq(Op) /\ batch # <<>>
        BY ThreadsAssumption
      <4>2. 1 \in DOMAIN batch /\ batch[1] \in Op
        BY <4>1
      <4> QED BY <2>4, <4>2, ThreadsAssumption DEF Begin, Op, Col
    <3>2. ~closed
      BY <3>1 DEF SealInv
    <3>3. pc'[t] = "capture"
      BY <2>1, <2>4 DEF Begin, Enter, Goto, TypeOK
    <3> QED BY <2>1, <2>4, <3>2, <3>3 DEF Begin, SealInv, Free, handle, Elsewhere
  <2>5. ASSUME NEW k \in Kinds, Bounce(t, k) PROVE SealInv'
    <3>1. pc'[t] = "idle" /\ UNCHANGED <<locks, handle>>
      BY <2>1, <2>5 DEF Bounce, Enter, Goto, TypeOK
    <3>2. Running("commit")' \subseteq Running("commit")
      BY <2>1, <3>1 DEF Running, Elsewhere
    <3> QED BY <2>2, <3>1, <3>2
  <2>6. ASSUME StartCheckpoint(t) PROVE SealInv'
    <3>1. pc'[t] = "copy" /\ kind'[t] # "commit" /\ UNCHANGED <<lock, handle>>
      BY <2>1, <2>6 DEF StartCheckpoint, Enter, Goto, TypeOK
    <3>2. Running("commit")' \subseteq Running("commit")
      BY <2>1, <3>1 DEF Running, Elsewhere
    <3> QED BY <2>1, <3>1, <3>2 DEF SealInv, Free, handle, Elsewhere
  <2>7. ASSUME AppendEntry(t) PROVE SealInv'
    <3>1. pc'[t] = "store" /\ kind' = kind /\ UNCHANGED handle
      BY <2>1, <2>7 DEF AppendEntry, Goto, TypeOK
    <3>2. \A c \in sealed : lock'[c] = lock[c]
      BY <2>1, <2>7 DEF AppendEntry, Lock, Writable, TypeOK
    <3>3. Running("commit")' \subseteq Running("commit")
      BY <2>1, <2>7, <3>1 DEF Running, Elsewhere, AppendEntry, CanEnter
    <3> QED BY <2>1, <3>1, <3>2, <3>3 DEF SealInv, Free, handle, Elsewhere
  <2>8. ASSUME AppendFails(t) \/ Refused(t) \/ NothingToRemove(t) \/ Store(t) PROVE SealInv'
    <3>1. pc[t] # "idle" /\ pc'[t] \in {"undo", "idle", "capture"} /\ kind' = kind /\ UNCHANGED handle
      BY <2>1, <2>8 DEF AppendFails, Throw, Refused, NothingToRemove, Store, AfterOp, CanEnter,
                        Goto, TypeOK
    <3>2. \A c \in Collections : lock'[c] \in {lock[c], NoThread}
      BY <2>1, <2>8 DEF AppendFails, Throw, Refused, NothingToRemove, Store, Unlock, locks, TypeOK
    <3>3. Running("commit")' \subseteq Running("commit")
      BY <2>1, <3>1 DEF Running, Elsewhere
    <3> QED BY <2>1, <3>1, <3>2, <3>3 DEF SealInv, Free, handle, Elsewhere, TypeOK
  <2>9. ASSUME Capture(t) \/ Commit(t) \/ UndoOne(t) PROVE SealInv'
    <3>1. /\ pc[t] # "idle" /\ pc'[t] \in {"append", "idle", "undo"}
          /\ kind' = kind /\ UNCHANGED <<lock, handle>>
      BY <2>1, <2>9 DEF Capture, Commit, UndoOne, EndBatch, Goto, locks, TypeOK
    <3>2. Running("commit")' \subseteq Running("commit")
      BY <2>1, <3>1 DEF Running, Elsewhere
    <3> QED BY <2>1, <3>1, <3>2 DEF SealInv, Free, handle, Elsewhere
  <2>10. ASSUME CopyRecords(t) \/ Publish(t) \/ CloseLog(t) \/ ReopenLog(t) \/ Detach(t)
         PROVE SealInv'
    <3>1. pc'[t] \in {"reset", "reopen", "detach", "seal"} => ~closed
      BY <2>1, <2>10 DEF CopyRecords, Publish, CloseLog, ReopenLog, Detach, Goto, SealInv, TypeOK
    <3>2. pc[t] # "idle" /\ kind' = kind /\ UNCHANGED <<lock, sealed, closed>>
      BY <2>10 DEF CopyRecords, Publish, CloseLog, ReopenLog, Detach, handle, locks
    <3>3. Running("commit")' \subseteq Running("commit")
      BY <2>1, <3>2 DEF Running, Elsewhere
    <3> QED BY <2>1, <3>1, <3>2, <3>3 DEF SealInv, Free, Elsewhere
  <2>11. ASSUME Seal(t) PROVE SealInv'
    <3>1. pc[t] = "seal" /\ kind' = kind /\ UNCHANGED lock
      BY <2>11 DEF Seal
    <3>2. \A c \in sealed' : lock[c] = NoThread
      BY <2>11 DEF Seal, SealInv, CanSeal, Free
    <3>3. ~closed /\ kind[t] = "close" /\ kind[t] \in Exclusive
      <4>1. ~closed
        BY <3>1 DEF SealInv
      <4>2. kind[t] = "close"
        BY <3>1 DEF Shape, PcInv, PcOf, LabelsOf, TypeOK, Kinds
      <4> QED BY <4>1, <4>2 DEF Exclusive
    <3>4. \A u \in Threads : u # t =>
              pc[u] \notin {"capture", "undo", "copy", "publish", "reset", "reopen", "detach", "seal"}
      BY <2>1, <3>1, ExclusiveLabels
    <3>5. Running("commit") = {}
      BY <3>1, <3>3, Alone DEF Running, Exclusive
    <3>6. Running("commit")' = {}
      BY <2>1, <3>1, <3>3, <3>5 DEF Running, Elsewhere
    <3>7. pc'[t] = IF closed' THEN "idle" ELSE "detach"
      BY <2>1, <2>11, <3>3 DEF Seal, Goto, TypeOK
    <3>8. closed' => sealed' = Collections
      BY <2>11, <3>3 DEF Seal
    <3> QED BY <2>1, <3>1, <3>2, <3>4, <3>6, <3>7, <3>8 DEF SealInv, Free, Elsewhere
  <2> QED BY <1>2, <2>3, <2>4, <2>5, <2>6, <2>7, <2>8, <2>9, <2>10, <2>11
       DEF NewCall, Continue, BeginFails, CloseAgain, Kinds
<1> QED BY <1>1, <1>2 DEF Next, Done

LEMMA SealInit == Init => SealInv
BY DEF Init, SealInv, Running

\* Once closed, a step changes neither the records nor the log.
LEMMA ClosedStep ==
    ASSUME Shape, SealInv, [Next]_vars, closed
    PROVE  UNCHANGED <<mem, wal>>
<1>1. CASE UNCHANGED vars
  BY <1>1 DEF vars, disk
<1>2. ASSUME NEW t \in Threads, NewCall(t) PROVE UNCHANGED <<mem, wal>>
  <2>1. ASSUME NEW batch \in Batches, Begin(t, batch) PROVE FALSE
    <3>1. batch \in Seq(Op) /\ batch # <<>>
      BY ThreadsAssumption
    <3>2. 1 \in DOMAIN batch /\ batch[1] \in Op
      BY <3>1
    <3>3. Col(batch[1].key) \in Collections \ sealed
      BY <2>1, <3>2, ThreadsAssumption DEF Begin, Op, Col
    <3> QED BY <3>3 DEF SealInv
  <2> QED BY <1>2, <2>1 DEF NewCall, Call, BeginFails, Bounce, StartCheckpoint, CloseAgain, disk
<1>3. ASSUME NEW t \in Threads, Continue(t) PROVE UNCHANGED <<mem, wal>>
  <2>1. ~AppendEntry(t) /\ ~Store(t)
    <3>1. ASSUME pc[t] \in {"append", "store"} PROVE Col(Next1(t).key) \in sealed
      BY <3>1, NextOp DEF Shape, PcInv, PcOf, SealInv
    <3>2. ASSUME pc[t] = "store" PROVE FALSE
      BY <3>1, <3>2, ThreadsAssumption DEF Shape, LockInv, SealInv, Free, TypeOK
    <3> QED BY <3>1, <3>2 DEF AppendEntry, CanEnter, Writable, Store
  <2>2. ~Commit(t) /\ ~UndoOne(t)
    <3>1. ASSUME pc[t] \in {"capture", "undo"} PROVE t \in Running("commit")
      BY <3>1 DEF Shape, PcInv, PcOf, LabelsOf, TypeOK, Kinds, Running
    <3> QED BY <3>1 DEF Commit, UndoOne, SealInv
  <2>3. ~ReopenLog(t)
    BY DEF ReopenLog, SealInv
  <2> QED BY <1>3, <2>1, <2>2, <2>3 DEF Continue, AppendFails, Refused, NothingToRemove,
       Capture, CopyRecords, Publish, CloseLog, Detach, Seal, disk
<1> QED BY <1>1, <1>2, <1>3 DEF Next, Done, vars, disk

-----------------------------------------------------------------------------
(* What a running batch can take back. *)

\* A step that changes neither memory nor a batch, and lets no writer pass
\* from the log to memory, changes nothing about the batch.
LEMMA UndoKept ==
    ASSUME Shape, UndoInv, UNCHANGED <<mem, acked>>,
           races' \intersect {"overlap", "clobbered"} = races \intersect {"overlap", "clobbered"},
           Running("commit")' = Running("commit"),
           \A u \in Running("commit") : undo'[u] = undo[u],
           \A u \in Threads : kind'[u] = "write" /\ pc'[u] = "store" =>
               kind[u] = "write" /\ pc[u] = "store" /\ todo'[u] = todo[u]
    PROVE  UndoInv'
<1>1. ASSUME NEW t \in Running("commit"), Revertible(t) PROVE Revertible(t)'
  <2>1. undo'[t] = undo[t] /\ Captured(t)' = Captured(t)
    BY DEF Captured
  <2> QED BY <1>1, <2>1 DEF Revertible, Next1
<1>2. "overlap" \in races' <=> "overlap" \in races
  OBVIOUS
<1>3. "clobbered" \in races' <=> "clobbered" \in races
  OBVIOUS
<1> QED BY <1>1, <1>2, <1>3 DEF UndoInv

\* There is at most one batch.
LEMMA OneBatch ==
    ASSUME Shape, NEW t \in Threads, pc[t] # "idle", kind[t] \in Exclusive
    PROVE  Running("commit") = IF kind[t] = "commit" THEN {t} ELSE {}
BY Alone DEF Running, Exclusive

LEMMA UndoOfNewCall ==
    ASSUME Shape, UndoInv, NEW t \in Threads, NewCall(t)
    PROVE  UndoInv'
<1>1. TypeOK /\ Elsewhere(t)
  BY OthersStay DEF Shape
<1>2. ASSUME pc[t] = "idle", UNCHANGED <<mem, acked, races>>,
             \/ pc'[t] = "idle"
             \/ pc'[t] # "store" /\ kind'[t] # "commit"
      PROVE  UndoInv'
  <2>1. Running("commit")' = Running("commit") /\ t \notin Running("commit")
    BY <1>1, <1>2 DEF Running, Elsewhere
  <2> QED BY <1>1, <1>2, <2>1, UndoKept DEF Elsewhere, Running
<1>3. ASSUME NEW op \in Op, Call(t, op) PROVE UndoInv'
  BY <1>1, <1>2, <1>3 DEF Call, Enter, Goto, TypeOK
<1>4. ASSUME NEW k \in Kinds, Bounce(t, k) PROVE UndoInv'
  BY <1>1, <1>2, <1>4 DEF Bounce, Enter, Goto, TypeOK
<1>5. ASSUME StartCheckpoint(t) PROVE UndoInv'
  BY <1>1, <1>2, <1>5 DEF StartCheckpoint, Enter, Goto, TypeOK
<1>6. ASSUME NEW batch \in Batches, Begin(t, batch) PROVE UndoInv'
  <2>1. /\ mutex = NoThread /\ pc[t] = "idle" /\ UNCHANGED <<mem, acked>>
        /\ pc'[t] = "capture" /\ kind'[t] = "commit" /\ undo'[t] = <<>>
        /\ races' = {IF x = "in_window" THEN "buried" ELSE x : x \in races}
    BY <1>1, <1>6 DEF Begin, TakeMutex, Enter, Goto, TypeOK
  <2>2. Running("commit") = {}
    BY <2>1, ThreadsAssumption DEF Shape, MutexInv, Running, Exclusive
  <2>3. Running("commit")' = {t}
    BY <1>1, <2>1, <2>2 DEF Running, Elsewhere
  <2>4. "overlap" \in races' <=> "overlap" \in races
    BY <2>1
  <2>5. "clobbered" \in races' <=> "clobbered" \in races
    BY <2>1
  <2>6. Captured(t)' = {} /\ DOMAIN undo'[t] = {}
    BY <2>1 DEF Captured
  <2>7. "clobbered" \notin races => Revertible(t)'
    BY <2>1, <2>2, <2>6 DEF UndoInv, Revertible
  <2> QED BY <2>2, <2>3, <2>4, <2>5, <2>7 DEF UndoInv
<1> QED BY <1>3, <1>4, <1>5, <1>6 DEF NewCall, BeginFails, CloseAgain, Kinds

LEMMA UndoOfQuietStep ==
    ASSUME Shape, UndoInv, NEW t \in Threads,
           \/ AppendFails(t) \/ Refused(t) \/ NothingToRemove(t)
           \/ CopyRecords(t) \/ Publish(t) \/ CloseLog(t) \/ Detach(t) \/ Seal(t)
    PROVE  UndoInv'
<1>1. TypeOK /\ Elsewhere(t)
  BY OthersStay DEF Shape, Continue
<1>2. /\ pc[t] # "idle" /\ UNCHANGED <<kind, undo, mem, acked, races>>
      /\ pc'[t] # "store" /\ (kind[t] = "commit" => pc'[t] # "idle")
  BY <1>1 DEF AppendFails, Throw, Refused, NothingToRemove, AfterOp, CanEnter, CopyRecords,
       Publish, CloseLog, Detach, Seal, Goto, Shape, PcInv, PcOf, LabelsOf, TypeOK, Kinds
<1>3. Running("commit")' = Running("commit")
  BY <1>1, <1>2 DEF Running, Elsewhere
<1> QED BY <1>1, <1>2, <1>3, UndoKept DEF Elsewhere

LEMMA UndoOfReopenLog ==
    ASSUME Shape, UndoInv, NEW t \in Threads, ReopenLog(t)
    PROVE  UndoInv'
<1>1. /\ TypeOK /\ Elsewhere(t) /\ pc[t] = "reopen"
      /\ kind[t] \in {"checkpoint", "close"} /\ kind' = kind
  BY OthersStay, ShapeOfReopenLog DEF Shape, Continue, ReopenLog
<1>2. Running("commit") = {}
  BY <1>1, OneBatch DEF Exclusive
<1>3. Running("commit")' = {}
  BY <1>1, <1>2 DEF Running, Elsewhere
<1>4. "overlap" \notin races' /\ ("clobbered" \in races' <=> "clobbered" \in races)
  BY DEF ReopenLog
<1> QED BY <1>2, <1>3, <1>4 DEF ReopenLog, UndoInv

LEMMA UndoOfAppendEntry ==
    ASSUME Shape, UndoInv, NEW t \in Threads, AppendEntry(t)
    PROVE  UndoInv'
<1>1. TypeOK /\ Elsewhere(t) /\ pc[t] = "append" /\ todo[t] # <<>>
  BY OthersStay DEF Shape, PcInv, PcOf, Continue, AppendEntry, CanEnter
<1>2. pc'[t] = "store" /\ UNCHANGED <<kind, todo, undo, mem, acked>>
  BY <1>1 DEF AppendEntry, Goto, TypeOK
<1>3. Running("commit")' = Running("commit")
  BY <1>1, <1>2 DEF Running, Elsewhere
<1>4. CASE kind[t] = "commit"
  <2>1. races' \intersect {"overlap", "clobbered"} = races \intersect {"overlap", "clobbered"}
    BY <1>4 DEF AppendEntry, RacesOfAppend
  <2> QED BY <1>1, <1>2, <1>3, <1>4, <2>1, UndoKept DEF Elsewhere
<1>5. CASE kind[t] # "commit"
  <2>1. races' = races \union RacesOfAppend(t)
    BY DEF AppendEntry
  <2>2. "clobbered" \in races' <=> "clobbered" \in races
    BY <2>1 DEF RacesOfAppend
  <2>3. "overlap" \in races' <=>
            "overlap" \in races \/ \E u \in Threads : Next1(t).key \in Captured(u)
    BY <1>5, <2>1 DEF RacesOfAppend
  <2>4. ASSUME NEW u \in Threads, Next1(t).key \in Captured(u) PROVE u \in Running("commit")
    <3>1. undo[u] # <<>>
      BY <2>4 DEF Captured
    <3> QED BY <3>1 DEF Shape, PcInv, PcOf, Running
  <2>5. ASSUME NEW c \in Running("commit"), Revertible(c), "overlap" \notin races'
        PROVE  Revertible(c)'
    <3>1. c \in Threads /\ Captured(c)' = Captured(c)
      BY <1>2 DEF Captured, Running
    <3>2. Next1(t).key \notin Captured(c)
      BY <2>3, <2>5, <3>1
    <3>3. ASSUME NEW u \in Threads, kind'[u] = "write", pc'[u] = "store"
          PROVE  Next1(u)'.key \notin Captured(c)
      <4>1. CASE u = t
        BY <1>2, <3>2, <4>1 DEF Next1
      <4>2. CASE u # t
        BY <1>1, <1>2, <2>5, <3>3, <4>2 DEF Elsewhere, Revertible, Next1
      <4> QED BY <4>1, <4>2
    <3> QED BY <1>2, <2>5, <3>1, <3>3 DEF Revertible
  <2> QED BY <1>2, <1>3, <2>2, <2>3, <2>4, <2>5 DEF UndoInv
<1> QED BY <1>4, <1>5

LEMMA UndoOfStore ==
    ASSUME Shape, UndoInv, NEW t \in Threads, Store(t)
    PROVE  UndoInv'
<1> DEFINE op == Next1(t)
<1>1. TypeOK /\ Elsewhere(t) /\ pc[t] = "store" /\ todo[t] # <<>>
  BY OthersStay DEF Shape, PcInv, PcOf, Continue, Store
<1>2. op.key \in Keys
  BY <1>1, NextOp
<1>3. /\ pc'[t] = IF kind[t] = "commit" THEN "capture" ELSE "idle"
      /\ UNCHANGED <<kind, undo, races>>
      /\ mem' = [mem EXCEPT ![op.key] = op.val]
      /\ acked' = IF kind[t] = "commit" THEN acked ELSE [acked EXCEPT ![op.key] = op.val]
  BY <1>1 DEF Store, AfterOp, Goto, TypeOK
<1>4. Running("commit")' = Running("commit")
  BY <1>1, <1>3 DEF Running, Elsewhere
<1>5. \A c \in Threads : Captured(c)' = Captured(c)
  BY <1>3 DEF Captured
<1>6. \A u \in Threads : kind'[u] = "write" /\ pc'[u] = "store" =>
          kind[u] = "write" /\ pc[u] = "store" /\ Next1(u)' = Next1(u)
  BY <1>1, <1>3 DEF Elsewhere, Next1
<1>7. mem \in Stores /\ acked \in Stores
  BY <1>1 DEF TypeOK
<1> HIDE DEF op
<1>8. CASE kind[t] = "commit"
  <2>1. Running("commit") = {t}
    BY <1>1, <1>8, OneBatch DEF Exclusive
  <2>2. op.key \in Captured(t)
    <3>1. undo[t] # <<>> /\ undo[t][Len(undo[t])].key = op.key
      BY <1>1, <1>8 DEF Shape, PcInv, PcOf, op
    <3>2. Len(undo[t]) \in DOMAIN undo[t]
      BY <1>1, <3>1, UndoRest
    <3> QED BY <3>1, <3>2 DEF Captured
  <2>3. \A k \in Keys \ Captured(t) : mem'[k] = mem[k]
    BY <1>2, <1>3, <1>7, <2>2 DEF Stores
  <2>4. Revertible(t) => Revertible(t)'
    BY <1>3, <1>5, <1>6, <1>8, <2>3 DEF Revertible
  <2> QED BY <1>3, <1>4, <2>1, <2>4 DEF UndoInv
<1>9. CASE kind[t] # "commit"
  <2>1. kind[t] = "write"
    BY <1>1, <1>9 DEF Shape, PcInv, PcOf, LabelsOf, TypeOK, Kinds
  <2>2. /\ acked' = [acked EXCEPT ![op.key] = op.val]
        /\ \A k \in Keys : mem[k] = acked[k] => mem'[k] = acked'[k]
        /\ \A k \in Keys : k # op.key => acked'[k] = acked[k]
        /\ mem = acked => mem' = acked'
    BY <1>2, <1>3, <1>7, <1>9 DEF Stores
  <2>3. ASSUME NEW c \in Running("commit"), Revertible(c)
        PROVE  Revertible(c)'
    <3>1. c \in Threads /\ Captured(c)' = Captured(c)
      BY <1>5 DEF Running
    <3>2. op.key \notin Captured(c)
      BY <1>1, <2>1, <2>3 DEF Revertible, op
    <3>3. \A i \in DOMAIN undo[c] : undo[c][i].key \in Keys /\ undo[c][i].key # op.key
      <4>1. undo[c] \in Seq([key : Keys, previous : Contents])
        BY <1>1, <3>1 DEF TypeOK
      <4>2. ASSUME NEW i \in DOMAIN undo[c]
            PROVE  undo[c][i].key \in Keys /\ undo[c][i].key \in Captured(c)
        <5> DEFINE U == [key : Keys, previous : Contents]
                   s == undo[c]
        <5>1. s \in Seq(U) /\ i \in DOMAIN s
          BY <4>1
        <5> HIDE DEF U, s
        <5>2. s[i] \in U
          BY <5>1
        <5> QED BY <5>2 DEF Captured, U, s
      <4> QED BY <3>2, <4>2
    <3>4. \A i \in DOMAIN undo[c] : acked'[undo[c][i].key] = acked[undo[c][i].key]
      BY <2>2, <3>3
    <3> QED BY <1>3, <1>6, <2>2, <2>3, <3>1, <3>4 DEF Revertible
  <2> QED BY <1>3, <1>4, <2>2, <2>3 DEF UndoInv
<1> QED BY <1>8, <1>9

LEMMA UndoOfCapture ==
    ASSUME Shape, UndoInv, NEW t \in Threads, Capture(t)
    PROVE  UndoInv'
<1> DEFINE op == Next1(t)
           n == Len(undo[t])
<1>1. TypeOK /\ Elsewhere(t) /\ pc[t] = "capture" /\ todo[t] # <<>>
  BY OthersStay DEF Shape, Continue, Capture
<1>2. op.key \in Keys /\ Col(op.key) \in Collections
  BY <1>1, NextOp
<1>3. pc'[t] = "append" /\ UNCHANGED <<kind, todo, mem, acked, races>>
  BY <1>1 DEF Capture, Goto, TypeOK
<1>4. /\ kind[t] = "commit" /\ n \in Nat /\ DOMAIN undo[t] = 1..n
      /\ DOMAIN undo'[t] = 1..(n + 1)
      /\ \A i \in DOMAIN undo[t] : undo'[t][i] = undo[t][i]
      /\ undo'[t][n + 1] = [key |-> op.key, previous |-> mem[op.key]]
  BY ShapeOfCapture
<1> HIDE DEF op, n
<1>5. Running("commit") = {t} /\ Running("commit")' = {t}
  <2>1. Running("commit") = {t}
    BY <1>1, <1>4, OneBatch DEF Exclusive
  <2> QED BY <1>1, <1>3, <1>4, <2>1 DEF Running, Elsewhere
<1>6. Captured(t)' = Captured(t) \union {op.key}
  <2>1. DOMAIN undo'[t] = DOMAIN undo[t] \union {n + 1}
    BY <1>4
  <2>2. undo'[t][n + 1].key = op.key
    BY <1>4
  <2> QED BY <1>4, <2>1, <2>2 DEF Captured
<1>7. ASSUME Revertible(t) PROVE Revertible(t)'
  <2>1. ASSUME NEW i \in DOMAIN undo'[t],
               \A j \in 1..(i - 1) : undo'[t][j].key # undo'[t][i].key
        PROVE  undo'[t][i].previous = acked[undo'[t][i].key]
    <3>1. CASE i \in DOMAIN undo[t]
      <4>1. \A j \in 1..(i - 1) : j \in DOMAIN undo[t]
        BY <1>4, <3>1
      <4> QED BY <1>4, <1>7, <2>1, <3>1, <4>1 DEF Revertible
    <3>2. CASE i = n + 1
      <4>1. \A j \in DOMAIN undo[t] : undo[t][j].key # op.key
        <5>1. \A j \in DOMAIN undo[t] : j \in 1..(i - 1)
          BY <1>4, <3>2
        <5>2. undo'[t][i].key = op.key
          BY <1>4, <3>2
        <5>3. ASSUME NEW j \in DOMAIN undo[t] PROVE undo[t][j].key # op.key
          <6>1. undo'[t][j].key # op.key
            BY <2>1, <5>1, <5>2
          <6> QED BY <1>4, <6>1
        <5> QED BY <5>3
      <4>2. op.key \notin Captured(t)
        BY <4>1 DEF Captured
      <4> QED BY <1>2, <1>4, <1>7, <3>2, <4>2 DEF Revertible
    <3> QED BY <1>4, <3>1, <3>2
  <2>2. ASSUME NEW u \in Threads, kind'[u] = "write", pc'[u] = "store"
        PROVE  Next1(u)'.key \notin Captured(t)'
    <3>1. kind[u] = "write" /\ pc[u] = "store" /\ Next1(u)' = Next1(u)
      BY <1>1, <1>3, <2>2 DEF Elsewhere, Next1
    <3>2. lock[Col(op.key)] = NoThread
      BY DEF Capture, SharedLock, Free, op
    <3>3. Next1(u).key # op.key
      BY <1>2, <3>1, <3>2, ThreadsAssumption DEF Shape, LockInv
    <3> QED BY <1>6, <1>7, <3>1, <3>3 DEF Revertible
  <2>3. \A k \in Keys \ Captured(t)' : mem'[k] = acked'[k]
    BY <1>3, <1>6, <1>7 DEF Revertible
  <2> QED BY <1>3, <2>1, <2>2, <2>3 DEF Revertible
<1> QED BY <1>3, <1>5, <1>7 DEF UndoInv

LEMMA UndoOfCommit ==
    ASSUME Shape, UndoInv, NEW t \in Threads, Commit(t)
    PROVE  UndoInv' /\ kind[t] = "commit" /\ Running("commit")' = {} /\ Running("commit") = {t}
<1>1. TypeOK /\ Elsewhere(t) /\ pc[t] = "capture" /\ EndBatch(t)
  BY OthersStay DEF Shape, Commit, Continue
<1>2. kind[t] = "commit" /\ pc'[t] = "idle" /\ kind' = kind
  BY <1>1, ShapeOfEndBatch
<1>3. Running("commit") = {t}
  BY <1>1, <1>2, OneBatch DEF Exclusive
<1>4. Running("commit")' = {}
  BY <1>1, <1>2, <1>3 DEF Running, Elsewhere
<1>5. acked' = mem /\ mem' = mem /\ "overlap" \notin races'
  BY DEF Commit
<1> QED BY <1>2, <1>3, <1>4, <1>5 DEF UndoInv

LEMMA UndoOfUndoOne ==
    ASSUME Shape, UndoInv, NEW t \in Threads, UndoOne(t)
    PROVE  UndoInv'
<1> DEFINE U == [key : Keys, previous : Contents]
           u == undo[t]
           n == Len(u)
           e == u[n]
           r == Rest(t)
<1>1. TypeOK /\ Elsewhere(t) /\ pc[t] = "undo" /\ kind[t] = "commit" /\ u # <<>>
  BY OthersStay DEF Shape, PcInv, PcOf, LabelsOf, TypeOK, Kinds, UndoOne, Continue
<1>2. /\ PickUndo(t) = n /\ n \in DOMAIN u /\ e \in U
      /\ DOMAIN r = 1..(n - 1) /\ DOMAIN u = 1..n /\ n \in Nat \ {0}
      /\ \A j \in DOMAIN r : r[j] = u[j]
      /\ r = <<>> <=> n = 1
  BY <1>1, UndoRest
<1>3. mem' = [mem EXCEPT ![e.key] = e.previous] /\ acked' = acked
  BY <1>2 DEF UndoOne
<1>4. e.key \in Keys /\ mem \in Stores /\ acked \in Stores
  BY <1>1, <1>2 DEF TypeOK
<1>5. Running("commit") = {t}
  BY <1>1, OneBatch DEF Exclusive
<1> HIDE DEF U, u, n, e, r
\* The latest capture of a key that has no other is the acknowledged one.
<1>6. ASSUME Revertible(t), \A j \in DOMAIN r : r[j].key # e.key
      PROVE  mem'[e.key] = acked[e.key]
  <2>1. \A j \in 1..(n - 1) : u[j].key # e.key
    BY <1>2, <1>6
  <2>2. e.previous = acked[e.key]
    BY <1>2, <1>6, <2>1 DEF Revertible, u, e
  <2> QED BY <1>3, <1>4, <2>2 DEF Stores
<1>7. ASSUME Revertible(t), NEW k \in Keys, \A j \in DOMAIN r : r[j].key # k
      PROVE  mem'[k] = acked[k]
  <2>1. CASE k = e.key
    BY <1>6, <1>7, <2>1
  <2>2. CASE k # e.key
    <3>1. k \notin Captured(t)
      <4>1. ASSUME NEW j \in DOMAIN u PROVE u[j].key # k
        <5>1. CASE j = n
          BY <2>2, <5>1 DEF e
        <5>2. CASE j \in DOMAIN r
          BY <1>2, <1>7, <5>2
        <5> QED BY <1>2, <5>1, <5>2
      <4> QED BY <4>1 DEF Captured, u
    <3>2. mem[k] = acked[k]
      BY <1>7, <3>1 DEF Revertible
    <3> QED BY <1>3, <1>4, <2>2, <3>2 DEF Stores
  <2> QED BY <2>1, <2>2
<1>8. CASE r = <<>>
  <2>1. EndBatch(t) /\ races' = {IF x = "overlap" THEN "clobbered" ELSE x : x \in races}
    BY <1>8 DEF UndoOne, Rest, r
  <2>2. pc'[t] = "idle" /\ kind' = kind
    BY <1>1, <2>1, ShapeOfEndBatch
  <2>3. Running("commit")' = {}
    BY <1>1, <1>5, <2>2 DEF Running, Elsewhere
  <2>4. "overlap" \notin races'
    BY <2>1
  <2>5. "clobbered" \notin races' => races \intersect {"overlap", "clobbered"} = {}
    BY <2>1
  <2>6. ASSUME Revertible(t) PROVE mem' = acked'
    <3>1. DOMAIN r = {}
      BY <1>2, <1>8
    <3>2. \A k \in Keys : mem'[k] = acked[k]
      BY <1>7, <2>6, <3>1
    <3> QED BY <1>3, <1>4, <3>2 DEF Stores
  <2> QED BY <1>5, <2>3, <2>4, <2>5, <2>6 DEF UndoInv
<1>9. CASE r # <<>>
  <2>1. /\ undo' = [undo EXCEPT ![t] = r]
        /\ UNCHANGED <<locks, pc, kind, todo, calls, copy, races>>
    BY <1>9 DEF UndoOne, Rest, r
  <2>2. undo'[t] = r
    BY <1>1, <2>1 DEF TypeOK
  <2>3. Running("commit")' = {t}
    BY <1>5, <2>1 DEF Running
  <2>4. Captured(t)' = {r[j].key : j \in DOMAIN r} /\ Captured(t)' \subseteq Captured(t)
    <3>1. Captured(t)' = {r[j].key : j \in DOMAIN r}
      BY <2>2 DEF Captured
    <3>2. ASSUME NEW j \in DOMAIN r PROVE r[j].key \in Captured(t)
      <4>1. j \in DOMAIN u /\ r[j] = u[j]
        BY <1>2
      <4> QED BY <4>1 DEF Captured, u
    <3> QED BY <3>1, <3>2
  <2>5. ASSUME Revertible(t) PROVE Revertible(t)'
    <3>1. \A k \in Keys \ Captured(t)' : mem'[k] = acked'[k]
      BY <1>3, <1>7, <2>4, <2>5
    <3>2. ASSUME NEW i \in DOMAIN r, \A j \in 1..(i - 1) : r[j].key # r[i].key
          PROVE  r[i].previous = acked[r[i].key]
      <4>1. i \in DOMAIN u /\ \A j \in 1..(i - 1) : j \in DOMAIN r
        BY <1>2
      <4>2. r[i] = u[i] /\ \A j \in 1..(i - 1) : u[j].key # u[i].key
        BY <1>2, <3>2, <4>1
      <4> QED BY <2>5, <4>1, <4>2 DEF Revertible, u
    <3>3. \A w \in Threads : kind'[w] = "write" /\ pc'[w] = "store" =>
              Next1(w)'.key \notin Captured(t)'
      BY <2>1, <2>4, <2>5 DEF Revertible, Next1
    <3> QED BY <1>3, <2>2, <3>1, <3>2, <3>3 DEF Revertible
  <2> QED BY <1>5, <2>1, <2>3, <2>5 DEF UndoInv
<1> QED BY <1>8, <1>9

LEMMA UndoStep ==
    ASSUME Shape, UndoInv, [Next]_vars
    PROVE  UndoInv'
<1>1. CASE UNCHANGED vars
  <2> USE <1>1 DEF vars, threads
  <2>1. Running("commit")' = Running("commit")
    BY DEF Running
  <2> QED BY <2>1, UndoKept
<1>2. ASSUME NEW t \in Threads, NewCall(t) PROVE UndoInv'
  BY <1>2, UndoOfNewCall
<1>3. ASSUME NEW t \in Threads, Continue(t) PROVE UndoInv'
  BY <1>3, UndoOfQuietStep, UndoOfAppendEntry, UndoOfStore, UndoOfCapture, UndoOfCommit,
     UndoOfUndoOne, UndoOfReopenLog DEF Continue
<1> QED BY <1>1, <1>2, <1>3 DEF Next, Done

LEMMA UndoInit == Init => UndoInv
BY DEF Init, UndoInv, Running

-----------------------------------------------------------------------------
(* What the log leads to. *)

\* One more operation goes to the log, on a key that no other is bound for.
LEMMA AgreesAppend ==
    ASSUME NEW f, DOMAIN f = Keys, NEW store, NEW ops, Agrees(f, store, ops),
           NEW op \in Op, \A o \in ops : o.key # op.key
    PROVE  Agrees([f EXCEPT ![op.key] = op.val], store, ops \union {op})
BY DEF Agrees, Op

\* One of the operations arrives, the only one on its key.
LEMMA AgreesStore ==
    ASSUME NEW f, NEW store \in Stores, NEW ops, Agrees(f, store, ops),
           NEW op \in ops, op \in Op, \A o \in ops : o.key = op.key => o = op
    PROVE  Agrees(f, [store EXCEPT ![op.key] = op.val], ops \ {op})
BY DEF Agrees, Op, Stores

\* A put that is applied is the last on its key, and leaves the other keys.
LEMMA InLogAppend ==
    ASSUME NEW log \in Logs, NEW k \in Keys, NEW c \in Contents, Clean(log), NEW x \in Keys,
           x = k \/ InLog(log, x)
    PROVE  InLog(Append(log, Put(k, c)), x)
<1> DEFINE e == Put(k, c)
           w == Append(log, e)
           n == Len(log)
<1>1. e \in Entry /\ e.key = k /\ IsPut(e) /\ e.op \notin {"torn", "txn_commit", "txn_begin"}
  BY EntryFacts DEF IsPut
<1> HIDE DEF e
<1>2. n \in Nat /\ w[n + 1] = e /\ \A m \in 1..n : w[m] = log[m]
  BY <1>1, AppendFacts
<1>3. ~InTxn(w, n + 1)
  BY <1>1, <1>2 DEF InTxn, Clean
<1>4. Applied(w) = Applied(log) \union {n + 1}
  BY <1>1, <1>3, AppliedPrefix DEF Clean
<1>5. Applied(log) \subseteq 1..n
  BY AppliedSets
<1>6. CASE x = k
  <2>1. \A j \in Applied(w) : j <= n + 1
    BY <1>2, <1>4, <1>5
  <2> QED BY <1>1, <1>2, <1>4, <1>6, <2>1 DEF InLog, e
<1>7. CASE x # k
  <2>1. PICK i \in Applied(log) : log[i].key = x /\ \A j \in Applied(log) : log[j].key = x => j <= i
    BY <1>7 DEF InLog
  <2>2. w[i].key = x /\ \A j \in Applied(w) : w[j].key = x => j <= i
    BY <1>1, <1>2, <1>4, <1>5, <1>7, <2>1
  <2> QED BY <1>4, <2>2 DEF InLog, e
<1> QED BY <1>6, <1>7

\* What the log decides does not depend on the base, and what it does not
\* decide is in the base.
LEMMA Rebase ==
    ASSUME NEW log, NEW b1, NEW b2, NEW k \in Keys
    PROVE  /\ InLog(log, k) => Recover(b1, log)[k] = Recover(b2, log)[k]
           /\ ~InLog(log, k) => Recover(b1, log)[k] = b1[k]
<1>1. /\ Recover(b1, log)[k] = LastOn(b1, log, Applied(log), k)
      /\ Recover(b2, log)[k] = LastOn(b2, log, Applied(log), k)
  BY RecoverUnfolds
<1> QED BY <1>1 DEF InLog, LastOn

LEMMA WindowStaysOpen ==
    ASSUME NEW log \in Logs, NEW e \in Entry, InTxn(log, Len(log)), e.op # "txn_commit"
    PROVE  InTxn(Append(log, e), Len(Append(log, e)))
BY AppendFacts DEF InTxn

LEMMA WindowOpens ==
    ASSUME NEW log \in Logs
    PROVE  InTxn(Append(log, TxnBegin), Len(Append(log, TxnBegin)))
<1>1. /\ Len(log) \in Nat /\ Len(Append(log, TxnBegin)) = Len(log) + 1
      /\ Append(log, TxnBegin)[Len(log) + 1].op = "txn_begin"
  BY AppendFacts, EntryFacts
<1> QED BY <1>1 DEF InTxn

\* The lock keeps two operations on one key apart.
LEMMA ArrivingApart ==
    ASSUME Shape, NEW t \in Threads, pc[t] \in {"append", "store"},
           pc[t] = "append" => Free(Col(Next1(t).key)),
           NEW u \in Threads, pc[u] = "store", u # t
    PROVE  Next1(u).key # Next1(t).key
<1>1. Col(Next1(t).key) \in Collections
  BY NextOp DEF Shape, PcInv, PcOf
<1>2. SUFFICES ASSUME Next1(u).key = Next1(t).key PROVE FALSE
  OBVIOUS
<1>3. lock[Col(Next1(t).key)] = u
  BY <1>1, <1>2 DEF Shape, LockInv
<1>4. lock[Col(Next1(t).key)] \in {t, NoThread}
  BY <1>1 DEF Shape, LockInv, Free
<1> QED BY <1>3, <1>4, ThreadsAssumption

LEMMA ArrivingOps ==
    ASSUME Shape
    PROVE  Arriving \subseteq Op /\ ArrivingWrites \subseteq Arriving
BY NextOp DEF Shape, PcInv, PcOf, Arriving, ArrivingWrites

\* While no batch runs, only writers are between the log and memory.
LEMMA OnlyWritesArrive ==
    ASSUME Shape
    PROVE  ArrivingWrites = {Next1(t) : t \in {u \in Threads : pc[u] = "store" /\ u \notin Running("commit")}}
<1>1. \A u \in Threads : pc[u] = "store" => (kind[u] = "write" <=> u \notin Running("commit"))
  BY DEF Shape, PcInv, PcOf, LabelsOf, TypeOK, Kinds, Running
<1> QED BY <1>1 DEF ArrivingWrites

\* While a batch runs, no checkpoint does.
LEMMA NoCheckpoint ==
    ASSUME Shape, mutex = NoThread \/ Running("commit") # {}
    PROVE  Copied = {} /\ \A u \in Threads : pc[u] \notin {"copy", "publish", "reset", "reopen"}
<1>1. ASSUME NEW u \in Threads, pc[u] \in {"copy", "publish", "reset", "reopen"} PROVE FALSE
  <2>1. pc[u] # "idle" /\ kind[u] \in Exclusive /\ mutex = u /\ kind[u] # "commit"
    BY <1>1, ExclusiveLabels DEF Shape, PcInv, PcOf, LabelsOf, TypeOK, Kinds
  <2>2. Running("commit") = {}
    BY <2>1, OneBatch
  <2> QED BY <2>1, <2>2, ThreadsAssumption
<1> QED BY <1>1 DEF Shape, PcInv, PcOf, Copying

\* A step that changes none of what DiskInv speaks of.
LEMMA DiskKept ==
    ASSUME Shape, DiskInv, UNCHANGED <<wal, base, mem, acked, copy, races>>,
           Arriving' = Arriving, ArrivingWrites' = ArrivingWrites,
           \A u \in Running("commit")' : u \in Running("commit") /\ (pc'[u] = "undo" \/ pc[u] # "undo"),
           \A u \in Threads : pc'[u] \in {"reset", "reopen"} => pc[u] \in {"reset", "reopen"}
    PROVE  DiskInv'
<1>1. Intact(wal)' /\ (Running("commit")' # {} => InTxn(wal, Len(wal))')
  BY DEF DiskInv
<1>2. \A u \in Threads : pc'[u] \in {"reset", "reopen"} => base' = [k \in Keys |-> copy'[Col(k)][k]]
  BY DEF DiskInv
<1>3. RecInv'
  BY DEF DiskInv, RecInv, Recoverable, Recovered
<1>4. WindowInv'
  BY DEF DiskInv, WindowInv
<1>5. CopyInv'
  BY CopyStays DEF DiskInv, CopyInv, Settled, Recoverable, Col
<1> QED BY <1>1, <1>2, <1>3, <1>4, <1>5 DEF DiskInv, Col

\* A step after which the same operations are on their way.
LEMMA ArrivingStays ==
    ASSUME NEW t \in Threads, Elsewhere(t), pc[t] # "store", pc'[t] # "store"
    PROVE  Arriving' = Arriving /\ ArrivingWrites' = ArrivingWrites
<1>1. ASSUME NEW u \in Threads, pc[u] = "store" \/ pc'[u] = "store"
      PROVE  pc'[u] = pc[u] /\ kind'[u] = kind[u] /\ Next1(u)' = Next1(u)
  BY <1>1 DEF Elsewhere, Next1
<1> QED BY <1>1 DEF Arriving, ArrivingWrites

LEMMA DiskOfNewCall ==
    ASSUME Shape, UndoInv, DiskInv, NEW t \in Threads, NewCall(t)
    PROVE  DiskInv'
<1>1. TypeOK /\ Elsewhere(t)
  BY OthersStay DEF Shape
<1>2. ASSUME pc[t] = "idle", UNCHANGED <<wal, base, mem, acked, copy, races>>,
             \/ pc'[t] = "idle"
             \/ pc'[t] \in {"append", "copy"} /\ kind'[t] # "commit"
      PROVE  DiskInv'
  <2>1. Arriving' = Arriving /\ ArrivingWrites' = ArrivingWrites
    BY <1>1, <1>2, ArrivingStays
  <2>2. \A u \in Running("commit")' : u \in Running("commit") /\ (pc'[u] = "undo" \/ pc[u] # "undo")
    BY <1>1, <1>2 DEF Running, Elsewhere
  <2> QED BY <1>1, <1>2, <2>1, <2>2, DiskKept DEF Elsewhere
<1>3. ASSUME NEW op \in Op, Call(t, op) PROVE DiskInv'
  BY <1>1, <1>2, <1>3 DEF Call, Enter, Goto, TypeOK, disk
<1>4. ASSUME NEW k \in Kinds, Bounce(t, k) PROVE DiskInv'
  BY <1>1, <1>2, <1>4 DEF Bounce, Enter, Goto, TypeOK, disk
<1>5. ASSUME StartCheckpoint(t) PROVE DiskInv'
  BY <1>1, <1>2, <1>5 DEF StartCheckpoint, Enter, Goto, TypeOK, disk
<1>6. ASSUME NEW batch \in Batches, Begin(t, batch) PROVE DiskInv'
  <2>1. /\ mutex = NoThread /\ pc[t] = "idle" /\ UNCHANGED <<base, mem, acked, copy>>
        /\ pc'[t] = "capture" /\ kind'[t] = "commit" /\ wal' = Append(wal, TxnBegin)
        /\ races' = {IF x = "in_window" THEN "buried" ELSE x : x \in races}
    BY <1>1, <1>6 DEF Begin, TakeMutex, Enter, Goto, TypeOK
  <2>2. wal \in Logs /\ TxnBegin \in Entry /\ TxnBegin.op = "txn_begin" /\ Intact(wal)
    BY <1>1, EntryFacts DEF TypeOK, Logs, DiskInv
  <2>3. Running("commit") = {}
    BY <2>1, ThreadsAssumption DEF Shape, MutexInv, Running, Exclusive
  <2>4. Copied' = {} /\ \A u \in Threads : pc'[u] \notin {"reset", "reopen"}
    BY <1>1, <2>1, NoCheckpoint, CopyStays DEF Elsewhere
  <2>5. Arriving' = Arriving /\ ArrivingWrites' = ArrivingWrites
    BY <1>1, <2>1, ArrivingStays
  <2>6. Arriving = ArrivingWrites
    BY <2>3, OnlyWritesArrive DEF Arriving
  <2>7. Intact(wal') /\ InTxn(wal', Len(wal'))
    BY <2>1, <2>2, ReadableAppend, WindowOpens
  <2>8. Recover(base, wal') = Recovered /\ RecoverIfCommitted(base, wal') = Recovered
    BY <2>1, <2>2, RecoverBegin, IfCommittedAfterBegin DEF Recovered
  <2>9. ASSUME (races' \intersect Unrecoverable) \subseteq {"in_window"}
        PROVE  Agrees(Recovered, acked, ArrivingWrites) /\ mem = acked
    <3>1. "in_window" \notin races
      <4>1. SUFFICES ASSUME "in_window" \in races PROVE FALSE
        OBVIOUS
      <4>2. "buried" \in races'
        BY <2>1, <4>1
      <4> QED BY <2>9, <4>2 DEF Unrecoverable
    <3>2. races' = races
      BY <2>1, <3>1
    <3>3. Recoverable /\ "clobbered" \notin races
      BY <2>9, <3>1, <3>2 DEF Recoverable, Unrecoverable
    <3> QED BY <2>3, <3>3 DEF DiskInv, RecInv, UndoInv
  <2>10. RecInv' /\ WindowInv'
    BY <2>1, <2>5, <2>6, <2>8, <2>9 DEF RecInv, WindowInv, Recoverable, Recovered
  <2> QED BY <2>4, <2>7, <2>10 DEF DiskInv, CopyInv
<1> QED BY <1>3, <1>4, <1>5, <1>6 DEF NewCall, BeginFails, CloseAgain, Kinds

LEMMA DiskOfQuietStep ==
    ASSUME Shape, DiskInv, NEW t \in Threads,
           \/ AppendFails(t) \/ Refused(t) \/ NothingToRemove(t) \/ Capture(t)
           \/ CloseLog(t) \/ Detach(t) \/ Seal(t)
    PROVE  DiskInv'
<1>1. TypeOK /\ Elsewhere(t)
  BY OthersStay DEF Shape, Continue
<1>2. /\ pc[t] # "idle" /\ UNCHANGED <<wal, base, mem, acked, copy, races, kind>>
      /\ pc[t] # "store" /\ pc'[t] # "store" /\ pc[t] # "undo"
      /\ pc'[t] \in {"reset", "reopen"} => pc[t] \in {"reset", "reopen"}
  BY <1>1 DEF AppendFails, Throw, Refused, NothingToRemove, AfterOp, CanEnter, Capture,
       CloseLog, Detach, Seal, Goto, TypeOK, disk
<1>3. Arriving' = Arriving /\ ArrivingWrites' = ArrivingWrites
  BY <1>1, <1>2, ArrivingStays
<1>4. \A u \in Running("commit")' : u \in Running("commit") /\ (pc'[u] = "undo" \/ pc[u] # "undo")
  BY <1>1, <1>2 DEF Running, Elsewhere
<1> QED BY <1>1, <1>2, <1>3, <1>4, DiskKept DEF Elsewhere

LEMMA DiskOfCommit ==
    ASSUME Shape, UndoInv, DiskInv, NEW t \in Threads, Commit(t)
    PROVE  DiskInv'
<1>1. TypeOK /\ Elsewhere(t) /\ pc[t] = "capture" /\ EndBatch(t)
  BY OthersStay DEF Shape, Commit, Continue
<1>2. /\ Running("commit") = {t} /\ Running("commit")' = {} /\ pc'[t] = "idle"
      /\ UNCHANGED <<base, mem, copy>> /\ wal' = Append(wal, TxnCommit) /\ acked' = mem
      /\ races' = races \ {"in_window", "overlap"}
  BY <1>1, UndoOfCommit, ShapeOfEndBatch DEF Commit, EndBatch
<1>3. wal \in Logs /\ TxnCommit \in Entry /\ TxnCommit.op = "txn_commit" /\ Intact(wal)
  BY <1>1, EntryFacts DEF TypeOK, Logs, DiskInv
<1>4. Intact(wal')
  BY <1>2, <1>3, ReadableAppend
<1>5. Recovered' = RecoverIfCommitted(base, wal)
  BY <1>2, <1>3, RecoverCommit DEF Recovered
<1>6. ArrivingWrites' = ArrivingWrites /\ ArrivingWrites = Arriving
  <2>1. ArrivingWrites' = ArrivingWrites
    BY <1>1, <1>2, ArrivingStays
  <2>2. ArrivingWrites = Arriving
    BY <1>1, <1>2, OnlyWritesArrive DEF Arriving
  <2> QED BY <2>1, <2>2
<1>7. RecInv'
  <2>1. Recoverable' => (races \intersect Unrecoverable) \subseteq {"in_window"}
    BY <1>2 DEF Recoverable, Unrecoverable
  <2>2. Recoverable' => Agrees(RecoverIfCommitted(base, wal), mem, Arriving)
    BY <1>1, <1>2, <2>1 DEF DiskInv, WindowInv
  <2> QED BY <1>2, <1>5, <1>6, <2>2 DEF RecInv
<1>8. Copied' = {} /\ \A u \in Threads : pc'[u] \notin {"reset", "reopen"}
  BY <1>1, <1>2, NoCheckpoint, CopyStays DEF Elsewhere
<1> QED BY <1>2, <1>4, <1>7, <1>8 DEF DiskInv, CopyInv, WindowInv

LEMMA DiskOfUndoOne ==
    ASSUME Shape, DiskInv, NEW t \in Threads, UndoOne(t)
    PROVE  DiskInv'
<1>1. TypeOK /\ Elsewhere(t) /\ pc[t] = "undo" /\ kind[t] = "commit" /\ UNCHANGED <<wal, base, acked>>
  BY OthersStay DEF Shape, PcInv, PcOf, LabelsOf, TypeOK, Kinds, UndoOne, Continue, disk
<1>2. Running("commit") = {t}
  BY <1>1, OneBatch DEF Exclusive
<1>3. /\ pc'[t] \in {"idle", "undo"} /\ kind' = kind /\ copy' = copy
      /\ \A x \in races \intersect Unrecoverable : x \in races'
  BY <1>1 DEF UndoOne, EndBatch, Goto, TypeOK, Unrecoverable
<1>4. Running("commit")' \subseteq {t}
  BY <1>1, <1>2, <1>3 DEF Running, Elsewhere
<1>5. Arriving' = Arriving /\ ArrivingWrites' = ArrivingWrites
  BY <1>1, <1>3, ArrivingStays
<1>6. RecInv'
  BY <1>1, <1>3, <1>5 DEF DiskInv, RecInv, Recoverable, Recovered
<1>7. WindowInv'
  BY <1>3, <1>4 DEF WindowInv, Running
<1>8. Copied' = {} /\ \A u \in Threads : pc'[u] \notin {"reset", "reopen"}
  BY <1>1, <1>2, <1>3, NoCheckpoint, CopyStays DEF Elsewhere
<1> QED BY <1>1, <1>2, <1>6, <1>7, <1>8 DEF DiskInv, CopyInv

LEMMA DiskOfAppendEntry ==
    ASSUME Shape, DiskInv, NEW t \in Threads, AppendEntry(t)
    PROVE  DiskInv'
<1> DEFINE op == Next1(t)
           c0 == Col(op.key)
           e == Put(op.key, op.val)
<1>1. TypeOK /\ Elsewhere(t) /\ pc[t] = "append" /\ todo[t] # <<>> /\ Free(c0)
  BY OthersStay DEF Shape, PcInv, PcOf, Continue, AppendEntry, CanEnter
<1>2. op \in Op /\ op.key \in Keys /\ op.val \in Contents /\ c0 \in Collections
  BY <1>1, NextOp
<1>3. /\ pc'[t] = "store" /\ UNCHANGED <<kind, todo, undo, mem, acked, base, copy>>
      /\ wal' = IF c0 \in attached THEN Append(wal, e) ELSE wal
      /\ races' = races \union RacesOfAppend(t)
      /\ kind[t] \in {"write", "commit"}
  BY <1>1 DEF AppendEntry, Goto, Shape, PcInv, PcOf, LabelsOf, TypeOK, Kinds
<1>4. wal \in Logs /\ Intact(wal) /\ e \in Entry /\ IsPut(e) /\ e.op \notin {"torn", "txn_commit"}
  BY <1>1, <1>2, EntryFacts DEF TypeOK, Logs, DiskInv, IsPut
<1>5. /\ Arriving' = Arriving \union {op}
      /\ ArrivingWrites' = IF kind[t] = "write" THEN ArrivingWrites \union {op} ELSE ArrivingWrites
  <2>1. ASSUME NEW u \in Threads, u # t
        PROVE  pc'[u] = pc[u] /\ kind'[u] = kind[u] /\ Next1(u)' = Next1(u)
    BY <1>1, <2>1 DEF Elsewhere, Next1
  <2>2. pc'[t] = "store" /\ kind'[t] = kind[t] /\ Next1(t)' = op
    BY <1>3 DEF Next1
  <2>3. Arriving' = {Next1(u)' : u \in {u \in Threads : pc[u] = "store"} \union {t}}
    BY <2>1, <2>2 DEF Arriving
  <2>4. ArrivingWrites' = {Next1(u)' : u \in {u \in Threads : pc'[u] = "store" /\ kind'[u] = "write"}}
    BY DEF ArrivingWrites
  <2> QED BY <1>1, <2>1, <2>2, <2>3, <2>4 DEF Arriving, ArrivingWrites
<1>6. \A o \in Arriving : o.key # op.key
  BY <1>1, ArrivingApart DEF Arriving
<1>7. ArrivingWrites \subseteq Arriving
  BY ArrivingOps
<1>8. Running("commit")' = Running("commit") /\ (kind[t] = "commit" => Running("commit") = {t})
  BY <1>1, <1>3, OneBatch DEF Running, Elsewhere, Exclusive
<1>9. /\ c0 \notin attached => "detached" \in races'
      /\ kind[t] = "write" /\ c0 \in Copied => "late" \in races'
      /\ kind[t] = "write" /\ c0 \in attached /\ InTxn(wal, Len(wal)) => "in_window" \in races'
      /\ races \subseteq races'
  BY <1>3 DEF RacesOfAppend
<1>10. Intact(wal') /\ (Running("commit")' # {} => InTxn(wal', Len(wal')))
  BY <1>3, <1>4, <1>8, ReadableAppend, WindowStaysOpen DEF DiskInv
<1> HIDE DEF op, c0, e
<1>11. RecInv'
  <2>1. SUFFICES ASSUME Recoverable' PROVE Agrees(Recover(base, wal'), acked, ArrivingWrites')
    BY <1>3 DEF RecInv, Recovered
  <2>2. Recoverable /\ c0 \in attached /\ wal' = Append(wal, e)
    BY <1>3, <1>9, <2>1 DEF Recoverable, Unrecoverable
  <2>3. Agrees(Recovered, acked, ArrivingWrites)
    BY <2>2 DEF DiskInv, RecInv
  <2>4. CASE kind[t] = "commit"
    <3>1. InTxn(wal, Len(wal))
      BY <1>8, <2>4 DEF DiskInv
    <3>2. Recover(base, wal') = Recovered
      BY <1>4, <2>2, <3>1, RecoverPutInTxn DEF Recovered
    <3> QED BY <1>5, <2>3, <2>4, <3>2
  <2>5. CASE kind[t] = "write"
    <3>1. Clean(wal)
      BY <1>4, <1>9, <2>1, <2>2, <2>5 DEF Clean, Recoverable, Unrecoverable
    <3>2. Recover(base, wal') = [Recovered EXCEPT ![op.key] = op.val]
      BY <1>2, <1>4, <2>2, <3>1, RecoverPutClean DEF Recovered, e
    <3>3. DOMAIN Recovered = Keys
      BY RecoverUnfolds DEF Recovered
    <3>4. \A o \in ArrivingWrites : o.key # op.key
      BY <1>6, <1>7
    <3>5. Agrees([Recovered EXCEPT ![op.key] = op.val], acked, ArrivingWrites \union {op})
      BY ONLY <1>2, <2>3, <3>3, <3>4, AgreesAppend
    <3> QED BY <1>5, <2>5, <3>2, <3>5
  <2> QED BY <1>3, <2>4, <2>5
<1>12. WindowInv'
  <2>1. SUFFICES ASSUME (races' \intersect Unrecoverable) \subseteq {"in_window"},
                        NEW u \in Running("commit"), pc'[u] # "undo"
                 PROVE  Agrees(RecoverIfCommitted(base, wal'), mem, Arriving')
    BY <1>3, <1>8 DEF WindowInv
  <2>2. c0 \in attached /\ wal' = Append(wal, e)
    BY <1>3, <1>9, <2>1 DEF Unrecoverable
  <2>3. pc[u] # "undo"
    BY <1>1, <2>1 DEF Elsewhere, Running
  <2>4. Agrees(RecoverIfCommitted(base, wal), mem, Arriving)
    BY <1>9, <2>1, <2>3 DEF DiskInv, WindowInv
  <2>5. RecoverIfCommitted(base, wal') = [RecoverIfCommitted(base, wal) EXCEPT ![op.key] = op.val]
    BY <1>2, <1>4, <2>2, IfCommittedAfterPut DEF e
  <2>6. DOMAIN RecoverIfCommitted(base, wal) = Keys
    BY DEF RecoverIfCommitted
  <2>7. Agrees([RecoverIfCommitted(base, wal) EXCEPT ![op.key] = op.val], mem, Arriving \union {op})
    BY ONLY <1>2, <1>6, <2>4, <2>6, AgreesAppend
  <2> QED BY <1>5, <2>5, <2>7
<1>13. CopyInv'
  <2>1. Copied' = Copied
    BY <1>3, CopyStays
  <2>2. SUFFICES ASSUME NEW c \in Copied, NEW k \in Keys, Col(k) = c
                 PROVE  /\ "late" \notin races' => Settled(c, k)'
                        /\ Recoverable' => InLog(wal', k) \/ Settled(c, k)'
    BY <2>1 DEF CopyInv, Col
  <2>3. kind[t] = "write"
    BY <1>3, <1>8, <2>2, NoCheckpoint
  <2>4. k # op.key => (Settled(c, k) => Settled(c, k)')
    BY <1>3, <1>5 DEF Settled
  <2>5. "late" \notin races' => k # op.key
    BY <1>9, <2>2, <2>3 DEF c0
  <2>6. ASSUME Recoverable' PROVE Recoverable /\ Clean(wal) /\ wal' = Append(wal, e)
    BY <1>3, <1>4, <1>9, <2>3, <2>6 DEF Recoverable, Unrecoverable, Clean
  <2>7. ASSUME Recoverable', k = op.key \/ InLog(wal, k) PROVE InLog(wal', k)
    <3> DEFINE v == op.val
               x == op.key
    <3>1. /\ wal \in Logs /\ x \in Keys /\ v \in Contents /\ Clean(wal)
          /\ k = x \/ InLog(wal, k)
      BY <1>2, <1>4, <2>6, <2>7
    <3>2. wal' = Append(wal, Put(x, v))
      BY <2>6, <2>7 DEF e
    <3> HIDE DEF v, x
    <3>3. InLog(Append(wal, Put(x, v)), k)
      BY ONLY <3>1, <2>2, InLogAppend
    <3> QED BY <3>2, <3>3
  <2> QED BY <1>9, <2>2, <2>4, <2>5, <2>6, <2>7 DEF DiskInv, CopyInv
<1>14. \A u \in Threads : pc'[u] \in {"reset", "reopen"} =>
           base' = [k \in Keys |-> copy'[Col(k)][k]]
  BY <1>1, <1>3 DEF DiskInv, Elsewhere
<1> QED BY <1>10, <1>11, <1>12, <1>13, <1>14 DEF DiskInv, Col

LEMMA DiskOfStore ==
    ASSUME Shape, DiskInv, NEW t \in Threads, Store(t)
    PROVE  DiskInv'
<1> DEFINE op == Next1(t)
<1>1. TypeOK /\ Elsewhere(t) /\ pc[t] = "store" /\ todo[t] # <<>>
  BY OthersStay DEF Shape, PcInv, PcOf, Continue, Store
<1>2. op \in Op /\ op.key \in Keys /\ op.val \in Contents
  BY <1>1, NextOp
<1>3. /\ pc'[t] = IF kind[t] = "commit" THEN "capture" ELSE "idle"
      /\ UNCHANGED <<kind, wal, base, copy, races>>
      /\ mem' = [mem EXCEPT ![op.key] = op.val]
      /\ acked' = IF kind[t] = "commit" THEN acked ELSE [acked EXCEPT ![op.key] = op.val]
      /\ kind[t] \in {"write", "commit"} /\ mem \in Stores /\ acked \in Stores
  BY <1>1 DEF Store, AfterOp, Goto, disk, Shape, PcInv, PcOf, LabelsOf, TypeOK, Kinds
<1>4. /\ op \in Arriving /\ (kind[t] = "write" => op \in ArrivingWrites)
      /\ ArrivingWrites \subseteq Arriving
      /\ \A o \in Arriving : o.key = op.key => o = op
  BY <1>1, ArrivingApart, ArrivingOps DEF Arriving, ArrivingWrites
<1>5. /\ Arriving' = Arriving \ {op}
      /\ ArrivingWrites' = IF kind[t] = "write" THEN ArrivingWrites \ {op} ELSE ArrivingWrites
  <2>1. ASSUME NEW u \in Threads, u # t
        PROVE  /\ pc'[u] = pc[u] /\ kind'[u] = kind[u] /\ Next1(u)' = Next1(u)
               /\ pc[u] = "store" => Next1(u) # op
    BY <1>1, <2>1, ArrivingApart DEF Elsewhere, Next1
  <2>2. pc'[t] # "store"
    BY <1>3
  <2>3. Arriving' = {Next1(u) : u \in {u \in Threads : pc[u] = "store"} \ {t}}
    BY <2>1, <2>2 DEF Arriving
  <2>4. ArrivingWrites' = {Next1(u) : u \in {u \in Threads : pc[u] = "store" /\ kind[u] = "write"} \ {t}}
    BY <2>1, <2>2 DEF ArrivingWrites
  <2>5. Arriving' = Arriving \ {op}
    BY <1>1, <2>1, <2>3 DEF Arriving
  <2>6. CASE kind[t] = "write"
    BY <1>1, <2>1, <2>4, <2>5, <2>6 DEF ArrivingWrites
  <2>7. CASE kind[t] = "commit"
    BY <2>4, <2>5, <2>7 DEF ArrivingWrites
  <2> QED BY <1>3, <2>6, <2>7
<1> HIDE DEF op
<1>6. Running("commit")' = Running("commit")
  BY <1>1, <1>3 DEF Running, Elsewhere
<1>7. Intact(wal)' /\ (Running("commit")' # {} => InTxn(wal, Len(wal))')
  BY <1>3, <1>6 DEF DiskInv
<1>8. RecInv'
  <2>1. SUFFICES ASSUME Recoverable PROVE Agrees(Recovered, acked', ArrivingWrites')
    BY <1>3 DEF RecInv, Recovered, Recoverable
  <2>2. Agrees(Recovered, acked, ArrivingWrites)
    BY <2>1 DEF DiskInv, RecInv
  <2> QED BY <1>2, <1>3, <1>4, <1>5, <2>2, AgreesStore
<1>9. WindowInv'
  <2>1. SUFFICES ASSUME (races \intersect Unrecoverable) \subseteq {"in_window"},
                        NEW u \in Running("commit"), pc'[u] # "undo"
                 PROVE  Agrees(RecoverIfCommitted(base, wal), mem', Arriving')
    BY <1>3, <1>6 DEF WindowInv
  <2>2. pc[u] # "undo"
    BY <1>1, <2>1 DEF Elsewhere, Running
  <2>3. Agrees(RecoverIfCommitted(base, wal), mem, Arriving)
    BY <2>1, <2>2 DEF DiskInv, WindowInv
  <2> QED BY <1>2, <1>3, <1>4, <1>5, <2>3, AgreesStore
<1>10. CopyInv'
  <2>1. Copied' = Copied
    BY <1>3, CopyStays
  <2>2. SUFFICES ASSUME NEW c \in Copied, NEW k \in Keys, Col(k) = c
                 PROVE  /\ "late" \notin races => Settled(c, k)'
                        /\ Recoverable => InLog(wal, k) \/ Settled(c, k)'
    BY <1>3, <2>1 DEF CopyInv, Col, Recoverable
  <2>3. Settled(c, k) => k # op.key
    BY <1>4 DEF Settled
  <2>4. Settled(c, k) => Settled(c, k)'
    BY <1>2, <1>3, <1>5, <2>3 DEF Settled, Stores
  <2> QED BY <2>2, <2>4 DEF DiskInv, CopyInv
<1>11. \A u \in Threads : pc'[u] \in {"reset", "reopen"} =>
           base' = [k \in Keys |-> copy'[Col(k)][k]]
  BY <1>1, <1>3 DEF DiskInv, Elsewhere
<1> QED BY <1>7, <1>8, <1>9, <1>10, <1>11 DEF DiskInv, Col

\* A checkpoint has the mutex: it meets no batch, and no other checkpoint.
LEMMA InCheckpoint ==
    ASSUME Shape, NEW t \in Threads, pc[t] \in {"copy", "publish", "reset", "reopen"}
    PROVE  /\ Running("commit") = {} /\ kind[t] \in {"checkpoint", "close"}
           /\ \A u \in Threads : u # t => pc[u] \notin {"copy", "publish", "reset", "reopen"}
<1>1. pc[t] # "idle" /\ kind[t] \in Exclusive /\ kind[t] \in {"checkpoint", "close"} /\ mutex = t
  BY ExclusiveLabels DEF Shape, PcInv, PcOf, LabelsOf, TypeOK, Kinds
<1>2. Running("commit") = {}
  BY <1>1, OneBatch
<1>3. \A u \in Threads : u # t => pc[u] \notin {"copy", "publish", "reset", "reopen"}
  BY <1>1, ExclusiveLabels
<1> QED BY <1>1, <1>2, <1>3

LEMMA DiskOfCopyRecords ==
    ASSUME Shape, DiskInv, NEW t \in Threads, CopyRecords(t)
    PROVE  DiskInv'
<1>1. TypeOK /\ Elsewhere(t) /\ pc[t] = "copy" /\ kind' = kind
      /\ UNCHANGED <<wal, base, mem, acked, races>>
  BY OthersStay DEF Shape, Continue, CopyRecords, disk
<1>2. pc'[t] \in {"copy", "publish"}
  BY <1>1 DEF CopyRecords, Goto, TypeOK
<1>3. PICK c0 \in Collections \ Copied :
          /\ Free(c0)
          /\ copy' = [x \in Copied \union {c0} |-> IF x = c0 THEN Restrict1(mem, c0) ELSE copy[x]]
  BY DEF CopyRecords, SharedLock
<1>4. Running("commit")' = {} /\ \A u \in Threads : pc'[u] \notin {"reset", "reopen"}
  BY <1>1, <1>2, InCheckpoint DEF Running, Elsewhere
<1>5. Arriving' = Arriving /\ ArrivingWrites' = ArrivingWrites
  BY <1>1, <1>2, ArrivingStays
<1>6. RecInv' /\ WindowInv'
  BY <1>1, <1>4, <1>5 DEF DiskInv, RecInv, WindowInv, Recoverable, Recovered
<1>7. CopyInv'
  <2>1. Copied' = Copied \union {c0}
    BY <1>3 DEF Copied
  <2>2. SUFFICES ASSUME NEW c \in Copied \union {c0}, NEW k \in Keys, Col(k) = c
                 PROVE  /\ "late" \notin races => Settled(c, k)'
                        /\ Recoverable => InLog(wal, k) \/ Settled(c, k)'
    BY <1>1, <2>1 DEF CopyInv, Recoverable, Col
  <2>3. CASE c = c0
    <3>1. copy'[c][k] = mem[k]
      BY <1>3, <2>2, <2>3 DEF Restrict1
    <3>2. \A op \in Arriving : op.key # k
      <4>1. SUFFICES ASSUME NEW u \in Threads, pc[u] = "store", Next1(u).key = k PROVE FALSE
        BY DEF Arriving
      <4> QED BY <1>3, <2>2, <2>3, <4>1, ThreadsAssumption DEF Shape, LockInv, Free
    <3> QED BY <1>1, <1>5, <3>1, <3>2 DEF Settled
  <2>4. CASE c # c0
    <3>1. copy'[c] = copy[c] /\ c \in Copied
      BY <1>3, <2>2, <2>4
    <3>2. Settled(c, k)' <=> Settled(c, k)
      BY <1>1, <1>5, <3>1 DEF Settled
    <3> QED BY <2>2, <3>1, <3>2 DEF DiskInv, CopyInv
  <2> QED BY <2>3, <2>4
<1> QED BY <1>1, <1>4, <1>6, <1>7 DEF DiskInv

LEMMA DiskOfPublish ==
    ASSUME Shape, UndoInv, DiskInv, NEW t \in Threads, Publish(t)
    PROVE  DiskInv'
<1>1. /\ TypeOK /\ Elsewhere(t) /\ pc[t] = "publish"
      /\ UNCHANGED <<wal, mem, acked, races, kind>>
      /\ base' = [k \in Keys |-> copy[Col(k)][k]]
  BY OthersStay DEF Shape, Continue, Publish
<1>2. /\ pc'[t] = IF closed THEN "idle" ELSE "reset"
      /\ copy' = IF closed THEN << >> ELSE copy
  BY <1>1 DEF Publish, Goto, TypeOK
<1>3. Running("commit") = {} /\ Copied = Collections
  BY <1>1, InCheckpoint DEF Shape, PcInv, PcOf
<1>4. /\ Running("commit")' = {}
      /\ \A u \in Threads : pc'[u] \in {"reset", "reopen"} => u = t /\ ~closed
  BY <1>1, <1>2, InCheckpoint DEF Running, Elsewhere
<1>5. Arriving' = Arriving /\ ArrivingWrites' = ArrivingWrites
  BY <1>1, <1>2, ArrivingStays
<1>6. Arriving = ArrivingWrites
  BY <1>3, OnlyWritesArrive DEF Arriving
<1>7. RecInv'
  <2>1. SUFFICES ASSUME Recoverable PROVE Agrees(Recover(base', wal), acked, ArrivingWrites)
    BY <1>1, <1>5 DEF RecInv, Recovered, Recoverable
  <2>2. Agrees(Recover(base, wal), acked, ArrivingWrites)
    BY <2>1 DEF DiskInv, RecInv, Recovered
  <2>3. mem = acked
    BY <1>3, <2>1 DEF UndoInv, Recoverable, Unrecoverable
  <2>4. ASSUME NEW k \in Keys
        PROVE  /\ \A op \in ArrivingWrites : op.key = k => Recover(base', wal)[k] = op.val
               /\ (\A op \in ArrivingWrites : op.key # k) => Recover(base', wal)[k] = acked[k]
    <3>1. CASE InLog(wal, k)
      <4>1. Recover(base', wal)[k] = Recover(base, wal)[k]
        BY <3>1, Rebase
      <4> QED BY <2>2, <4>1 DEF Agrees
    <3>2. CASE ~InLog(wal, k)
      <4>1. Col(k) \in Copied
        BY <1>3, ThreadsAssumption DEF Col
      <4>2. Settled(Col(k), k)
        BY <2>1, <3>2, <4>1 DEF DiskInv, CopyInv
      <4>3. Recover(base', wal)[k] = acked[k]
        BY <1>1, <2>3, <3>2, <4>2, Rebase DEF Settled
      <4> QED BY <1>6, <4>2, <4>3 DEF Settled
    <3> QED BY <3>1, <3>2
  <2> QED BY <2>4 DEF Agrees
<1>8. CopyInv'
  <2>1. CASE closed
    <3>1. copy' = << >>
      BY <1>2, <2>1
    <3>2. Copied' = {}
      BY <3>1 DEF Copied
    <3> QED BY <3>2 DEF CopyInv
  <2>2. CASE ~closed
    BY <1>1, <1>2, <1>5, <2>2, CopyStays DEF DiskInv, CopyInv, Settled, Recoverable, Col
  <2> QED BY <2>1, <2>2
<1>9. WindowInv'
  BY <1>4 DEF WindowInv
<1> QED BY <1>1, <1>2, <1>4, <1>7, <1>8, <1>9 DEF DiskInv, Col

LEMMA DiskOfReopenLog ==
    ASSUME Shape, UndoInv, DiskInv, NEW t \in Threads, ReopenLog(t)
    PROVE  DiskInv'
<1>1. /\ TypeOK /\ Elsewhere(t) /\ pc[t] = "reopen" /\ wal' = <<>>
      /\ UNCHANGED <<base, mem, acked, kind>>
      /\ races' = {x \in {"truncated"} : "late" \in races} \union
                  (races \intersect {"clobbered", "detached"})
  BY OthersStay DEF Shape, Continue, ReopenLog
<1>2. Copied' = {} /\ pc'[t] \in {"detach", "idle"}
  BY <1>1, ShapeOfReopenLog DEF ReopenLog, Goto, TypeOK
<1>3. Running("commit") = {} /\ Copied = Collections
  BY <1>1, InCheckpoint DEF Shape, PcInv, PcOf
<1>4. Running("commit")' = {} /\ \A u \in Threads : pc'[u] \notin {"reset", "reopen"}
  BY <1>1, <1>2, InCheckpoint DEF Running, Elsewhere
<1>5. ArrivingWrites' = ArrivingWrites /\ ArrivingWrites = Arriving
  <2>1. ArrivingWrites' = ArrivingWrites
    BY <1>1, <1>2, ArrivingStays
  <2>2. ArrivingWrites = Arriving
    BY <1>3, OnlyWritesArrive DEF Arriving
  <2> QED BY <2>1, <2>2
<1>6. RecInv'
  <2>1. SUFFICES ASSUME Recoverable' PROVE Agrees(Recover(base, wal'), acked, Arriving)
    BY <1>1, <1>5 DEF RecInv, Recovered
  <2>2. "late" \notin races /\ "clobbered" \notin races
    BY <1>1, <2>1 DEF Recoverable, Unrecoverable
  <2>3. Recover(base, wal') = base
    BY <1>1, RecoverEmpty DEF TypeOK
  <2>4. mem = acked
    BY <1>3, <2>2 DEF UndoInv
  <2>5. ASSUME NEW k \in Keys PROVE base[k] = acked[k] /\ \A op \in Arriving : op.key # k
    <3>1. Col(k) \in Copied
      BY <1>3, ThreadsAssumption DEF Col
    <3>2. Settled(Col(k), k)
      BY <2>2, <3>1 DEF DiskInv, CopyInv
    <3>3. base[k] = copy[Col(k)][k]
      BY <1>1 DEF DiskInv
    <3> QED BY <2>4, <3>2, <3>3 DEF Settled
  <2> QED BY <2>3, <2>5 DEF Agrees
<1>7. Intact(wal')
  BY <1>1 DEF Intact
<1> QED BY <1>2, <1>4, <1>6, <1>7 DEF DiskInv, CopyInv, WindowInv

LEMMA DiskStep ==
    ASSUME Shape, UndoInv, DiskInv, [Next]_vars
    PROVE  DiskInv'
<1>1. CASE UNCHANGED vars
  <2> USE <1>1 DEF vars, disk, threads
  <2>1. Arriving' = Arriving /\ ArrivingWrites' = ArrivingWrites
    BY DEF Arriving, ArrivingWrites, Next1
  <2>2. Running("commit")' = Running("commit")
    BY DEF Running
  <2> QED BY <2>1, <2>2, DiskKept
<1>2. ASSUME NEW t \in Threads, NewCall(t) PROVE DiskInv'
  BY <1>2, DiskOfNewCall
<1>3. ASSUME NEW t \in Threads, Continue(t) PROVE DiskInv'
  BY <1>3, DiskOfQuietStep, DiskOfAppendEntry, DiskOfStore, DiskOfCommit, DiskOfUndoOne,
     DiskOfCopyRecords, DiskOfPublish, DiskOfReopenLog DEF Continue
<1> QED BY <1>1, <1>2, <1>3 DEF Next, Done

LEMMA DiskInit == Init => DiskInv
<1> SUFFICES ASSUME Init PROVE DiskInv
  OBVIOUS
<1> USE DEF Init
<1>1. Running("commit") = {} /\ Copied = {} /\ ArrivingWrites = {}
  BY DEF Running, Copied, ArrivingWrites
<1>2. Recovered = base
  BY RecoverEmpty DEF Recovered
<1>3. Intact(wal)
  BY DEF Intact
<1> QED BY <1>1, <1>2, <1>3 DEF DiskInv, RecInv, WindowInv, CopyInv, Agrees

-----------------------------------------------------------------------------
(* The theorems. *)

\* Locks are held where the code holds them, nobody is inside a sealed
\* collection, a running batch can take back its own writes, and the log leads
\* to what memory holds or is about to hold: in every state, for every number
\* of threads, collections, keys and calls (Database.cpp, Collection.cpp).
THEOREM Invariant == Spec => []IInv
<1>1. Init => IInv
  BY ShapeInit, SealInit, UndoInit, DiskInit DEF IInv
<1>2. IInv /\ [Next]_vars => IInv'
  BY ShapeStep, SealStep, UndoStep, DiskStep DEF IInv
<1> QED BY <1>1, <1>2, PTL DEF Spec

\* Memory is what has been acknowledged whenever no batch is half way: the undo
\* of Transaction::commit takes back its own writes, and nobody else's unless a
\* writer wrote a captured key while the batch ran.
THEOREM UndoIsExact == Spec => []MemoryIsAcknowledged
<1>1. IInv => MemoryIsAcknowledged
  BY DEF IInv, Shape, UndoInv, MemoryIsAcknowledged
<1> QED BY <1>1, Invariant, PTL

\* If the process dies in any state, open() builds what has been acknowledged,
\* or has besides a write that is complete in the log and about to return.
THEOREM CrashesLoseNothing == Spec => []RecoveryIsAcknowledged
<1>1. ASSUME IInv PROVE RecoveryIsAcknowledged
  <2>1. SUFFICES ASSUME Recoverable, NEW k \in Keys
                 PROVE  \/ Recovered[k] = acked[k]
                        \/ \E t \in Running("write") :
                              pc[t] = "store" /\ Next1(t) = [key |-> k, val |-> Recovered[k]]
    BY DEF RecoveryIsAcknowledged, Recoverable
  <2>2. Agrees(Recovered, acked, ArrivingWrites)
    BY <1>1, <2>1 DEF IInv, DiskInv, RecInv
  <2>3. CASE \A op \in ArrivingWrites : op.key # k
    BY <2>2, <2>3 DEF Agrees
  <2>4. ASSUME NEW op \in ArrivingWrites, op.key = k
        PROVE  \E t \in Running("write") :
                  pc[t] = "store" /\ Next1(t) = [key |-> k, val |-> Recovered[k]]
    <3>1. PICK t \in Threads : pc[t] = "store" /\ kind[t] = "write" /\ op = Next1(t)
      BY DEF ArrivingWrites
    <3>2. op \in Op /\ Recovered[k] = op.val
      BY <1>1, <2>2, <2>4, ArrivingOps DEF Agrees, IInv
    <3>3. op = [key |-> k, val |-> Recovered[k]]
      BY <2>4, <3>2 DEF Op
    <3> QED BY <3>1, <3>3 DEF Running
  <2> QED BY <2>3, <2>4
<1> QED BY <1>1, Invariant, PTL

\* When nothing runs, a recovery would build what is in memory: the log has
\* the writes of all threads in the order in which memory took them.
THEOREM DiskFollowsMemory == Spec => []QuietDiskMatchesMemory
<1>1. ASSUME IInv PROVE QuietDiskMatchesMemory
  <2>1. SUFFICES ASSUME \A t \in Threads : pc[t] = "idle", Recoverable
                 PROVE  Recovered = mem
    BY DEF QuietDiskMatchesMemory, Recoverable
  <2>2. ArrivingWrites = {} /\ Running("commit") = {}
    BY <2>1 DEF ArrivingWrites, Running
  <2>3. mem = acked /\ mem \in Stores
    BY <1>1, <2>1, <2>2 DEF IInv, Shape, TypeOK, UndoInv, Recoverable, Unrecoverable
  <2>4. \A k \in Keys : Recovered[k] = acked[k]
    BY <1>1, <2>1, <2>2 DEF IInv, DiskInv, RecInv, Agrees
  <2> QED BY <2>3, <2>4, RecoverUnfolds DEF Recovered, Stores
<1> QED BY <1>1, Invariant, PTL

\* Once close() has returned, no thread that was on its way into a collection
\* changes a record, and nothing is appended: sealing waits for the writer that
\* is inside, and refuses the next.
THEOREM CloseIsFinal == Spec => ClosedIsFinal
<1>1. IInv /\ [Next]_vars => [closed => UNCHANGED <<mem, wal>>]_vars
  BY ClosedStep DEF IInv
<1> QED BY <1>1, Invariant, PTL DEF Spec, ClosedIsFinal
=============================================================================
