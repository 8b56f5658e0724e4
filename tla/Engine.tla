------------------------------- MODULE Engine -------------------------------
(***************************************************************************)
(* The storage engine of one persistent database (Database.cpp): the       *)
(* record store in memory, the write-ahead log, the snapshot or the        *)
(* segments behind a manifest, the calls that change them, and the faults  *)
(* they can meet.  One session follows another on the same directory; each *)
(* chooses its durability and its storage layout.  The calls of a session  *)
(* come one at a time: Threads is the module about concurrent callers.     *)
(*                                                                         *)
(* A call that appends one entry is one action.  commit() is a begin       *)
(* marker, one action for each operation and a commit marker; a checkpoint *)
(* is publish, tidy and reset.  A crash can come between any two of them,  *)
(* and inside any append.                                                  *)
(***************************************************************************)
EXTENDS WAL

CONSTANTS
    Durabilities,   \* the durability modes that sessions choose from
    Layouts,        \* the values of segmented_storage() they choose from
    Faults,         \* the faults that the environment may inject
    NoFile,         \* "the file is not there"
    MaxLog,         \* bound on the length of the log, and so on the batches begun
    MaxBatch        \* bound on the operations of a transaction

ASSUME ModesAssumption ==
    /\ Durabilities \subseteq {"standard", "relaxed", "ephemeral"}
    /\ Layouts \subseteq BOOLEAN
    /\ Faults \subseteq {"crash", "power", "io"}
ASSUME NoFileAssumption == NoFile \notin Stores
ASSUME BoundsAssumption == MaxLog \in Nat /\ MaxBatch \in Nat

VARIABLES
    \* the directory
    wal,            \* entries of wal.log, as the operating system shows them
    stable,         \* how many of them are known to be on stable storage
    walfile,        \* wal.log itself: "absent", "new" (created, its directory
                    \* entry not synced yet) or "durable"
    snapshot,       \* elips.snapshot: a store, or NoFile
    manifest,       \* elips.manifest: the store in its segments, or NoFile
    segments,       \* every segment the manifest names is there
    \* the session
    handle,         \* "open" or "down": is there a Database object
    durability,     \* config_.durability(); paranoid behaves as standard
    segmented,      \* config_.segmented_storage()
    fd,             \* the log's descriptor: "none" (no WAL), "live", "dead"
    mem,            \* records_ of every collection
    pc,             \* where the running call is
    call,           \* the call that the running checkpoint belongs to
    todo,           \* ops_ of the running commit() not applied yet
    undo,           \* its undo_log
    \* auxiliary: what the client was told, see "Promises"
    live, goal, allowed, forfeited

disk == <<wal, stable, walfile, snapshot, manifest, segments>>
session == <<handle, durability, segmented, fd>>
running == <<pc, call, todo, undo>>
promises == <<live, goal, allowed, forfeited>>
vars == <<disk, session, mem, running, promises>>

-----------------------------------------------------------------------------
(***************************************************************************)
(* Promises.  live is the store as the successful calls of the session     *)
(* have made it, goal the store that the running commit() is to make of    *)
(* it; allowed is the set of stores that a recovery may produce now        *)
(* without breaking what those calls promised; forfeited names the         *)
(* reasons, outstanding at present, for which the code cannot keep it.     *)
(***************************************************************************)
Causes ==
    {"behind_torn",     \* acknowledged behind a torn record
     "dead_window",     \* acknowledged inside a batch nobody will commit
     "failed_sync",     \* reported as failed, complete in the log
     "failed_marker",   \* commit() failed at its last step, nothing undone
     "stale_log",       \* a session without a log published over an old log
     "stale_manifest",  \* a snapshot was published, the manifest kept
     "unsynced_log",    \* power lost between a snapshot and its truncation
     "unlinked_log"}    \* power lost before wal.log was in its directory

-----------------------------------------------------------------------------
(* What is on the disk. *)

\* open() prefers the manifest, falls back on the snapshot, then on nothing.
Base == CASE manifest # NoFile -> manifest
          [] manifest = NoFile /\ snapshot # NoFile -> snapshot
          [] OTHER -> EmptyStore

\* The store that an open() of the directory would build at this moment.
Recovered == Recover(Base, wal)

\* It throws when the manifest names a segment that is gone.
DiskReadable == manifest # NoFile => segments

Synced == stable = Len(wal)

-----------------------------------------------------------------------------
(* Appending to the log. *)

\* Mutants: nobody syncs; an erase does not go through the log.
NeverSynced == FALSE
LoggedInserts(e) ==
    \/ (fd = "none" \/ e.op = "erase") /\ UNCHANGED <<wal, stable>>
    \/ /\ fd = "live" /\ Len(wal) < MaxLog /\ wal' = Append(wal, e)
       /\ stable' = IF durability # "relaxed" THEN Len(wal) + 1 ELSE stable

SyncEachWrite == durability # "relaxed"

CanAppend(e) == fd = "live" /\ Len(wal) < MaxLog

Append1(e) ==
    /\ wal' = Append(wal, e)
    /\ stable' = IF SyncEachWrite THEN Len(wal) + 1 ELSE stable

\* WAL::append of e returns; a session without a WAL object skips it.
Logged(e) ==
    \/ fd = "none" /\ UNCHANGED <<wal, stable>>
    \/ CanAppend(e) /\ Append1(e)

\* WAL::append of e throws: the descriptor is gone, write() fails before or
\* inside the record, or all of it is written and fdatasync() fails.
LogFails(e) ==
    \/ fd = "dead" /\ UNCHANGED wal
    \/ fd = "live" /\ "io" \in Faults /\ UNCHANGED wal
    \/ CanAppend(e) /\ "io" \in Faults /\ wal' = Append(wal, Torn)
    \/ CanAppend(e) /\ "io" \in Faults /\ SyncEachWrite /\ wal' = Append(wal, e)

\* What the acknowledgement of a call that made the store s promises, and
\* whether the log is in a state that lets the engine keep it.
Acknowledge(s, inOwnWindow) ==
    /\ live' = s
    /\ allowed' = CASE fd = "none" -> allowed
                    [] fd # "none" /\ durability = "relaxed" -> allowed \union {s}
                    [] OTHER -> {s}
    /\ forfeited' = forfeited \union
          {c \in {"behind_torn"} : fd = "live" /\ ~Intact(wal)} \union
          {c \in {"dead_window"} : fd = "live" /\ InTxn(wal, Len(wal)) /\ ~inOwnWindow}

-----------------------------------------------------------------------------
(* Collection::add and Collection::remove. *)

Idle == handle = "open" /\ pc = "idle"

\* Store contents c under k: WAL first, then memory, then return.
Write(k, c) ==
    /\ Idle
    /\ c = NoRecord => mem[k] # NoRecord
    /\ Logged(Put(k, c))
    /\ mem' = [mem EXCEPT ![k] = c]
    /\ Acknowledge([live EXCEPT ![k] = c], FALSE)
    /\ UNCHANGED <<walfile, snapshot, manifest, segments, session, running, goal>>

\* The append throws before memory is touched.
WriteFails(k, c) ==
    /\ Idle
    /\ c = NoRecord => mem[k] # NoRecord
    /\ LogFails(Put(k, c))
    /\ forfeited' = forfeited \union
          {x \in {"failed_sync"} : wal' = Append(wal, Put(k, c)) /\ Clean(wal)}
    /\ UNCHANGED <<stable, walfile, snapshot, manifest, segments, session, mem,
                   running, live, goal, allowed>>

-----------------------------------------------------------------------------
(* Transaction::commit. *)

Batches == UNION {[1..n -> [key : Keys, val : Contents]] : n \in 0..MaxBatch}

\* The store that a batch makes of another: its last word on each key.
Outcome(store, batch) ==
    [k \in Keys |->
        LET last == {i \in DOMAIN batch :
                        /\ batch[i].key = k
                        /\ \A j \in DOMAIN batch : batch[j].key = k => j <= i}
        IN  IF last = {} THEN store[k] ELSE batch[CHOOSE i \in last : TRUE].val]

Begin(batch) ==
    /\ Idle
    /\ Logged(TxnBegin)
    /\ Len(wal') + Len(batch) <= MaxLog
    /\ pc' = "apply"
    /\ todo' = batch
    /\ undo' = <<>>
    /\ goal' = Outcome(live, batch)
    /\ UNCHANGED <<walfile, snapshot, manifest, segments, session, mem, call,
                   live, allowed, forfeited>>

\* The begin marker is appended outside the try block: nothing to undo.
BeginFails ==
    /\ Idle
    /\ LogFails(TxnBegin)
    /\ UNCHANGED <<stable, walfile, snapshot, manifest, segments, session, mem,
                   running, promises>>

\* The effect of an operation on memory; an erase of nothing is not logged.
Skipped(op) == op.val = NoRecord /\ mem[op.key] = NoRecord

Apply ==
    /\ pc = "apply" /\ todo # <<>>
    /\ LET op == Head(todo) IN
        /\ undo' = Append(undo, [key |-> op.key, previous |-> mem[op.key]])
        /\ IF Skipped(op)
           THEN UNCHANGED <<wal, stable, mem>>
           ELSE /\ Logged(Put(op.key, op.val))
                /\ mem' = [mem EXCEPT ![op.key] = op.val]
    /\ todo' = Tail(todo)
    /\ UNCHANGED <<walfile, snapshot, manifest, segments, session, pc, call, promises>>

\* The first capture of key k, if there is one.
Oldest(entries, k) ==
    {i \in DOMAIN entries :
        /\ entries[i].key = k
        /\ \A j \in DOMAIN entries : entries[j].key = k => i <= j}

\* Mutant: the entries are restored in the order in which they were captured.
UndoForwards(store, entries) ==
    [k \in Keys |->
        LET onKey == {i \in DOMAIN entries : entries[i].key = k}
        IN  IF onKey = {}
            THEN store[k]
            ELSE entries[CHOOSE i \in onKey : \A j \in onKey : j <= i].previous]

\* Transaction::undo restores the entries in reverse order, so that the oldest
\* capture of a key is the one that stays.
UndoAll(store, entries) ==
    [k \in Keys |->
        IF Oldest(entries, k) = {}
        THEN store[k]
        ELSE entries[CHOOSE i \in Oldest(entries, k) : TRUE].previous]

EndCall ==
    pc' = "idle" /\ todo' = <<>> /\ undo' = <<>> /\ goal' = EmptyStore /\ UNCHANGED call

\* An operation throws: the batch is undone in memory, no marker is written.
ApplyFails ==
    /\ pc = "apply" /\ todo # <<>>
    /\ ~Skipped(Head(todo))
    /\ LogFails(Put(Head(todo).key, Head(todo).val))
    /\ mem' = UndoAll(mem, undo)
    /\ EndCall
    /\ UNCHANGED <<stable, walfile, snapshot, manifest, segments, session,
                   live, allowed, forfeited>>

Commit ==
    /\ pc = "apply" /\ todo = <<>>
    /\ Logged(TxnCommit)
    /\ Acknowledge(goal, TRUE)
    /\ EndCall
    /\ UNCHANGED <<walfile, snapshot, manifest, segments, session, mem>>

\* The commit marker is appended outside the try block: nothing is undone.
CommitFails ==
    /\ pc = "apply" /\ todo = <<>>
    /\ LogFails(TxnCommit)
    /\ forfeited' = forfeited \union {"failed_marker"}
    /\ EndCall
    /\ UNCHANGED <<stable, walfile, snapshot, manifest, segments, session, mem,
                   live, allowed>>

-----------------------------------------------------------------------------
(* Database::checkpoint_locked, in checkpoint(), compact() and train(), in   *)
(* close(), and in the destructor of a handle that was not closed.           *)

Calls == {"checkpoint", "close", "destroy"}

\* From here on open() builds on the store in memory: the log only repeats it.
NewBase ==
    /\ allowed' = {mem} \union (IF Synced THEN {} ELSE allowed)
    /\ forfeited' = forfeited \union
          {c \in {"stale_log"} : fd = "none" /\ wal # <<>>} \union
          {c \in {"unsynced_log"} : ~Synced}
    /\ UNCHANGED <<live, goal>>

\* The new snapshot, or the new segments and the manifest that names them, are
\* complete and synced before one rename puts them in place.
Publish(c) ==
    /\ Idle
    /\ IF segmented
       THEN manifest' = mem /\ segments' = TRUE /\ UNCHANGED snapshot
       ELSE snapshot' = mem /\ UNCHANGED <<manifest, segments>>
    /\ walfile' = IF walfile = "new" THEN "durable" ELSE walfile
    /\ IF ~segmented /\ manifest # NoFile THEN UNCHANGED promises ELSE NewBase
    /\ pc' = "tidy" /\ call' = c
    /\ UNCHANGED <<wal, stable, session, mem, todo, undo>>

\* Mutants: the sweep of the segment directory spares nothing; the snapshot is
\* removed in either layout.
TidyAllSegments ==
    /\ pc = "tidy" /\ pc' = "reset"
    /\ IF segmented
       THEN snapshot' = NoFile /\ UNCHANGED manifest
       ELSE manifest' = NoFile /\ UNCHANGED snapshot
    /\ segments' = FALSE
    /\ UNCHANGED <<wal, stable, walfile, session, mem, call, todo, undo, promises>>
TidyBoth ==
    /\ pc = "tidy" /\ pc' = "reset"
    /\ snapshot' = NoFile
    /\ IF segmented
       THEN UNCHANGED <<manifest, segments>>
       ELSE manifest' = NoFile /\ segments' = FALSE
    /\ UNCHANGED <<wal, stable, walfile, session, mem, call, todo, undo, promises>>

\* Remove the files of the other layout; errors go to an error_code nobody reads.
Tidy ==
    /\ pc = "tidy"
    /\ IF segmented
       THEN /\ \/ snapshot' = NoFile
               \/ "io" \in Faults /\ UNCHANGED snapshot
            /\ UNCHANGED <<manifest, segments, promises>>
       ELSE \/ /\ manifest' = NoFile /\ segments' = FALSE
               /\ IF manifest # NoFile THEN NewBase ELSE UNCHANGED promises
               /\ UNCHANGED snapshot
            \/ /\ "io" \in Faults /\ manifest # NoFile
               /\ segments' \in {segments, FALSE}
               /\ forfeited' = forfeited \union {"stale_manifest"}
               /\ UNCHANGED <<manifest, snapshot, live, goal, allowed>>
    /\ pc' = "reset"
    /\ UNCHANGED <<wal, stable, walfile, session, mem, call, todo, undo>>

\* No Database object is left; what was in memory is gone with it.
GoDown ==
    /\ handle' = "down" /\ fd' = "none"
    /\ mem' = EmptyStore /\ live' = EmptyStore /\ goal' = EmptyStore
    /\ durability' = "none" /\ segmented' = FALSE
    /\ pc' = "idle" /\ call' = "none" /\ todo' = <<>> /\ undo' = <<>>

\* A checkpoint leaves nothing outstanding but what the client saw of memory,
\* and a manifest that should have gone.
Reset ==
    /\ pc = "reset"
    /\ IF fd = "none"
       THEN UNCHANGED <<wal, stable, walfile, allowed, forfeited>>
       ELSE /\ wal' = <<>> /\ stable' = 0 /\ walfile' = "durable"
            /\ allowed' = {mem}
            /\ forfeited' = forfeited \intersect {"failed_marker", "stale_manifest"}
    /\ IF call = "checkpoint"
       THEN /\ fd' = (IF fd = "none" THEN "none" ELSE "live")
            /\ pc' = "idle" /\ call' = "none"
            /\ UNCHANGED <<handle, durability, segmented, mem, todo, undo, live, goal>>
       ELSE GoDown
    /\ UNCHANGED <<snapshot, manifest, segments>>

\* WAL::reset throws after closing the old descriptor: the file cannot be
\* opened, or it is truncated and the sync fails.  close() then leaves the
\* handle open; the destructor swallows the exception.
ResetFails ==
    /\ pc = "reset" /\ fd # "none" /\ "io" \in Faults
    /\ \/ UNCHANGED <<wal, stable>> /\ fd' = "dead"
       \/ wal' = <<>> /\ stable' = 0 /\ fd' = "live"
    /\ pc' = "idle" /\ call' = "none"
    /\ call # "destroy"
    /\ UNCHANGED <<walfile, snapshot, manifest, segments, handle, durability,
                   segmented, mem, todo, undo, promises>>

\* abandon(), or a destructor whose checkpoint fails before it publishes.
Abandon ==
    /\ Idle
    /\ GoDown
    /\ UNCHANGED <<disk, allowed, forfeited>>

-----------------------------------------------------------------------------
(* open(): load the base, replay the log over it, attach a log unless the    *)
(* session is ephemeral.  Nothing is written to the log and nothing is cut   *)
(* off it: an append of the new session goes behind whatever is there.       *)

Open(d, s) ==
    /\ handle = "down"
    /\ DiskReadable
    /\ handle' = "open"
    /\ durability' = d /\ segmented' = s
    /\ fd' = IF d = "ephemeral" THEN "none" ELSE "live"
    /\ walfile' = IF d # "ephemeral" /\ walfile = "absent" THEN "new" ELSE walfile
    /\ mem' = Recovered
    /\ live' = Recovered
    /\ IF Synced
       THEN allowed' = {Recovered} /\ forfeited' = {}
       ELSE allowed' = allowed \union {Recovered} /\ UNCHANGED forfeited
    /\ UNCHANGED <<wal, stable, snapshot, manifest, segments, running, goal>>

-----------------------------------------------------------------------------
(* Faults of the environment. *)

\* The process dies between two appends.
Crash ==
    /\ "crash" \in Faults
    /\ handle = "open"
    /\ GoDown
    /\ UNCHANGED <<disk, allowed, forfeited>>

\* The process dies inside WAL::append of e, before the call returns: part of
\* the record is in the file, or all of it.  A store that the whole record
\* leads to is then as good an outcome as the one before the call.
CrashInside(e, outcome) ==
    /\ "crash" \in Faults
    /\ CanAppend(e)
    /\ \/ wal' = Append(wal, Torn) /\ UNCHANGED allowed
       \/ wal' = Append(wal, e) /\ allowed' = allowed \union {outcome}
    /\ GoDown
    /\ UNCHANGED <<stable, walfile, snapshot, manifest, segments, forfeited>>

CrashInAppend ==
    \/ /\ Idle
       /\ \/ CrashInside(TxnBegin, live)
          \/ \E k \in Keys, c \in Contents :
                /\ c = NoRecord => mem[k] # NoRecord
                /\ CrashInside(Put(k, c), [live EXCEPT ![k] = c])
    \/ /\ pc = "apply"
       /\ IF todo = <<>>
          THEN CrashInside(TxnCommit, goal)
          ELSE /\ ~Skipped(Head(todo))
               /\ CrashInside(Put(Head(todo).key, Head(todo).val), live)

\* The machine stops: of the entries not yet on stable storage a prefix is
\* left, the first one lost perhaps in part; a wal.log whose directory entry
\* was never synced may be gone altogether.
PowerLoss ==
    /\ "power" \in Faults
    /\ \/ /\ \E n \in stable..Len(wal) :
             \/ wal' = SubSeq(wal, 1, n) /\ stable' = n
             \/ /\ n < Len(wal)
                /\ wal' = Append(SubSeq(wal, 1, n), Torn) /\ stable' = n + 1
          /\ walfile' = IF walfile = "new" THEN "durable" ELSE walfile
          /\ UNCHANGED forfeited
       \/ /\ walfile = "new"
          /\ wal' = <<>> /\ stable' = 0 /\ walfile' = "absent"
          /\ forfeited' = forfeited \union {c \in {"unlinked_log"} : stable > 0}
    /\ GoDown
    /\ UNCHANGED <<snapshot, manifest, segments, allowed>>

-----------------------------------------------------------------------------
(* The specification. *)

Init ==
    /\ wal = <<>> /\ stable = 0 /\ walfile = "absent"
    /\ snapshot = NoFile /\ manifest = NoFile /\ segments = FALSE
    /\ handle = "down" /\ fd = "none"
    /\ durability = "none" /\ segmented = FALSE
    /\ mem = EmptyStore
    /\ pc = "idle" /\ call = "none" /\ todo = <<>> /\ undo = <<>>
    /\ live = EmptyStore /\ goal = EmptyStore
    /\ allowed = {EmptyStore} /\ forfeited = {}

Next ==
    \/ \E d \in Durabilities, s \in Layouts : Open(d, s)
    \/ \E k \in Keys, c \in Contents : Write(k, c) \/ WriteFails(k, c)
    \/ \E batch \in Batches : Begin(batch)
    \/ BeginFails \/ Apply \/ ApplyFails \/ Commit \/ CommitFails
    \/ \E c \in Calls : Publish(c)
    \/ Tidy \/ Reset \/ ResetFails \/ Abandon
    \/ Crash \/ CrashInAppend \/ PowerLoss

Spec == Init /\ [][Next]_vars

-----------------------------------------------------------------------------
(* Properties. *)

TypeOK ==
    /\ wal \in Seq(Entry) /\ stable \in 0..Len(wal)
    /\ walfile \in {"absent", "new", "durable"}
    /\ snapshot \in Stores \union {NoFile} /\ manifest \in Stores \union {NoFile}
    /\ segments \in BOOLEAN
    /\ handle \in {"down", "open"} /\ fd \in {"none", "live", "dead"}
    /\ durability \in Durabilities \union {"none"} /\ segmented \in BOOLEAN
    /\ mem \in Stores
    /\ pc \in {"idle", "apply", "tidy", "reset"} /\ call \in Calls \union {"none"}
    /\ todo \in Seq([key : Keys, val : Contents])
    /\ undo \in Seq([key : Keys, previous : Contents])
    /\ live \in Stores /\ goal \in Stores
    /\ allowed \subseteq Stores /\ forfeited \subseteq Causes

\* Between two calls the records in memory are exactly what the calls that
\* returned success made them: a call that threw left nothing behind, and a
\* batch that failed half way was taken back whole (Transaction::undo).  The
\* state is well typed at every moment.
MemoryIsWhatWasAcknowledged ==
    /\ TypeOK
    /\ Idle /\ "failed_marker" \notin forfeited => mem = live

\* Whatever state a crash finds the directory in, the next open() builds a
\* store that the acknowledged calls allow: nothing acknowledged is missing,
\* no half of a batch is there, no failed call comes back.
RecoverySound == forfeited = {} => Recovered \in allowed

\* Between two calls of a session that has a log, memory and disk agree on
\* every record: a crash now would cost nothing.
DiskMatchesMemory ==
    Idle /\ fd # "none" /\ forfeited \subseteq {"unsynced_log"} => Recovered = mem

\* The directory can be opened again after any crash, in the middle of any
\* checkpoint, whichever layout the sessions before used.
AlwaysReadable == "stale_manifest" \notin forfeited => DiskReadable

\* No step of a checkpoint changes what a recovery would build: neither the
\* rename, nor the removal of the other layout's files, nor the truncation.
CheckpointIsInvisible ==
    [][(\E c \in Calls : Publish(c)) \/ Tidy \/ Reset \/ ResetFails =>
         (forfeited \union forfeited' \subseteq {"unsynced_log"} /\ fd # "none" =>
            Recovered' = Recovered)]_vars

-----------------------------------------------------------------------------
(***************************************************************************)
(* The engine as an AtomicStore.  Every part of the mapping but Excused is *)
(* read off the files and the objects of the code, not off the promises.   *)
(***************************************************************************)
Mode ==
    CASE handle = "down" -> "down"
      [] handle = "open" /\ fd = "none" -> "unlogged"
      [] handle = "open" /\ fd # "none" /\ durability = "relaxed" -> "lazy"
      [] OTHER -> "strict"

\* A running batch counts when it is committed: until then, what memory held
\* before it, and what it is going to hold.
Visible == IF pc = "apply" THEN UndoAll(mem, undo) ELSE mem
Pending == IF pc = "apply" THEN Outcome(mem, todo) ELSE NoFile

\* The stores that a power loss may leave to the next open().
Restartable == {Recover(Base, SubSeq(wal, 1, n)) : n \in stable..Len(wal)}

Excused == forfeited # {}

Atomic == INSTANCE AtomicStore WITH
    NoBatch <- NoFile, mode <- Mode, memory <- Visible, pending <- Pending,
    disk <- Recovered, may <- Restartable, excused <- Excused

\* Seen through its calls and its restarts, the engine is a store that changes
\* one call or one whole batch at a time: in the middle of a batch, of a
\* checkpoint or of an append nothing else can be seen or recovered, and a crash
\* inside a call leaves the store before it or the store after it.
IsAtomicStore == Atomic!Spec

-----------------------------------------------------------------------------
(***************************************************************************)
(* The inductive invariant behind RecoverySound.  Three things have to be  *)
(* said that the properties do not: what memory and the log look like in   *)
(* the middle of a batch, what base a checkpoint has put in place before   *)
(* it truncates the log, and that not only the whole log but every prefix  *)
(* of it that a power loss may leave recovers to an allowed store.         *)
(***************************************************************************)

\* Calls run only in an open session, batches only with the log in a window.
SessionInv ==
    /\ handle = "down" => pc = "idle" /\ fd = "none"
    /\ handle = "open" => durability \in Durabilities
    /\ fd = "dead" => pc # "apply"
    /\ pc = "apply" /\ fd = "live" /\ Intact(wal) => InTxn(wal, Len(wal))

MemoryInv ==
    handle = "open" /\ "failed_marker" \notin forfeited =>
        /\ pc # "apply" => live = mem
        /\ pc = "apply" => live = UndoAll(mem, undo) /\ goal = Outcome(mem, todo)

LogInv ==
    fd # "none" /\ forfeited \subseteq {"unsynced_log"} =>
        /\ pc # "apply" => Recovered = mem
        /\ pc = "apply" => Recovered = live
        /\ pc = "apply" /\ Intact(wal) => RecoverIfCommitted(Base, wal) = mem

CheckpointInv ==
    /\ pc = "tidy" => mem = IF segmented THEN manifest ELSE snapshot
    /\ pc = "tidy" /\ (segmented \/ manifest = NoFile) => mem \in allowed
    /\ pc = "reset" /\ "stale_manifest" \notin forfeited => Base = mem /\ mem \in allowed

PrefixesAllowed(base, log, from, stores) ==
    \A n \in from..Len(log) : Recover(base, SubSeq(log, 1, n)) \in stores

PrefixInv == forfeited = {} => PrefixesAllowed(Base, wal, stable, allowed)

\* No failure and no crash leaves the engine in a state from which it could
\* forget, halve or invent a call.
IInv ==
    TypeOK /\ SessionInv /\ MemoryInv /\ LogInv /\ CheckpointInv /\ PrefixInv /\ AlwaysReadable
=============================================================================
