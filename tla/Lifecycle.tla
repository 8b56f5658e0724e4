----------------------------- MODULE Lifecycle -----------------------------
(***************************************************************************)
(* The handles that processes have on one database directory: how open()   *)
(* finds or creates the database behind the process lock, and what close,  *)
(* destruction and the death of a process leave there (Database.cpp,       *)
(* LockManager.cpp).                                                       *)
(*                                                                         *)
(* Each handle stands for a process of its own.  The directory is reduced  *)
(* to IDENTITY, the embedder's manifest, and the sets of records in the    *)
(* snapshot and in the log; Engine is about how these two are written.     *)
(***************************************************************************)
EXTENDS Integers, FiniteSets

CONSTANTS
    Handles, NoHandle,
    Ids,            \* record ids
    Dims,           \* dimensions a database can have
    NoDim,          \* dimension 0: the caller does not say
    Modes,          \* the access modes that callers ask for
    MaxOpens,       \* bound on the calls of open()
    Faults          \* {"crash", "io"} or a part of it

ASSUME LifecycleAssumption ==
    /\ NoHandle \notin Handles
    /\ NoDim \notin Dims
    /\ Modes \subseteq {"read_write", "read_only"}
    /\ MaxOpens \in Nat
    /\ Faults \subseteq {"crash", "io"}

Records == Ids \X Dims

VARIABLES
    identity,   \* IDENTITY: "absent", "partial" (truncated, not yet written), a dimension
    embedder,   \* TEXT_EMBEDDER.manifest is there
    base, log,  \* records in the snapshot or the segments, and in wal.log
    writer,     \* the handle with the exclusive flock on LOCK
    readers,    \* the handles with a shared one
    phase,      \* where a handle is
    mode, dim,  \* its access mode and its dimension
    existing,   \* what it found when it looked for IDENTITY
    text,       \* it has a text embedder
    mem,        \* its records
    opens,      \* calls of open() still to come
    acked,      \* auxiliary: the records that add() has acknowledged
    broken      \* auxiliary: see Causes

disk == <<identity, embedder, base, log>>
flock == <<writer, readers>>
handle == <<phase, mode, dim, existing, text, mem>>
vars == <<disk, flock, handle, opens, acked, broken>>

\* Why the directory may not hold what was acknowledged any more.
Causes ==
    {"recreated",       \* IDENTITY was written over another one
     "failed_open",     \* the destructor of a half-loaded handle published
     "stale_handle"}    \* a handle that was closed published

-----------------------------------------------------------------------------
Set(f, h, x) == [f EXCEPT ![h] = x]
Goto(h, p) == phase' = Set(phase, h, p)
Writes(h) == mode[h] = "read_write"

\* Mutants: readers and the writer do not exclude each other; a handle that may
\* only read checkpoints; the lock outlives close().
LockFreeForReaders(h) == Writes(h) => writer = NoHandle
CheckpointsAnyway(h) == TRUE
KeepsTheLock(h) == UNCHANGED flock

LockFree(h) ==
    /\ writer = NoHandle
    /\ Writes(h) => readers = {}

Unlock(h) ==
    /\ writer' = (IF writer = h THEN NoHandle ELSE writer)
    /\ readers' = readers \ {h}

\* The handle is gone, and with it its memory and its lock.
Forget(h) ==
    /\ Goto(h, "none")
    /\ mem' = Set(mem, h, {})
    /\ text' = Set(text, h, FALSE)
    /\ existing' = Set(existing, h, FALSE)
    /\ mode' = Set(mode, h, "read_only") /\ dim' = Set(dim, h, NoDim)
    /\ Unlock(h)

-----------------------------------------------------------------------------
(* open() *)

\* The test for IDENTITY comes before the lock.
Probe(h, m, d) ==
    /\ phase[h] = "none" /\ opens > 0
    /\ opens' = opens - 1
    /\ Goto(h, "probed")
    /\ mode' = Set(mode, h, m) /\ dim' = Set(dim, h, d)
    /\ existing' = Set(existing, h, identity # "absent")
    /\ UNCHANGED <<disk, flock, text, mem, acked, broken>>

\* flock does not wait: a conflict throws.
Lock(h) ==
    /\ phase[h] = "probed"
    /\ IF LockFree(h)
       THEN /\ IF Writes(h)
               THEN writer' = h /\ UNCHANGED readers
               ELSE readers' = readers \union {h} /\ UNCHANGED writer
            /\ Goto(h, "locked")
            /\ UNCHANGED <<mode, dim, existing, text, mem>>
       ELSE Forget(h)
    /\ UNCHANGED <<disk, opens, acked, broken>>

\* read_identity: another dimension than the caller's, or half an IDENTITY,
\* throws.
ReadIdentity(h) ==
    /\ phase[h] = "locked" /\ existing[h]
    /\ IF identity \in Dims /\ dim[h] \in {NoDim, identity}
       THEN /\ dim' = Set(dim, h, identity)
            /\ Goto(h, "identified")
            /\ UNCHANGED <<flock, mode, existing, text, mem>>
       ELSE Forget(h)
    /\ UNCHANGED <<disk, opens, acked, broken>>

\* Mutant: a new database may have any dimension.
CreatesWithoutDimension(h) == Writes(h)

\* A new database needs a writer and a dimension.
CanCreate(h) == Writes(h) /\ dim[h] # NoDim

CannotCreate(h) ==
    /\ phase[h] = "locked" /\ ~existing[h] /\ ~CanCreate(h)
    /\ Forget(h)
    /\ UNCHANGED <<disk, opens, acked, broken>>

\* write_identity truncates the file ...
CreateIdentity(h) ==
    /\ phase[h] = "locked" /\ ~existing[h] /\ CanCreate(h)
    /\ identity' = "partial"
    /\ broken' = broken \union {x \in {"recreated"} : identity # "absent"}
    /\ Goto(h, "naming")
    /\ UNCHANGED <<embedder, base, log, flock, mode, dim, existing, text, mem, opens, acked>>

\* ... and writes it.
WriteIdentity(h) ==
    /\ phase[h] = "naming"
    /\ identity' = dim[h]
    /\ Goto(h, "identified")
    /\ UNCHANGED <<embedder, base, log, flock, mode, dim, existing, text, mem, opens, acked, broken>>

\* resolve_text_embedder_for_open with the default configuration: the embedder
\* of the manifest, or, in a new database only, the built-in one.
ResolveEmbedder(h) ==
    /\ phase[h] = "identified"
    /\ \/ /\ text' = Set(text, h, embedder \/ ~existing[h])
          /\ embedder' = (embedder \/ (~existing[h] /\ Writes(h)))
          /\ Goto(h, "loading")
          /\ UNCHANGED <<flock, mode, dim, existing, mem>>
       \/ "io" \in Faults /\ Forget(h) /\ UNCHANGED embedder
    /\ UNCHANGED <<identity, base, log, opens, acked, broken>>

Stored == base \union log

\* Mutant: the log is not replayed.
BaseOnly == base

Loaded == base \union log

\* Snapshot or segments, and the log over them.
Load(h) ==
    /\ phase[h] = "loading"
    /\ \A r \in Loaded : r[2] = dim[h]
    /\ mem' = Set(mem, h, Loaded)
    /\ Goto(h, "open")
    /\ UNCHANGED <<disk, flock, mode, dim, existing, text, opens, acked, broken>>

\* A record has another dimension, or a file cannot be read, after part of the
\* records have been placed.  The exception destroys the Database object, and
\* its destructor checkpoints what is in it; or that fails as well.
LoadFails(h) ==
    /\ phase[h] = "loading"
    /\ "io" \in Faults \/ \E r \in Loaded : r[2] # dim[h]
    /\ \/ /\ Writes(h)
          /\ base' \in SUBSET {r \in base : r[2] = dim[h]}
          /\ broken' = broken \union
                 {x \in {"failed_open"} : base' \union log # Stored}
       \/ (~Writes(h) \/ "io" \in Faults) /\ UNCHANGED <<base, broken>>
    /\ Forget(h)
    /\ UNCHANGED <<identity, embedder, log, opens, acked>>

-----------------------------------------------------------------------------
(* A handle that is open, or was. *)

\* place_locked; an abandoned handle still has its log.
Add(h, i) ==
    LET r == <<i, dim[h]>> IN
    /\ phase[h] \in {"open", "abandoned"} /\ Writes(h)
    /\ r \notin mem[h]
    /\ log' = log \union {r}
    /\ mem' = Set(mem, h, mem[h] \union {r})
    /\ acked' = acked \union {r}
    /\ UNCHANGED <<identity, embedder, base, flock, phase, mode, dim, existing, text, opens, broken>>

\* checkpoint_locked returns at once on a handle that may only read.
Checkpoints(h) == Writes(h)

\* The log is truncated by the handle that has it.
CheckpointLocked(h) ==
    IF Checkpoints(h)
    THEN /\ base' = mem[h]
         /\ log' = IF phase[h] = "closed" THEN log ELSE {}
    ELSE UNCHANGED <<base, log>>

\* checkpoint() and compact() do not ask whether the handle is closed.
Checkpoint(h) ==
    /\ phase[h] \in {"open", "abandoned", "closed"}
    /\ CheckpointLocked(h)
    /\ broken' = broken \union
           {x \in {"stale_handle"} : phase[h] = "closed" /\ base' # base}
    /\ UNCHANGED <<identity, embedder, flock, handle, opens, acked>>

ReleaseOnClose(h) == Unlock(h)

Close(h) ==
    /\ phase[h] = "open"
    /\ CheckpointLocked(h)
    /\ ReleaseOnClose(h)
    /\ Goto(h, "closed")
    /\ UNCHANGED <<identity, embedder, mode, dim, existing, text, mem, opens, acked, broken>>

\* abandon() sets closed_ and keeps the lock; the destructor releases it.
Abandon(h) ==
    /\ phase[h] = "open"
    /\ Goto(h, "abandoned")
    /\ UNCHANGED <<disk, flock, mode, dim, existing, text, mem, opens, acked, broken>>

\* ~Database
Destroy(h) ==
    /\ phase[h] \in {"open", "abandoned", "closed"}
    /\ IF phase[h] = "open" THEN CheckpointLocked(h) ELSE UNCHANGED <<base, log>>
    /\ Forget(h)
    /\ UNCHANGED <<identity, embedder, opens, acked, broken>>

\* The process dies; the operating system drops its lock.
Crash(h) ==
    /\ "crash" \in Faults
    /\ phase[h] # "none"
    /\ Forget(h)
    /\ UNCHANGED <<disk, opens, acked, broken>>

-----------------------------------------------------------------------------
Init ==
    /\ identity = "absent" /\ embedder = FALSE
    /\ base = {} /\ log = {}
    /\ writer = NoHandle /\ readers = {}
    /\ phase = [h \in Handles |-> "none"]
    /\ mode = [h \in Handles |-> "read_only"] /\ dim = [h \in Handles |-> NoDim]
    /\ existing = [h \in Handles |-> FALSE] /\ text = [h \in Handles |-> FALSE]
    /\ mem = [h \in Handles |-> {}]
    /\ opens = MaxOpens
    /\ acked = {} /\ broken = {}

Next ==
    \E h \in Handles :
        \/ \E m \in Modes, d \in Dims \union {NoDim} : Probe(h, m, d)
        \/ Lock(h) \/ ReadIdentity(h) \/ CannotCreate(h)
        \/ CreateIdentity(h) \/ WriteIdentity(h)
        \/ ResolveEmbedder(h) \/ Load(h) \/ LoadFails(h)
        \/ \E i \in Ids : Add(h, i)
        \/ Checkpoint(h) \/ Close(h) \/ Abandon(h) \/ Destroy(h)
        \/ Crash(h)

Spec == Init /\ [][Next]_vars

-----------------------------------------------------------------------------
(* Properties. *)

Phases == {"none", "probed", "locked", "naming", "identified", "loading",
           "open", "abandoned", "closed"}

TypeOK ==
    /\ identity \in Dims \union {"absent", "partial"} /\ embedder \in BOOLEAN
    /\ base \subseteq Records /\ log \subseteq Records /\ acked \subseteq Records
    /\ writer \in Handles \union {NoHandle} /\ readers \subseteq Handles
    /\ phase \in [Handles -> Phases]
    /\ mode \in [Handles -> {"read_write", "read_only"}] /\ dim \in [Handles -> Dims \union {NoDim}]
    /\ existing \in [Handles -> BOOLEAN] /\ text \in [Handles -> BOOLEAN]
    /\ mem \in [Handles -> SUBSET Records]
    /\ opens \in 0..MaxOpens /\ broken \subseteq Causes

\* The directory holds every record that any process was told is stored, in
\* whatever order processes open, close, lose and abandon their handles.
NothingIsLost == broken = {} => Stored = acked

\* A handle that is open shows the database as it is on disk: no other process
\* changes it behind the back of a reader or of the writer.
OpenHandlesAreCurrent ==
    broken = {} =>
        \A h \in Handles : phase[h] \in {"open", "abandoned"} => mem[h] = Stored

\* A step of h and of no other handle, as far as handles show it.
OnlyItMoves(h) ==
    \A g \in Handles \ {h} : phase'[g] = phase[g] /\ mem'[g] = mem[g]

\* A step that changes the directory, from the first byte of IDENTITY to the
\* checkpoint of a destructor, is taken while some handle holds the exclusive lock
\* and moves no other handle; or it is the checkpoint of a handle that was closed.
OnlyTheLockHolderWrites ==
    [][disk' # disk =>
          \/ writer # NoHandle /\ OnlyItMoves(writer)
          \/ "stale_handle" \in broken']_vars

\* A lock is held exactly while its handle can use it: none is left behind by
\* an open() that threw, and none is missing under a handle that is open.
LocksAreHeldInUse ==
    /\ TypeOK
    /\ \A h \in Handles :
          (writer = h \/ h \in readers) <=> phase[h] \notin {"none", "probed", "closed"}
=============================================================================
