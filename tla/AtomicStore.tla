----------------------------- MODULE AtomicStore -----------------------------
(***************************************************************************)
(* What a persistent database promises its caller (the comments of         *)
(* Transaction in elips.hpp, of WAL in WAL.hpp and of Durability in        *)
(* Config.hpp): a store that changes one call or one whole batch at a      *)
(* time, and that a restart gives back.  There is no log here, no          *)
(* snapshot, no segment and no undo.                                       *)
(***************************************************************************)
CONSTANTS
    Keys,
    Contents,       \* what a key may hold, NoRecord included
    NoRecord,
    NoBatch         \* "no batch is running"

VARIABLES
    mode,           \* "down", or how the session makes its calls last: "strict",
                    \* "lazy" (a power loss may take the latest) or "unlogged"
    memory,         \* the store that the calls so far have made
    pending,        \* the store that the running batch will make of it, or NoBatch
    disk,           \* the store that a restart would give
    may,            \* the stores one of which a restart after a power loss would give
    excused         \* a fault has cost the directory its promise

vars == <<mode, memory, pending, disk, may, excused>>

Stores == [Keys -> Contents]
EmptyStore == [k \in Keys |-> NoRecord]

Up == mode # "down"
Logged == mode \in {"strict", "lazy"}

-----------------------------------------------------------------------------
(* The disk. *)

\* What is kept is what the session sees, and a restart can tell no worse.
Coherent == disk \in may /\ (Logged => disk = memory)

\* What a step does to the disk, as long as nothing excuses it; and an excuse
\* ends with the disk as good as if there had never been one.
Unless(effect) == IF excused \/ excused' THEN excused' \/ Coherent' ELSE effect

\* The store stays, and may have been synced.
Quiet == disk' = disk /\ (may' = may \/ may' = {disk})

\* The store is s from now on.
Lasting(s) ==
    IF Logged
    THEN disk' = s /\ may' = (IF mode = "lazy" THEN may \union {s} ELSE {s})
    ELSE UNCHANGED <<disk, may>>

-----------------------------------------------------------------------------
(* The calls of a session. *)

Init ==
    /\ mode = "down" /\ memory = EmptyStore /\ pending = NoBatch
    /\ disk = EmptyStore /\ may = {EmptyStore} /\ excused = FALSE

Open ==
    /\ ~Up
    /\ mode' \in {"strict", "lazy", "unlogged"}
    /\ memory' = disk
    /\ UNCHANGED <<pending, disk, may>>
    /\ Unless(TRUE)

Stay == Up /\ UNCHANGED mode

Write ==
    /\ Stay /\ pending = NoBatch /\ pending' = NoBatch
    /\ \E k \in Keys, c \in Contents : memory' = [memory EXCEPT ![k] = c]
    /\ Unless(Lasting(memory'))

Begin ==
    /\ Stay /\ pending = NoBatch /\ pending' \in Stores
    /\ UNCHANGED memory
    /\ Unless(Quiet)

\* All of the batch, or none of it.
Commit ==
    /\ Stay /\ pending # NoBatch /\ pending' = NoBatch
    /\ memory' = pending
    /\ Unless(Lasting(pending))

GiveUp ==
    /\ Stay /\ pending # NoBatch /\ pending' = NoBatch
    /\ UNCHANGED memory
    /\ Unless(Quiet)

\* A call that fails, a part of one, a checkpoint: nothing that anybody sees.
Work ==
    /\ Stay /\ UNCHANGED memory /\ UNCHANGED pending
    /\ Unless(Quiet)

\* A session without a log keeps what it has when it says so.
Save ==
    /\ Stay /\ mode = "unlogged" /\ pending = NoBatch
    /\ UNCHANGED <<memory, pending>>
    /\ Unless(disk' = memory /\ may' = {memory})

-----------------------------------------------------------------------------
(* The end of a session. *)

Down == mode' = "down" /\ memory' = EmptyStore /\ pending' = NoBatch

Leave == Up /\ Down /\ Unless(Quiet)

\* The one call in progress is done, or it is not.
CallsInProgress ==
    IF pending # NoBatch
    THEN {pending}
    ELSE {[memory EXCEPT ![k] = c] : k \in Keys, c \in Contents}

CrashInCall ==
    /\ Logged /\ Down
    /\ Unless(disk' \in {disk} \union CallsInProgress /\ may' = may \union {disk'})

PowerLoss ==
    /\ Down
    /\ Unless(disk' \in may /\ may' = {disk'})

-----------------------------------------------------------------------------
Next ==
    /\ excused' \in BOOLEAN
    /\ \/ Open \/ Leave \/ CrashInCall \/ PowerLoss
       \/ Write \/ Begin \/ Commit \/ GiveUp \/ Work \/ Save

Spec == Init /\ [][Next]_vars
=============================================================================
