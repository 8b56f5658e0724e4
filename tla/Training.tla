------------------------------ MODULE Training ------------------------------
(***************************************************************************)
(* A Collection on disk, and what training does to it: a published state   *)
(* with or without a codebook, and behind it a log of vectors that are not *)
(* encoded yet.  Publishing reads the codebook first and the records after *)
(* it, under two locks, and a call of Collection::train() fits in between. *)
(***************************************************************************)
EXTENDS Collection

CONSTANTS
    MaxLog  \* bound of the model

ASSUME TrainingAssumption == MaxLog \in Nat

VARIABLES
    base,       \* the published state: is there a codebook, and the records
    log,        \* entries of wal.log since then
    step,       \* of checkpoint_locked(): "idle", "records", "publish", "reset"
    image,      \* what is being written
    training,   \* is the checkpoint part of Database::train()
    trained,    \* auxiliary: has a Database::train() returned
    races       \* auxiliary: what has come between the steps of a checkpoint

vars == <<collection, base, log, step, image, training, trained, races>>

State(codebook, records) == [codebook |-> codebook, records |-> records]
Insert(id, at, payload) == [id |-> id, at |-> at, payload |-> payload]
Delete(id) == [id |-> id, at |-> NoPlace]

-----------------------------------------------------------------------------
(* open() *)

\* place_record() throws at a code without a codebook.
Readable(s) == \A id \in Ids :
    s.records[id] # NoRecord => (s.records[id].coded => s.codebook)

\* Mutant: the log is replayed before the codebook is attached.
ReplayedBare(c, entry) ==
    IF entry.at = NoPlace THEN Erased(c, entry.id)
    ELSE With(c, entry.id, [at |-> entry.at, payload |-> entry.payload, coded |-> FALSE])

\* Codebook, records, log, in this order.
Replayed(c, entry) ==
    IF entry.at = NoPlace THEN Erased(c, entry.id) ELSE Placed(c, entry.id, entry.at, entry.payload)

Recovered ==
    FoldLeft(Replayed,
             Reopened([EmptyCollection(collection.accelerated) EXCEPT
                          !.trained = base.codebook, !.records = base.records]),
             log)

-----------------------------------------------------------------------------
TrainingInit ==
    /\ collection = EmptyCollection(FALSE)
    /\ base = State(FALSE, collection.records) /\ image = base
    /\ log = <<>> /\ step = "idle"
    /\ training = FALSE /\ trained = FALSE /\ races = {}

\* What is logged behind the copy of the records goes with the truncation.
Races(s) == IF s \in {"publish", "reset"} THEN {"truncated"} ELSE {}

Logged(entry) ==
    /\ Len(log) < MaxLog
    /\ log' = Append(log, entry)
    /\ races' = races \union Races(step)
    /\ UNCHANGED <<base, step, image, training, trained>>

\* The log gets the vector and not its code.
AddAndLog(id, at, payload) == Add(id, at, payload) /\ Logged(Insert(id, at, payload))
RemoveAndLog(id) == RemoveId(id) /\ Logged(Delete(id))

\* Collection::train(), called by a client: no checkpoint follows.
TrainInMemory ==
    /\ Train
    /\ races' = IF step = "records" /\ ~image.codebook THEN races \union {"half_image"} ELSE races
    /\ UNCHANGED <<base, log, step, image, training, trained>>

\* checkpoint(): the codebook is read without the lock of the collection.
StartCheckpoint ==
    /\ step = "idle"
    /\ step' = "records" /\ training' = FALSE
    /\ image' = [image EXCEPT !.codebook = collection.trained]
    /\ UNCHANGED <<collection, base, log, trained, races>>

\* Mutant: Database::train() returns without a checkpoint.
OnlyTrain == Train /\ trained' = TRUE /\ UNCHANGED <<base, log, step, image, training, races>>

\* Mutant: the codebook that is written is the one from before.
TrainThenOldCodebook ==
    /\ step = "idle"
    /\ Train
    /\ step' = "records" /\ training' = TRUE
    /\ image' = [image EXCEPT !.codebook = FALSE]
    /\ UNCHANGED <<base, log, trained, races>>

\* Database::train(): the lock of the database is held until the end.
StartTraining ==
    /\ step = "idle"
    /\ Train
    /\ step' = "records" /\ training' = TRUE
    /\ image' = [image EXCEPT !.codebook = TRUE]
    /\ UNCHANGED <<base, log, trained, races>>

CopyRecords ==
    /\ step = "records"
    /\ step' = "publish"
    /\ image' = [image EXCEPT !.records = collection.records]
    /\ UNCHANGED <<collection, base, log, training, trained, races>>

Publish ==
    /\ step = "publish"
    /\ step' = "reset"
    /\ base' = image
    /\ UNCHANGED <<collection, log, image, training, trained, races>>

Reset ==
    /\ step = "reset"
    /\ step' = "idle" /\ log' = <<>>
    /\ trained' = (trained \/ training)
    /\ UNCHANGED <<collection, base, image, training, races>>

\* The checkpoint throws, and with it train(), at any of its steps.
CheckpointFails ==
    /\ step # "idle"
    /\ step' = "idle"
    /\ UNCHANGED <<collection, base, log, image, training, trained, races>>

\* Collections that overlapping calls have cost something are not followed up.
CrashAndOpen ==
    /\ races = {}
    /\ collection' = Recovered
    /\ step' = "idle"
    /\ UNCHANGED <<base, log, image, training, trained, races>>

TrainingNext ==
    \/ \E id \in Ids : RemoveAndLog(id) \/ \E at \in PlacesOf[id], p \in Payloads : AddAndLog(id, at, p)
    \/ TrainInMemory \/ StartTraining \/ StartCheckpoint
    \/ CopyRecords \/ Publish \/ Reset \/ CheckpointFails
    \/ CrashAndOpen

TrainingSpec == TrainingInit /\ [][TrainingNext]_vars

-----------------------------------------------------------------------------
(* Properties. *)

StateType ==
    [codebook : BOOLEAN, records : [Ids -> RecordType \union {NoRecord}]]

TrainingTypeOK ==
    /\ TypeOK
    /\ base \in StateType /\ image \in StateType
    /\ Len(log) <= MaxLog
    /\ step \in {"idle", "records", "publish", "reset"}
    /\ {training, trained} \subseteq BOOLEAN
    /\ races \subseteq {"truncated", "half_image"}

\* No state on disk holds codes whose codebook was never written, and none is half
\* encoded: all of its records are codes or none is, whichever step of train() a
\* crash or a failure interrupts.
NoPartialQuantize ==
    /\ TrainingTypeOK
    /\ "half_image" \notin races =>
          /\ Readable(base)
          /\ \A id \in Ids : base.records[id] # NoRecord => base.records[id].coded = base.codebook

\* What a crash would leave is the collection that the client has: the same codes
\* if the codebook is on disk, and otherwise the vectors that these codes encode.
RecoveredIsTheCollection ==
    races = {} =>
        IF collection.trained /\ ~base.codebook
        THEN Trained(Recovered) = collection
        ELSE Recovered = collection

\* Once Database::train() has returned, no crash makes vectors out of the codes.
TrainingIsDurable == trained /\ "half_image" \notin races => base.codebook
=============================================================================
