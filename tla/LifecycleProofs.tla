-------------------------- MODULE LifecycleProofs --------------------------
(***************************************************************************)
(* Processes that open, close, lose and abandon their handles on one       *)
(* directory lose no record and show no stale one, for any number of       *)
(* processes, records, dimensions and calls: what the code can break       *)
(* itself, it breaks for the reasons in Causes and for no other.           *)
(***************************************************************************)
EXTENDS Lifecycle, TLAPS

Holds(h) == writer = h \/ h \in readers

\* The flock is exclusive for a writer and shared for readers, and a handle has
\* it in the mode in which it was asked for.
Exclusion ==
    /\ \A h \in Handles : (writer = h => Writes(h)) /\ (h \in readers => ~Writes(h))
    /\ writer # NoHandle => readers = {}

\* Only a handle that may write gives a new database its IDENTITY, and a handle
\* that got past IDENTITY has a dimension.
Identified ==
    \A h \in Handles :
        /\ phase[h] = "naming" => Writes(h)
        /\ phase[h] \in {"naming", "identified", "loading", "open", "abandoned", "closed"}
              => dim[h] \in Dims

LockInv == LocksAreHeldInUse /\ Exclusion /\ Identified

IInv == LockInv /\ NothingIsLost /\ OpenHandlesAreCurrent

-----------------------------------------------------------------------------
\* A writer that is past the lock is alone: no other handle is past it.
LEMMA WriterIsAlone ==
    ASSUME LockInv, NEW h \in Handles, Writes(h), Holds(h),
           NEW g \in Handles, Holds(g)
    PROVE  g = h
BY LifecycleAssumption DEF LockInv, Exclusion, Holds

\* Forgetting a handle gives its lock back and leaves the others theirs.
LEMMA ForgetKeepsLocks ==
    ASSUME LockInv, NEW h \in Handles, Forget(h),
           identity' \in Dims \union {"absent", "partial"}, embedder' \in BOOLEAN,
           base' \subseteq Records, log' \subseteq Records, acked' \subseteq Records,
           opens' \in 0..MaxOpens, broken' \subseteq Causes
    PROVE  LockInv'
<1> USE LifecycleAssumption
<1>1. TypeOK /\ h # NoHandle
  BY DEF LockInv, LocksAreHeldInUse
<1>2. TypeOK'
  BY <1>1 DEF TypeOK, Forget, Goto, Set, Unlock, Phases
<1>3. \A g \in Handles : g # h =>
          /\ phase'[g] = phase[g] /\ mode'[g] = mode[g] /\ dim'[g] = dim[g]
          /\ Holds(g)' <=> Holds(g)
          /\ writer' = g <=> writer = g
  BY <1>1 DEF TypeOK, Forget, Goto, Set, Unlock, Holds
<1>4. phase'[h] = "none" /\ ~Holds(h)'
  BY <1>1 DEF TypeOK, Forget, Goto, Set, Unlock, Holds
<1>5. LocksAreHeldInUse'
  BY <1>2, <1>3, <1>4 DEF LockInv, LocksAreHeldInUse, Holds
<1>6. Exclusion'
  BY <1>1, <1>3, <1>4 DEF LockInv, Exclusion, Holds, Writes, Forget, Unlock, TypeOK
<1>7. Identified'
  BY <1>3, <1>4 DEF LockInv, Identified, Writes
<1> QED BY <1>5, <1>6, <1>7 DEF LockInv

\* A step of h that keeps the lock and the mode, and stays where the lock is held.
LEMMA StepKeepsLocks ==
    ASSUME LockInv, NEW h \in Handles, NEW p \in Phases, Goto(h, p), UNCHANGED <<flock, mode>>,
           phase[h] \in {"none", "probed", "closed"} <=> p \in {"none", "probed", "closed"},
           TypeOK', dim' = dim \/ dim' = Set(dim, h, dim'[h]),
           p = "naming" => Writes(h),
           p \in {"naming", "identified", "loading", "open", "abandoned", "closed"}
              => dim'[h] \in Dims
    PROVE  LockInv'
<1>1. TypeOK
  BY DEF LockInv, LocksAreHeldInUse
<1>2. \A g \in Handles : g # h => phase'[g] = phase[g] /\ dim'[g] = dim[g]
  BY <1>1 DEF TypeOK, Goto, Set
<1>3. phase'[h] = p
  BY <1>1 DEF TypeOK, Goto, Set
<1>4. LocksAreHeldInUse'
  BY <1>2, <1>3 DEF LockInv, LocksAreHeldInUse, flock
<1>5. Exclusion'
  BY DEF LockInv, Exclusion, Writes, flock
<1>6. Identified'
  BY <1>2, <1>3 DEF LockInv, Identified, Writes
<1> QED BY <1>4, <1>5, <1>6 DEF LockInv

\* A step that moves no handle and no lock.
LEMMA QuietStepKeepsLocks ==
    ASSUME LockInv, UNCHANGED <<flock, phase, mode, dim>>, TypeOK'
    PROVE  LockInv'
BY DEF LockInv, LocksAreHeldInUse, Exclusion, Identified, Writes, flock

-----------------------------------------------------------------------------
(* Locks. *)

LEMMA LocksStep ==
    ASSUME LockInv, [Next]_vars
    PROVE  LockInv'
<1> USE LifecycleAssumption
<1>0. TypeOK
  BY DEF LockInv, LocksAreHeldInUse
<1>1. ASSUME NEW h \in Handles, NEW m \in Modes, NEW d \in Dims \union {NoDim}, Probe(h, m, d)
      PROVE  LockInv'
  <2>1. TypeOK'
    BY <1>0, <1>1 DEF TypeOK, Probe, Goto, Set, Phases, disk, flock
  <2>2. ~Holds(h) /\ phase'[h] = "probed" /\ h # NoHandle
    BY <1>0, <1>1 DEF TypeOK, Probe, Goto, Set, LockInv, LocksAreHeldInUse, Holds
  <2>3. \A g \in Handles : g # h => phase'[g] = phase[g] /\ dim'[g] = dim[g] /\ mode'[g] = mode[g]
    BY <1>0, <1>1 DEF TypeOK, Probe, Goto, Set
  <2>4. UNCHANGED flock
    BY <1>1 DEF Probe
  <2>5. LocksAreHeldInUse'
    BY <2>1, <2>2, <2>3, <2>4 DEF LockInv, LocksAreHeldInUse, flock, Holds
  <2>6. Exclusion'
    BY <2>2, <2>3, <2>4 DEF LockInv, Exclusion, Writes, flock, Holds
  <2>7. Identified'
    BY <2>2, <2>3 DEF LockInv, Identified, Writes
  <2> QED BY <2>5, <2>6, <2>7 DEF LockInv
<1>2. ASSUME NEW h \in Handles, Lock(h)
      PROVE  LockInv'
  <2>1. CASE ~LockFree(h)
    BY <1>0, <1>2, <2>1, ForgetKeepsLocks DEF Lock, TypeOK, disk
  <2>2. CASE LockFree(h)
    <3>1. TypeOK'
      BY <1>0, <1>2, <2>2 DEF TypeOK, Lock, Goto, Set, Phases, disk
    <3>2. /\ phase'[h] = "locked" /\ UNCHANGED <<mode, dim>> /\ h # NoHandle
          /\ IF Writes(h) THEN writer' = h /\ readers' = readers
                          ELSE readers' = readers \union {h} /\ writer' = writer
      BY <1>0, <1>2, <2>2 DEF TypeOK, Lock, Goto, Set
    <3>3. \A g \in Handles : g # h => phase'[g] = phase[g]
      BY <1>0, <1>2, <2>2 DEF TypeOK, Lock, Goto, Set
    <3>4. LocksAreHeldInUse'
      BY <2>2, <3>1, <3>2, <3>3 DEF LockInv, LocksAreHeldInUse, LockFree
    <3>5. Exclusion'
      BY <2>2, <3>2 DEF LockInv, Exclusion, Writes, LockFree
    <3>6. Identified'
      BY <3>2, <3>3 DEF LockInv, Identified, Writes
    <3> QED BY <3>4, <3>5, <3>6 DEF LockInv
  <2> QED BY <2>1, <2>2
<1>3. ASSUME NEW h \in Handles, ReadIdentity(h)
      PROVE  LockInv'
  <2>1. CASE ~(identity \in Dims /\ dim[h] \in {NoDim, identity})
    BY <1>0, <1>3, <2>1, ForgetKeepsLocks DEF ReadIdentity, TypeOK, disk
  <2>2. CASE identity \in Dims /\ dim[h] \in {NoDim, identity}
    <3>1. TypeOK' /\ dim'[h] \in Dims /\ dim' = Set(dim, h, dim'[h])
      BY <1>0, <1>3, <2>2 DEF TypeOK, ReadIdentity, Goto, Set, Phases, disk, flock
    <3> QED BY <1>3, <2>2, <3>1, StepKeepsLocks DEF ReadIdentity, Phases
  <2> QED BY <2>1, <2>2
<1>4. ASSUME NEW h \in Handles, CannotCreate(h)
      PROVE  LockInv'
  BY <1>0, <1>4, ForgetKeepsLocks DEF CannotCreate, TypeOK, disk
<1>5. ASSUME NEW h \in Handles, CreateIdentity(h)
      PROVE  LockInv'
  <2>1. TypeOK' /\ dim'[h] \in Dims
    BY <1>0, <1>5 DEF TypeOK, CreateIdentity, CanCreate, Goto, Set, Phases, Causes, flock
  <2> QED BY <1>5, <2>1, StepKeepsLocks DEF CreateIdentity, CanCreate, Phases
<1>6. ASSUME NEW h \in Handles, WriteIdentity(h)
      PROVE  LockInv'
  <2>1. TypeOK' /\ dim'[h] \in Dims
    BY <1>0, <1>6 DEF TypeOK, WriteIdentity, Goto, Set, Phases, flock, LockInv, Identified
  <2> QED BY <1>6, <2>1, StepKeepsLocks DEF WriteIdentity, Phases
<1>7. ASSUME NEW h \in Handles, ResolveEmbedder(h)
      PROVE  LockInv'
  <2>1. CASE Forget(h)
    BY <1>0, <1>7, <2>1, ForgetKeepsLocks DEF ResolveEmbedder, TypeOK
  <2>2. CASE /\ text' = Set(text, h, embedder \/ ~existing[h])
             /\ embedder' = (embedder \/ (~existing[h] /\ Writes(h)))
             /\ Goto(h, "loading")
             /\ UNCHANGED <<flock, mode, dim, existing, mem>>
    <3> DEFINE found == embedder \/ ~existing[h]
    <3>1. embedder' \in BOOLEAN /\ found \in BOOLEAN
      BY <2>2
    <3> HIDE DEF found
    <3>2. text' \in [Handles -> BOOLEAN]
      BY <1>0, <2>2, <3>1 DEF TypeOK, Set, found
    <3>3. TypeOK' /\ dim'[h] \in Dims
      BY <1>0, <1>7, <2>2, <3>1, <3>2
      DEF TypeOK, ResolveEmbedder, Goto, Set, Phases, flock, LockInv, Identified
    <3> QED BY <1>7, <2>2, <3>3, StepKeepsLocks DEF ResolveEmbedder, Phases
  <2> QED BY <1>7, <2>1, <2>2 DEF ResolveEmbedder
<1>8. ASSUME NEW h \in Handles, Load(h)
      PROVE  LockInv'
  <2>1. TypeOK' /\ dim'[h] \in Dims
    BY <1>0, <1>8 DEF TypeOK, Load, Loaded, Goto, Set, Phases, disk, flock, LockInv, Identified
  <2> QED BY <1>8, <2>1, StepKeepsLocks DEF Load, Phases
<1>9. ASSUME NEW h \in Handles, LoadFails(h)
      PROVE  LockInv'
  <2>1. base' \subseteq Records /\ broken' \subseteq Causes
    BY <1>0, <1>9 DEF TypeOK, LoadFails, Causes
  <2> QED BY <1>0, <1>9, <2>1, ForgetKeepsLocks DEF LoadFails, TypeOK
<1>10. ASSUME NEW h \in Handles, NEW i \in Ids, Add(h, i)
       PROVE  LockInv'
  <2>1. <<i, dim[h]>> \in Records
    BY <1>10 DEF Add, Records, LockInv, Identified
  <2>2. TypeOK'
    BY <1>0, <1>10, <2>1 DEF TypeOK, Add, Set, flock
  <2> QED BY <1>10, <2>2, QuietStepKeepsLocks DEF Add
<1>11. ASSUME NEW h \in Handles, Checkpoint(h)
       PROVE  LockInv'
  <2>1. base' \subseteq Records /\ log' \subseteq Records
    BY <1>0, <1>11 DEF TypeOK, Checkpoint, CheckpointLocked
  <2>2. broken' \subseteq Causes
    BY <1>0, <1>11 DEF TypeOK, Checkpoint, Causes
  <2>3. TypeOK'
    BY <1>0, <1>11, <2>1, <2>2 DEF TypeOK, Checkpoint, flock, handle
  <2> QED BY <1>11, <2>3, QuietStepKeepsLocks DEF Checkpoint, handle
<1>12. ASSUME NEW h \in Handles, Close(h)
       PROVE  LockInv'
  <2>1. TypeOK' /\ h # NoHandle
    BY <1>0, <1>12 DEF TypeOK, Close, CheckpointLocked, ReleaseOnClose, Unlock, Goto, Set, Phases
  <2>2. phase'[h] = "closed" /\ ~Holds(h)' /\ UNCHANGED <<mode, dim>> /\ phase[h] = "open"
    BY <1>0, <1>12 DEF TypeOK, Close, ReleaseOnClose, Unlock, Goto, Set, Holds
  <2>3. \A g \in Handles : g # h => phase'[g] = phase[g] /\ (Holds(g)' <=> Holds(g))
                                    /\ (writer' = g <=> writer = g)
    BY <1>0, <1>12 DEF TypeOK, Close, ReleaseOnClose, Unlock, Goto, Set, Holds
  <2>4. LocksAreHeldInUse'
    BY <2>1, <2>2, <2>3 DEF LockInv, LocksAreHeldInUse, Holds
  <2>5. Exclusion'
    BY <1>12, <2>1, <2>2, <2>3 DEF LockInv, Exclusion, Holds, Writes, Close, ReleaseOnClose, Unlock
  <2>6. Identified'
    BY <2>2, <2>3 DEF LockInv, Identified, Writes
  <2> QED BY <2>4, <2>5, <2>6 DEF LockInv
<1>13. ASSUME NEW h \in Handles, Abandon(h)
       PROVE  LockInv'
  <2>1. TypeOK' /\ dim'[h] \in Dims
    BY <1>0, <1>13 DEF TypeOK, Abandon, Goto, Set, Phases, disk, flock, LockInv, Identified
  <2> QED BY <1>13, <2>1, StepKeepsLocks DEF Abandon, Phases
<1>14. ASSUME NEW h \in Handles, Destroy(h)
       PROVE  LockInv'
  <2>1. base' \subseteq Records /\ log' \subseteq Records
    BY <1>0, <1>14 DEF TypeOK, Destroy, CheckpointLocked
  <2> QED BY <1>0, <1>14, <2>1, ForgetKeepsLocks DEF Destroy, TypeOK
<1>15. ASSUME NEW h \in Handles, Crash(h)
       PROVE  LockInv'
  BY <1>0, <1>15, ForgetKeepsLocks DEF Crash, TypeOK, disk
<1>16. CASE UNCHANGED vars
  <2>1. TypeOK'
    BY <1>0, <1>16 DEF TypeOK, vars, disk, flock, handle
  <2> QED BY <1>16, <2>1, QuietStepKeepsLocks DEF vars, handle
<1> QED
  BY <1>1, <1>2, <1>3, <1>4, <1>5, <1>6, <1>7, <1>8, <1>9, <1>10, <1>11, <1>12, <1>13,
     <1>14, <1>15, <1>16 DEF Next

LEMMA LocksInit ==
    ASSUME Init
    PROVE  LockInv
<1>1. opens \in 0..MaxOpens
  BY LifecycleAssumption DEF Init
<1>2. embedder \in BOOLEAN /\ existing \in [Handles -> BOOLEAN] /\ text \in [Handles -> BOOLEAN]
  BY DEF Init
<1>3. TypeOK
  BY <1>1, <1>2 DEF Init, TypeOK, Phases
<1> QED
  BY <1>3, LifecycleAssumption DEF Init, LockInv, LocksAreHeldInUse, Exclusion, Identified

-----------------------------------------------------------------------------
(* Records. *)

Shows(h) == phase[h] \in {"open", "abandoned"}

\* Nothing in the directory changed, and no handle shows what it did not show.
LEMMA SameRecords ==
    ASSUME NothingIsLost, OpenHandlesAreCurrent, Stored' = Stored, acked' = acked,
           broken' = {} => broken = {},
           \A g \in Handles : Shows(g)' => (Shows(g) /\ mem'[g] = mem[g]) \/ mem'[g] = Stored
    PROVE  NothingIsLost' /\ OpenHandlesAreCurrent'
BY DEF NothingIsLost, OpenHandlesAreCurrent, Shows

\* Forgetting a handle shows nothing.
LEMMA ForgottenShowsNothing ==
    ASSUME TypeOK, NEW h \in Handles, Forget(h), NEW g \in Handles, Shows(g)'
    PROVE  Shows(g) /\ mem'[g] = mem[g]
BY DEF TypeOK, Forget, Goto, Set, Shows

\* A handle that checkpoints in its turn writes what is stored already.
LEMMA CheckpointChangesNothing ==
    ASSUME OpenHandlesAreCurrent, broken = {}, NEW h \in Handles, Shows(h), CheckpointLocked(h)
    PROVE  Stored' = Stored
<1>1. mem[h] = Stored
  BY DEF OpenHandlesAreCurrent, Shows
<1>2. CASE Checkpoints(h)
  BY <1>1, <1>2 DEF CheckpointLocked, Stored, Shows
<1>3. CASE ~Checkpoints(h)
  BY <1>3 DEF CheckpointLocked, Stored
<1> QED BY <1>2, <1>3

LEMMA RecordsStep ==
    ASSUME IInv, [Next]_vars
    PROVE  NothingIsLost' /\ OpenHandlesAreCurrent'
<1> USE DEF IInv
<1>0. TypeOK
  BY DEF LockInv, LocksAreHeldInUse
<1>1. ASSUME NEW h \in Handles, NEW m \in Modes, NEW d \in Dims \union {NoDim}, Probe(h, m, d)
      PROVE  NothingIsLost' /\ OpenHandlesAreCurrent'
  BY <1>0, <1>1, SameRecords DEF Probe, TypeOK, Goto, Set, Shows, Stored, disk
<1>2. ASSUME NEW h \in Handles, Lock(h)
      PROVE  NothingIsLost' /\ OpenHandlesAreCurrent'
  BY <1>0, <1>2, SameRecords, ForgottenShowsNothing
  DEF Lock, TypeOK, Goto, Set, Shows, Stored, disk
<1>3. ASSUME NEW h \in Handles, ReadIdentity(h)
      PROVE  NothingIsLost' /\ OpenHandlesAreCurrent'
  BY <1>0, <1>3, SameRecords, ForgottenShowsNothing
  DEF ReadIdentity, TypeOK, Goto, Set, Shows, Stored, disk
<1>4. ASSUME NEW h \in Handles, CannotCreate(h)
      PROVE  NothingIsLost' /\ OpenHandlesAreCurrent'
  BY <1>0, <1>4, SameRecords, ForgottenShowsNothing DEF CannotCreate, Stored, disk
<1>5. ASSUME NEW h \in Handles, CreateIdentity(h)
      PROVE  NothingIsLost' /\ OpenHandlesAreCurrent'
  BY <1>0, <1>5, SameRecords DEF CreateIdentity, TypeOK, Goto, Set, Shows, Stored
<1>6. ASSUME NEW h \in Handles, WriteIdentity(h)
      PROVE  NothingIsLost' /\ OpenHandlesAreCurrent'
  BY <1>0, <1>6, SameRecords DEF WriteIdentity, TypeOK, Goto, Set, Shows, Stored
<1>7. ASSUME NEW h \in Handles, ResolveEmbedder(h)
      PROVE  NothingIsLost' /\ OpenHandlesAreCurrent'
  BY <1>0, <1>7, SameRecords, ForgottenShowsNothing
  DEF ResolveEmbedder, TypeOK, Goto, Set, Shows, Stored
<1>8. ASSUME NEW h \in Handles, Load(h)
      PROVE  NothingIsLost' /\ OpenHandlesAreCurrent'
  BY <1>0, <1>8, SameRecords DEF Load, Loaded, TypeOK, Goto, Set, Shows, Stored, disk
<1>9. ASSUME NEW h \in Handles, LoadFails(h)
      PROVE  NothingIsLost' /\ OpenHandlesAreCurrent'
  <2>1. CASE broken' = broken /\ Stored' = Stored
    BY <1>0, <1>9, <2>1, SameRecords, ForgottenShowsNothing DEF LoadFails
  <2>2. CASE broken' # {}
    BY <2>2 DEF NothingIsLost, OpenHandlesAreCurrent
  <2> QED BY <1>9, <2>1, <2>2 DEF LoadFails, Stored
<1>10. ASSUME NEW h \in Handles, NEW i \in Ids, Add(h, i)
       PROVE  NothingIsLost' /\ OpenHandlesAreCurrent'
  <2> DEFINE r == <<i, dim[h]>>
  <2>1. /\ Stored' = Stored \union {r} /\ acked' = acked \union {r}
        /\ mem'[h] = mem[h] \union {r} /\ UNCHANGED <<phase, broken>> /\ Shows(h)
        /\ \A g \in Handles : g # h => mem'[g] = mem[g]
    BY <1>0, <1>10 DEF Add, TypeOK, Set, Stored, Shows
  <2> HIDE DEF r
  <2>2. ASSUME NEW g \in Handles, Shows(g)
        PROVE  g = h
    BY <1>10, <2>1, <2>2, WriterIsAlone DEF LockInv, LocksAreHeldInUse, Holds, Shows, Add
  <2> QED BY <2>1, <2>2 DEF NothingIsLost, OpenHandlesAreCurrent, Shows
<1>11. ASSUME NEW h \in Handles, Checkpoint(h)
       PROVE  NothingIsLost' /\ OpenHandlesAreCurrent'
  <2>1. UNCHANGED <<phase, mem, acked>> /\ (broken' = {} => broken = {})
    BY <1>11 DEF Checkpoint, handle
  <2>2. CASE broken' # {}
    BY <2>2 DEF NothingIsLost, OpenHandlesAreCurrent
  <2>3. CASE broken' = {} /\ Shows(h)
    BY <1>11, <2>1, <2>3, CheckpointChangesNothing, SameRecords DEF Checkpoint, Shows
  <2>4. CASE broken' = {} /\ ~Shows(h)
    <3>1. phase[h] = "closed"
      BY <1>11, <2>4 DEF Checkpoint, Shows
    <3>2. base' = base
      BY <1>11, <2>4, <3>1 DEF Checkpoint
    <3>3. log' = log
      BY <1>11, <3>1 DEF Checkpoint, CheckpointLocked
    <3> QED BY <2>1, <3>2, <3>3, SameRecords DEF Stored, Shows
  <2> QED BY <2>2, <2>3, <2>4
<1>12. ASSUME NEW h \in Handles, Close(h)
       PROVE  NothingIsLost' /\ OpenHandlesAreCurrent'
  <2>1. UNCHANGED <<mem, acked, broken>> /\ Shows(h)
        /\ \A g \in Handles : Shows(g)' => Shows(g)
    BY <1>0, <1>12 DEF Close, TypeOK, Goto, Set, Shows
  <2>2. CASE broken # {}
    BY <2>1, <2>2 DEF NothingIsLost, OpenHandlesAreCurrent
  <2>3. CASE broken = {}
    BY <1>12, <2>1, <2>3, CheckpointChangesNothing, SameRecords DEF Close
  <2> QED BY <2>2, <2>3
<1>13. ASSUME NEW h \in Handles, Abandon(h)
       PROVE  NothingIsLost' /\ OpenHandlesAreCurrent'
  BY <1>0, <1>13, SameRecords DEF Abandon, TypeOK, Goto, Set, Shows, Stored, disk
<1>14. ASSUME NEW h \in Handles, Destroy(h)
       PROVE  NothingIsLost' /\ OpenHandlesAreCurrent'
  <2>1. CASE broken # {}
    BY <1>14, <2>1 DEF Destroy, NothingIsLost, OpenHandlesAreCurrent
  <2>2. CASE broken = {} /\ phase[h] = "open"
    BY <1>0, <1>14, <2>2, CheckpointChangesNothing, SameRecords, ForgottenShowsNothing
    DEF Destroy, Shows
  <2>3. CASE phase[h] # "open"
    BY <1>0, <1>14, <2>3, SameRecords, ForgottenShowsNothing DEF Destroy, Stored
  <2> QED BY <2>1, <2>2, <2>3
<1>15. ASSUME NEW h \in Handles, Crash(h)
       PROVE  NothingIsLost' /\ OpenHandlesAreCurrent'
  BY <1>0, <1>15, SameRecords, ForgottenShowsNothing DEF Crash, Stored, disk
<1>16. CASE UNCHANGED vars
  BY <1>16, SameRecords DEF vars, disk, handle, Stored, Shows
<1> QED
  BY <1>1, <1>2, <1>3, <1>4, <1>5, <1>6, <1>7, <1>8, <1>9, <1>10, <1>11, <1>12, <1>13,
     <1>14, <1>15, <1>16 DEF Next

-----------------------------------------------------------------------------
(* The theorems. *)

\* The locks of handles that hold them and the records of handles that show them
\* are one inductive invariant: each part needs the other.
THEOREM Invariant == Spec => []IInv
<1>1. Init => IInv
  BY LocksInit DEF Init, IInv, NothingIsLost, OpenHandlesAreCurrent, Stored
<1>2. IInv /\ [Next]_vars => IInv'
  BY LocksStep, RecordsStep DEF IInv
<1> QED BY <1>1, <1>2, PTL DEF Spec

\* open(), whichever way it fails, and close(), abandon() and destruction leave
\* a lock exactly under the handles that can use one.
THEOREM LocksAreNotLeaked == Spec => []LocksAreHeldInUse
<1>1. IInv => LocksAreHeldInUse
  BY DEF IInv, LockInv
<1> QED BY <1>1, Invariant, PTL

\* What add() acknowledged to any process is in the directory.
THEOREM NoRecordIsLost == Spec => []NothingIsLost
<1>1. IInv => NothingIsLost
  BY DEF IInv
<1> QED BY <1>1, Invariant, PTL

\* A reader or a writer that is open shows what is on disk.
THEOREM HandlesStayCurrent == Spec => []OpenHandlesAreCurrent
<1>1. IInv => OpenHandlesAreCurrent
  BY DEF IInv
<1> QED BY <1>1, Invariant, PTL

\* A step that changes the directory is one of the lock's holder, or the
\* checkpoint of a handle that was closed.
LEMMA WritersHoldTheLock ==
    ASSUME LockInv, [Next]_vars, disk' # disk
    PROVE  \/ writer # NoHandle /\ OnlyItMoves(writer)
           \/ "stale_handle" \in broken'
<1> USE LifecycleAssumption
<1>1. \A h \in Handles : phase[h] \notin {"none", "probed", "closed"} => Holds(h)
  BY DEF LockInv, LocksAreHeldInUse, Holds
<1>2. DOMAIN phase = Handles /\ DOMAIN mem = Handles
  BY DEF LockInv, LocksAreHeldInUse, TypeOK
<1>3. SUFFICES ASSUME "stale_handle" \notin broken'
               PROVE  \E h \in Handles : Writes(h) /\ Holds(h) /\ OnlyItMoves(h)
  BY DEF LockInv, Exclusion, Holds
<1>4. PICK h \in Handles :
          \/ \E m \in Modes, d \in Dims \union {NoDim} : Probe(h, m, d)
          \/ Lock(h) \/ ReadIdentity(h) \/ CannotCreate(h)
          \/ CreateIdentity(h) \/ WriteIdentity(h)
          \/ ResolveEmbedder(h) \/ Load(h) \/ LoadFails(h)
          \/ \E i \in Ids : Add(h, i)
          \/ Checkpoint(h) \/ Close(h) \/ Abandon(h) \/ Destroy(h)
          \/ Crash(h)
  BY DEF Next, vars
<1>5. /\ \A p : Goto(h, p) => \A g \in Handles \ {h} : phase'[g] = phase[g]
      /\ \A M : mem' = Set(mem, h, M) => \A g \in Handles \ {h} : mem'[g] = mem[g]
      /\ Forget(h) => OnlyItMoves(h)
  BY <1>2 DEF Goto, Set, Forget, OnlyItMoves
<1>6. CASE \/ \E m \in Modes, d \in Dims \union {NoDim} : Probe(h, m, d)
           \/ Lock(h) \/ ReadIdentity(h) \/ CannotCreate(h) \/ Load(h) \/ Abandon(h) \/ Crash(h)
  BY <1>6 DEF Probe, Lock, ReadIdentity, CannotCreate, Load, Abandon, Crash, disk
<1>7. CASE CreateIdentity(h) \/ WriteIdentity(h)
  <2>1. Writes(h) /\ Holds(h)
    BY <1>1, <1>7 DEF CreateIdentity, CanCreate, WriteIdentity, LockInv, Identified
  <2>2. OnlyItMoves(h)
    BY <1>5, <1>7 DEF CreateIdentity, WriteIdentity, OnlyItMoves
  <2> QED BY <2>1, <2>2
<1>8. CASE ResolveEmbedder(h)
  <2>1. ~Writes(h) => UNCHANGED disk
    BY <1>8 DEF ResolveEmbedder, disk, LockInv, LocksAreHeldInUse, TypeOK
  <2>2. OnlyItMoves(h)
    BY <1>5, <1>8 DEF ResolveEmbedder, OnlyItMoves
  <2> QED BY <1>1, <1>8, <2>1, <2>2 DEF ResolveEmbedder
<1>9. CASE LoadFails(h)
  <2>1. OnlyItMoves(h)
    BY <1>5, <1>9 DEF LoadFails
  <2> QED BY <1>1, <1>9, <2>1 DEF LoadFails, disk
<1>10. CASE \E i \in Ids : Add(h, i)
  <2>1. OnlyItMoves(h)
    BY <1>5, <1>10 DEF Add, OnlyItMoves
  <2> QED BY <1>1, <1>10, <2>1 DEF Add
<1>11. CASE Checkpoint(h)
  <2>1. OnlyItMoves(h)
    BY <1>11 DEF Checkpoint, handle, OnlyItMoves
  <2>2. phase[h] # "closed" /\ Writes(h)
    BY <1>3, <1>11 DEF Checkpoint, CheckpointLocked, Checkpoints, disk
  <2> QED BY <1>1, <1>11, <2>1, <2>2 DEF Checkpoint
<1>12. CASE Close(h) \/ Destroy(h)
  <2>1. OnlyItMoves(h)
    BY <1>5, <1>12 DEF Close, Destroy, OnlyItMoves
  <2>2. phase[h] = "open" /\ Writes(h)
    BY <1>12 DEF Close, Destroy, CheckpointLocked, Checkpoints, disk
  <2> QED BY <1>1, <2>1, <2>2
<1> QED BY <1>4, <1>6, <1>7, <1>8, <1>9, <1>10, <1>11, <1>12

\* Nobody writes to the directory without the exclusive lock, or beside the handle
\* that holds it, but a handle that was closed, and then the run says so.
THEOREM WritesAreExclusive == Spec => OnlyTheLockHolderWrites
<1>1. IInv /\ [Next]_vars =>
        [disk' # disk => \/ writer # NoHandle /\ OnlyItMoves(writer)
                        \/ "stale_handle" \in broken']_vars
  BY WritersHoldTheLock DEF IInv
<1> QED BY <1>1, Invariant, PTL DEF Spec, OnlyTheLockHolderWrites
=============================================================================
