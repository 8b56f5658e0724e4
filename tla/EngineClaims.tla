---------------------------- MODULE EngineClaims ----------------------------
(***************************************************************************)
(* What the headers and the documents of the engine say of it without the  *)
(* exemptions of Engine.  Each claim below fails in the run that checks    *)
(* it: the run shows the shortest way in which the code comes short.       *)
(***************************************************************************)
EXTENDS MCEngine

\* RecoverySound with one of its exemptions taken away.
KeptDespite(causes) == forfeited \subseteq causes => Recovered \in allowed

\* storage/WAL.hpp:16: "every mutation is appended and (unless durability is
\* relaxed) fsync'd before it is acknowledged, so writes survive [...] Truncated/
\* corrupt tail records are detected via CRC32C and cleanly dropped".  open()
\* reads up to the torn record and appends behind it, where no replay looks.
WritesAfterATornTailSurvive == KeptDespite({"behind_torn"})

\* docs/architecture/runtime-flow.md:382: "No committed data loss: All writes that
\* were acknowledged (i.e., WAL appended + flushed) are recovered."  A begin
\* marker without its commit stays in the log; what is appended behind it by
\* later calls belongs, for the replay, to a batch that never ended.
WritesAfterAnAbortedBatchSurvive == KeptDespite({"dead_window"})

\* elips.hpp:492: "Applies every enqueued op or none: a failure partway through
\* [...] undoes the ops already applied and rethrows."  The commit marker is
\* appended after the try block that undoes.
FailedCommitAppliesNothing ==
    Idle /\ forfeited \subseteq {"failed_marker"} => mem = live

\* docs/storage.md:80: "`checkpoint()` writes the current logical state to disk
\* and truncates the WAL."  Without a WAL object nothing truncates the log that
\* an earlier session left, and the next open() replays it over the snapshot.
EphemeralCheckpointIsFinal == KeptDespite({"stale_log"})

\* docs/storage.md:80, again: the removal of the manifest is allowed to fail in
\* silence, the log is truncated all the same, and the next open() prefers the
\* manifest that the snapshot was to replace.
SnapshotReplacesTheManifest == KeptDespite({"stale_manifest"})

\* storage/WAL.hpp:77: "Force any buffered records to stable storage (used before
\* checkpointing and by relaxed durability on close)."  Nobody calls sync(): a
\* power loss between the rename and the truncation leaves a prefix of the old
\* log to be replayed over the newer snapshot, and so a store that never was.
RelaxedRecoversAStoreThatWas == KeptDespite({"unsynced_log"})

\* storage/WAL.hpp:17: "writes survive both a process crash and an OS crash /
\* power loss before the next checkpoint".  The constructor creates wal.log
\* and does not sync the directory that names it.
FirstWritesSurvivePowerLoss == KeptDespite({"unlinked_log"})
=============================================================================
