-------------------------- MODULE LifecycleClaims --------------------------
(***************************************************************************)
(* What the headers and the documents say of the directory, without the    *)
(* exemptions of Lifecycle.  Each claim fails in the run that checks it.   *)
(***************************************************************************)
EXTENDS MCLifecycle

\* docs/cpp/internals/storage-engine.md:16: "IDENTITY       immutable configuration
\* record".  Two first openers find no IDENTITY; the second gets the lock when
\* the first is done, and writes its own over it.
IdentityIsImmutable == [][(identity \in Dims) => identity' = identity]_vars

\* docs/architecture/runtime-flow.md:384: "Clean restart: The database is in a
\* consistent state after recovery".  A process that dies inside write_identity
\* leaves an IDENTITY that every later open() takes for corrupt.
IdentityIsNeverHalf ==
    identity = "partial" => \E h \in Handles : phase[h] = "naming"

\* docs/architecture/runtime-flow.md:382: "No committed data loss: All writes that
\* were acknowledged (i.e., WAL appended + flushed) are recovered."  An open()
\* that fails half way runs the destructor of what it has loaded, and that
\* publishes it.
FailedOpensLoseNothing == broken \subseteq {"failed_open"} => acked \subseteq Stored

\* kernel/LockManager.hpp:17: "RAII advisory file lock enforcing the single-writer
\* / multi-reader contract across processes sharing a database directory."
\* checkpoint() on a handle that was closed writes without the lock.
OnlyTheLockHolderPublishes == [][base' # base => writer # NoHandle]_vars

\* docs/architecture/local-embedding-system.md:3: "New databases attach the built-in
\* local embedder automatically [...] rehydrated from local storage on reopen."
\* A creation that stops between IDENTITY and the manifest leaves a database
\* that is not new any more and has no embedder.
DatabasesHaveTheirEmbedder ==
    \A h \in Handles : phase[h] = "open" => text[h]
=============================================================================
