# A TLA+ development of elips

elips is an embedded vector database in C++, with a documentation site in
TypeScript. This directory holds TLA+ models of the parts whose correctness
depends on the order of things: the write-ahead log and its replay, the storage
engine above it, threads that share a database, processes that share a
directory, a collection with its indexes, its searches and its training, the
HNSW graph, the batcher, the memory manager and the hybrid index of the GPU
engine, and the browser side of the site. TLC checks the models on small
instances; TLAPS proves the safety properties of all of them, for every value of
the constants.

## 1. The system and its parts

| Part | Source | State it keeps | Operations |
|---|---|---|---|
| Write-ahead log | `src/WAL.cpp`, `storage/WAL.hpp` | the file `wal.log`, its descriptor | append (insert, erase, begin, commit), sync, reset, replay |
| Storage engine | `src/Database.cpp`, `elips.hpp`, `storage/FileSync.hpp` | the collections, the log, snapshot or manifest with segments, `closed_` | `open`, `begin_transaction`/`commit`, `checkpoint`, `compact`, `vacuum`, `train`, `close`, destruction |
| Collection | `src/Database.cpp` | `records_`, a vector index, a metadata index, `read_only_`, `sealed_` | `add`, `add_many`, `get`, `remove`, `search`, `scan`, `hybrid_search`, `rebuild_index`, `vacuum`, `train` |
| Process lock, identity | `src/LockManager.cpp`, `Database.cpp` | `.lock`, `IDENTITY`, the embedder's manifest | exclusive or shared `flock`, create or check identity |
| Quantization | `src/quant_engine/` | codebooks | train, encode, decode, look-up distance |
| Indexes | `src/Index*.cpp` | graph, lists, tombstones | `add_with_ids`, `remove`, `search`, `vacuum` |
| Metadata filter | `src/Filter.cpp`, `src/MetadataFilterIndex.cpp` | inverted index | `insert`, `remove`, candidates; `matches` |
| EQL | `src/EQL*.cpp`, `src/QueryExecutor.cpp` | none | lex, parse, execute |
| Text embedder | `src/LocalTextEmbedder.cpp` | none | embed |
| GPU query batcher | `gpu_engine/QueryBatcher.cpp` | pending queries, a worker, promises | `start`, `enqueue`, `flush`, `stop`, destruction |
| GPU memory | `gpu_engine/GpuMemoryManager.cpp`, `GpuMemoryPool.cpp` | roots, free and live blocks, ceiling | `allocate`, `deallocate`, `initialize`, `shutdown` |
| GPU indexes | `gpu_engine/Gpu*Index.cpp` | lists, shards, a CPU index to fall back on | the operations of an index |
| Site: shell | `elips_docs/src/components/Chrome.tsx`, `Shortcuts.tsx`, `AskAI.tsx` | history, `elips-theme`, the theme button, search text and group filter, chords | links, reload, back and forward, search, theme, keys |
| Site: chat | `elips_docs/src/routes/chat.tsx`, `routes/api/chat.ts`, `components/Code.tsx` | transcript, requests under way, their status | submit, suggest, stop, new chat, stream, highlight |
| Wrappers | `src/c_api/`, `bindings/`, `cli/` | none | the calls above |

How they interact. A client opens a directory and gets a `Database`, which holds
the process lock, the log and the collections. `Collection::add` and
`Collection::remove` append to the log, then change the record store and both
indexes, under the collection's own lock. `Transaction::commit` holds the
database's mutex, writes a begin marker, runs the operations through the same
calls while it collects what it would need to undo them, and writes a commit
marker. `checkpoint` writes the records of all collections to a snapshot, or to
one segment per collection and a manifest, publishes it by a rename, removes the
files of the other layout and truncates the log. `open` loads the manifest or
the snapshot, replays the log over it and attaches the log again.

A search asks a planner for one of three ways: the metadata index hands out the
records of an equality filter, or every record is looked at, or the vector index
is asked for more and more of the nearest and the filter is applied to them.
`open` looks for `IDENTITY`, takes a `flock` on the directory, creates or checks
the identity, resolves the text embedder and only then loads. The destructor of
a handle that was not closed publishes a checkpoint.

What is hard. A crash can separate any two of those steps, and any of them can
fail. The log's framing has to hide an unfinished batch from a replay without
hiding anything else. Snapshot, manifest and log overlap between the rename and
the truncation. Memory has to be put back when a batch fails. Sessions of
different durability and layout follow one another on one directory. The
collection's lock and the database's mutex protect different things, so that
callers of the two can interleave. Several processes decide by one file whether
a database exists. Every write has to keep three containers in step, also when
it is undone, replayed, or followed by training. A graph with tombstones has to
answer as if they were not there. A batcher has to settle every promise once
while it is flushed, stopped and destroyed. Training changes what every record
is while the log still holds what it was. Two indexes that hold the same records
are changed one after the other, and the device may fail in between. The site
keeps one status for all requests, puts the question of a URL when a page is set
up, and colours code by passes that must not see each other's work.

What makes each part correct:

| Part | Promise |
|---|---|
| Log and engine | what was acknowledged is recovered, what failed is not, a batch is whole or absent, a checkpoint changes nothing |
| Threads | the same with calls that overlap, and nobody waits for ever |
| Directory | one writer, nothing that was acknowledged is lost over opens, closes and deaths of processes |
| Collection | record store and indexes agree; a search finds what the filter admits, nearest first |
| HNSW graph | an index: no row lost or revived; navigable; exact while nothing is pruned |
| Batcher | every query is answered, once, while it runs; `stop()` returns |
| Training | disk and memory are both encoded or both not, whatever interrupts it; a finished training lasts |
| GPU hybrid index | memory and device hold the same records; a search finds something if there is anything |
| Site | a carried question is put once; an answer stands behind its question; code is shown as it was sent; theme and search tell the truth |
| Device memory | blocks never overlap, no byte is lost, a grant is exclusive |

## 2. The modules

| Module | What it is |
|---|---|
| `WAL` | the log as a sequence of entries, and in closed form what a recovery reads out of it |
| `WALReplay` | the same recovery as the code computes it: the scan, the framing loop, the fold of `open()` |
| `AtomicStore` | the abstract database: a store that changes one call or one whole batch at a time and survives a restart |
| `Engine` | the storage engine of one database, which implements `AtomicStore`: sessions, calls, faults, and what the client was promised |
| `Threads` | calls on one database that overlap, step by step between the locks (on top of `WAL`) |
| `Lifecycle` | the handles of several processes on one directory |
| `Metadata` | metadata values, filters, their equality constraints, the inverted index |
| `Collection` | writes, training, reopening and search of one collection (on top of `Metadata`, with a `VectorIndex` inside) |
| `Training` | one collection with its published state and its log, and checkpoint and training step by step (on top of `Collection`) |
| `VectorIndex` | the abstract vector index: a place for each id, and what a search may answer |
| `Hnsw` | the layered graph, which implements `VectorIndex` |
| `GpuIvf` | the inverted-file index of the GPU engine, as a value and what its operations make of it |
| `GpuHybrid` | that index and an exact one (a `VectorIndex`), changed one after the other and searched together |
| `Batcher` | the query batcher, its worker and its callers |
| `DeviceMemory` | the GPU memory manager |
| `Highlighter` | the passes that colour a block of C++, and how their tokens are put back |
| `Assistant` | the chat page over the chat object and the endpoint (on top of `Highlighter`) |
| `Site` | one tab: history, links, search, theme, keys (on top of `Assistant`) |
| `WALProofs`, `EngineProofs`, `ThreadsProofs`, `LifecycleProofs`, `TrainingProofs`, `HnswProofs`, `DeviceProofs`, `SiteProofs` | lemmas, inductive invariants, theorems (section 4) |
| `MC*` | the instances for TLC |
| `*Claims` | statements of the headers and the documents that the code does not keep (section 5) |

A definition whose comment begins with "Mutant" is a wrong version of the
definition next to it, as a plausible bug would have it. Putting it in the place
of the right one must make TLC find a property violated; `PROJECT.json` says
which one. It also maps every other definition to its lines in the source.

### WAL and WALReplay

A *key* stands for a pair of a collection and a record id and a *value* for
everything the record holds; a *store* maps keys to contents. An entry is an
insert, an erase, one of the two framing markers, or `torn`: a record part of
which is missing or whose checksum is wrong. `insert`, `insert_ex` and
`insert_q` are one operation here, because nothing stated so far tells a code
from the vector it encodes.

`Recover(base, log)` says which entries count and which of them is the last on
each key, in a form that the proofs of `Engine` and `Threads` can unfold. It
applies a function to the set of entries that count, so that TLC computes the set
once (`RecoverUnfolds` gives the proofs the plain form).
`WALReplay` translates the loops of `WAL::replay` (`ValidPrefix`, `FrameStep`) and
of `open()` (`PlayEntry`). Its specification writes any log (`written`) over any
loaded store (`loaded`), one entry at a time. The run `replay` checks that loops
and closed form agree on every log of up to `MaxWritten` = 5 entries: two windows
that follow each other, an entry outside them and a torn record, or any four of
those; two keys tell apart "the last entry" from "the last entry on this key".
`WALProofs` proves it for every log.

### Engine

State, and where it is in the code:

| Variables | Code |
|---|---|
| `wal`, `stable`, `walfile` | the file behind `WAL::fd_`; how much of it `fdatasync` has covered; whether its directory entry was ever synced |
| `snapshot`, `manifest`, `segments` | `elips.snapshot`; `elips.manifest` with the store its segments hold; whether those segments are there |
| `handle`, `fd`, `durability`, `segmented` | is there a `Database`; its `wal_` and `fd_`; its `Config` |
| `mem` | `records_` of all collections |
| `pc`, `call`, `todo`, `undo` | the running `commit()` (its `ops_` and `undo_log`) or checkpoint |
| `live`, `goal`, `allowed`, `forfeited` | auxiliary: what the client was told |

| Actions | Code |
|---|---|
| `Write`, `WriteFails` | `place_locked`, `erase_locked` |
| `Begin`, `Apply`, `Commit` and their failures | `Transaction::commit`, one action per append |
| `Publish`, `Tidy`, `Reset`, `ResetFails` | `checkpoint_locked` and `WAL::reset` inside `checkpoint()`, `close()` or the destructor |
| `Abandon`, `Open` | `abandon()`, `open()` |
| `Crash`, `CrashInAppend`, `PowerLoss` | the environment |

A call appends at most one entry per action, and a crash may come between two
actions or inside an append, where it leaves part of the record (`Torn`) or all
of it. An I/O error makes an append throw with nothing, part or all of the
record in the file. A power loss keeps any prefix of the entries that no sync
has covered. Publishing is one step, because the data is complete and synced
before one `rename`; a failure before the rename changes nothing but temporary
files, which the next checkpoint overwrites or sweeps.

The promises. `live` is the store as successful calls have made it; `allowed` is
the set of stores a recovery may build without breaking a promise: after a
synced acknowledgement only the new store, after a relaxed one the new store or
any earlier one, and after a crash inside an append both the store before and
the store after the call. The code cannot keep its promises in a few situations
(see section 5). `forfeited` names those that are outstanding; each is set by
the step that acknowledges in spite of the cause and cleared by the step that
removes it. The properties say what holds when none is outstanding, and each
cause is a claim in section 5 that drops the exemption and fails. The
causes are computed from the state of the disk and of the handle and never steer
the engine.

The refinement. `AtomicStore` is what the comments of `elips.hpp`, `WAL.hpp` and
`Config.hpp` describe: `memory`, the store that the calls have made; `pending`,
what the running batch will make of it; `disk`, what a restart would give; `may`,
the stores one of which a restart after a power loss would give. It has no log,
snapshot, segment or undo. Its steps are an `Open`, a `Write`, the `Begin`,
`Commit` and `GiveUp` of a batch, `Work` and `Save` for what nobody sees and for
the checkpoint of a session without a log, `Leave`, and two faults: `CrashInCall`
may leave the one call in progress done or not done, `PowerLoss` takes any member
of `may`. `Engine` maps its variables to these without the promises: `Visible` is
memory with a running batch undone, `Pending` memory with the rest of the batch
played on it, `disk` is `Recovered`, and `Restartable` the recoveries from the
prefixes of the log that a power loss may leave. Only `Excused`, a cause in
`forfeited` is outstanding, comes from the promises: while it lasts nothing is
said of the disk, and when it ends the disk must again be what the session sees
(`Unless`). Memory is never excused: a batch whose commit marker could not be
appended is a `Commit` in memory, with the disk excused. An operation of a batch,
a write or a begin marker that fails, and every step of a checkpoint of a session
with a log are `Work`; an operation of a batch that fails is its `GiveUp`.

### Threads

Collection calls take the lock of their collection and nothing else; `commit`,
`checkpoint` and `close` take the database's mutex and then one collection's lock
at a time. A step ends where a thread releases a lock, or touches what others
read without one: the log, its descriptor, the pointer to it. The directory is a
base and a log, as in `Engine`, and the only fault is an append that throws.

| Actions | Code |
|---|---|
| `Call`, `AppendEntry`, `Store`, `Refused`, `NothingToRemove`, `AppendFails` | `add`, `remove`: lock, `ensure_writable`, log, memory and unlock |
| `Begin`, `Capture`, the above for each operation, `EndBatch`, `Commit`, `UndoOne` | `Transaction::commit` and `undo` |
| `StartCheckpoint`, `CopyRecords`, `Publish`, `CloseLog`, `ReopenLog` | `checkpoint_locked`, one collection at a time, and the two halves of `WAL::reset` |
| `Detach`, `Seal`, `CloseAgain` | `close()` |

`races` names what overlapping calls have done to each other that the code does
not defend against, in the way `forfeited` does in `Engine`.

### Lifecycle

A handle goes from `none` through the steps of `open()`, `probed` (it has looked
for `IDENTITY`), `locked`, `naming` or `identified`, `loading`, to `open`, and
back by `close`, `abandon`, destruction or the death of its process, which
releases its `flock`. `Probe` comes before `Lock`, as in the code. The directory is
`IDENTITY`, the embedder's manifest, and the sets of records in the published
state and in the log; a record carries the dimension it was added with.
`LoadFails` is an exception during loading, after which the destructor of what
was loaded so far runs. `broken` names what has cost the directory a record.

### Metadata and Collection

A value is a kind and a number; integers and doubles compare as doubles and are
encoded apart once an integer is longer than six digits (`SixDigits`, scaled down
to 10). Filters are syntax trees that are built as `and_`, `or_`, `not_` build
them; what a node comes to (`Verdict`) and what it demands (`Required`) are
functions of its subtrees, and every way down a tree ends. The state of a `Collection` is one record: `records_`, the triples of the
inverted index, what the vector index holds, and whether there is a codebook.
Every write is a function of that record, so that the properties can say what a
write followed by its undo, or a checkpoint followed by `open()`, amounts to. A
codebook maps places to places and is idempotent, as encoding against a fixed
codebook is. `Seek` is the planner with its thresholds as constants, the two
exact ways, and the loop that asks the index again. The index may fail to find
records; `reach` is what it does find.

### Training

The collection is that of `Collection`. `base` is the published state, a codebook
or none and the records; `log` is what was written since, as vectors. A
checkpoint goes `records`, `publish`, `reset`: it reads the codebook under one
lock (`StartCheckpoint`), copies the records under another (`CopyRecords`),
renames (`Publish`) and truncates (`Reset`). `Database::train` trains the
collection and runs those steps; `Collection::train` (`TrainInMemory`) is public
and runs none of them, at any time. Writes fall between the steps, any of which
may fail, and a crash opens what is on disk. `races` names the two ways in which
callers that overlap defeat the order: a write behind the copy that the
truncation takes away, and a training between the two readings.

### VectorIndex and Hnsw

`VectorIndex` says what `Index.hpp` asks of an index. `Hnsw` translates
`search_layer` (the two heaps as sets ordered by distance and node), `connect`
with its diversity heuristic and its pruning of reverse edges, insertion,
removal with automatic compaction, `vacuum`, and import of an exported snapshot.
Vectors are places on a line; levels are drawn from a set. A loop is a `Loop`, what
n turns make of a start, and a list that is sorted is `Sorted` by a set of pairs. A
search of a layer takes as many turns as there are rows, since no node is
expanded twice and a turn with an empty frontier changes nothing. The refinement
mapping `Content` takes a graph to the places of its live rows.

### GpuIvf and GpuHybrid

An index is a record of what `IvfIndexState` holds: the rows, the list of each
row, the rows of each list, the row of each id, and the centroids. `Inserted`, `Removed` (the last row moves into
the hole), `Rebuild` with its k-means, `Exported` and `Imported` are functions of
that record. Vectors are places on a line and a mean is rounded down. `GpuHybrid`
changes the exact index and then the device's, as `GpuHybridIndex` does, without
an exception between the two (memory that runs out there leaves a record in one of
them, and is not modelled); its
search asks the device, which may fail, and turns to memory when it gets nothing
although the device holds rows.

### Highlighter, Assistant and Site

Code is a sequence of symbols, as far as the passes of `highlight` tell them
apart; a token carries the text it stands for, and `Restored` looks only one
level deep, as the one `replace` at the end of the function does. `Assistant` is
`ChatPage`: its status, its transcript, the requests that stream into it. The
chat object is a library; what it does is taken from how the page uses it, and
mapped as external. The endpoint is the ways in which a request ends: in full, or
with one of its errors (`Settle`). `Site` is one tab. A link keeps the shell and
changes the page; a reload, a chord, or a way back to an entry of another
document sets everything up anew from the URL and `localStorage` (`Load`). The
chat page puts the question of its URL when it is set up, and at no other time.

### Batcher

The owner starts, stops and destroys the batcher; callers leave queries; the
worker goes `loop`, `lock`, `asleep`, `search`; `flush()` runs a batch in another
thread. A critical section is one action. `wait_for` may return at any time, so
that lost notifications are covered and cost time only. A search may answer,
throw, or return too few lists. A future is unsent, waiting, or settled.

### DeviceMemory

One action for each public method, since all but `initialize()` hold the mutex
throughout. Addresses are numbers, the backend places a root at any free base.
Callers keep their pointers after giving them back, because `deallocate()` leaves
its argument alone, and may give them back again; `robbed` are the buffers whose
block was freed that way by somebody else.

`RoundUp` computes in `size_t`, of `WordSize` values, as `round_up` does. A size
within an alignment of the greatest wraps around, mostly to 0: `allocate()` then
grants a buffer of that size over an empty block, at the address of a block that is
still free. The model does what the code does from there on. `wrapped` is set by
such a grant and cleared by `shutdown()`, and all properties but `TypeOK` are stated
while it is false; section 5 has what is said without that exemption. In the code
the pass of `release_locked` over the free list can leave an empty block at a
border it moves across; which of them it meets too early depends on the order of
the list, so that `Deallocate` lets any part of `MayStay` stay. The backend refuses a
request for no bytes, which only a wrapped size can lead to (`cudaMalloc` returns a
null pointer instead; that is left out), and one that reaches beyond the address
space.

## 3. What is checked

| Run | Instance | Properties |
|---|---|---|
| `replay` | 2 keys, 1 value, logs of up to 5 entries, torn ones anywhere | `ReplayIsRecover`, `WindowsAllOrNothing`, `ReplayMonotone` |
| `engine` | all durabilities and layouts, crash, io and power, 2 keys, log 4, batch 3, within `InScope` | `MemoryIsWhatWasAcknowledged`, `RecoverySound`, `DiskMatchesMemory`, `AlwaysReadable`, `CheckpointIsInvisible`, `IsAtomicStore` |
| `threads` | 3 threads with 5 calls in all, 2 keys in 2 collections, 2 batches, io | `RecoveryIsAcknowledged`, `MemoryIsAcknowledged`, `QuietDiskMatchesMemory`, `ClosedIsFinal`, `EveryCallReturns` |
| `lifecycle` | 3 handles, 4 opens, 2 records, 2 dimensions, crash and io | `NothingIsLost`, `OpenHandlesAreCurrent`, `LocksAreHeldInUse`, `OnlyTheLockHolderWrites` |
| `collection` | 4 records, 4 payloads, 10 filters and the empty one, with and without codebook and acceleration | `ContainersAgree`, `NothingChangesOnTheWay`, `SeekIsExact` |
| `hnsw` | 4 records, 2 layers, 4 rows, lists of 1 and 2 links | `GraphIsNavigable`, `SmallGraphsAreExact`, `IsAnIndex` |
| `batcher` | 3 queries of 2 depths, batches of 2, 2 starts, 2 flushes | `NoQueryIsLost`, `AnsweredOnce`, `RunningMeansAnswered`, `StopReturns` |
| `device_memory` | 3 buffers, sizes 0, 3 and 255, alignments 0 and 2, 2 bases, pools 6 and 64, 8-bit words, in which 255 is rounded up to 0; from such a grant on 1 root and 2 buffers (`MCSmallWrapped`) | `BlocksAreApart`, `GrantsAreExclusive`, `NoByteIsLost` |
| `training` | 2 records, 3 places, log 3, with crashes and failures | `NoPartialQuantize`, `RecoveredIsTheCollection`, `TrainingIsDurable` |
| `gpu_hybrid` | 4 records at 4 places, 3 lists of which 1 is probed, 2 rounds of k-means | `ListsAgree`, `HybridAnswers` |
| `site` | 3 history entries, 2 carried questions, 3 questions in all, answers of 4 symbols of 7 kinds, 2 groups, within `InScope` | `AnswersFollowTheirQuestions`, `ShownIsTheSource`, `QuestionsArePutOnce`, `ShellTellsTheTruth` |
| `claim_torn_tail` | | one violated statement, section 5 |

Each state machine has one type invariant; where it is not listed it is the first
conjunct of a property that is. What each property says stands above it in its
module. The ones that carry most:

- `RecoverySound`: whatever state a crash finds the directory in, the next
  `open()` builds a store that the acknowledged calls allow.
- `IsAtomicStore`: the log, the undo, both layouts and every step of a checkpoint
  are, seen from outside, a store that changes one whole call or batch at a time.
- `RecoveryIsAcknowledged` and `MemoryIsAcknowledged`: the same, and its
  counterpart for memory, when calls overlap.
- `NothingIsLost`, `OpenHandlesAreCurrent`: over every order in which processes
  open, close, lose and abandon their handles.
- `ContainersAgree`, `SeekIsExact`: after any history the indexes hold what the
  store holds, and a search along any way is the search of the definition.
- `IsAnIndex`: the graph with its tombstones and rebuilds implements the
  abstract index.
- `NoPartialQuantize`, `RecoveredIsTheCollection`: whichever step of a training is
  the last, what is on disk can be opened and is what the client has.
- `HybridAnswers`: two indexes and a device that fails answer as one index.
- `QuestionsArePutOnce`, `AnswersFollowTheirQuestions`: over every way through the
  history, with requests that overlap.
- `RunningMeansAnswered`, `StopReturns`, `EveryCallReturns`: nobody waits for ever.
- `BlocksAreApart`: blocks of the device never overlap, whatever is freed, split
  and merged, and whatever is given back twice, until a size wraps around.

The bounds, and why they are enough. Two keys are what atomicity of a batch
needs, and with one value each key has two contents, enough to tell old from
new. In `replay`, five entries are two windows that follow each other with an
entry outside them. The log of `engine` holds a batch with its markers, or the
remains of an abandoned batch, its markers and a later write; `MaxLog` bounds the
log and not the run, since a checkpoint empties it and sessions go on. `InScope`
gives standard sessions the whole instance, and keeps what is weaker smaller:
relaxed sessions and unsynced logs are explored on one key and three entries,
ephemeral ones on two; a batch begins if the log has room for its operations
(the guard is part of the bound `MaxLog`); and where a promise is forfeited the run goes on, on one key, until
a second one is. The proofs of section 4 have no such limit. In `threads` the
second key lies in another collection, because what a checkpoint has copied and
what it has not is the point; one batch spans both, and the other writes a key
twice, because the order of two writes and of their undoing is. `training` needs
a record that is written twice and one that is removed. In `gpu_hybrid` three
lists over four records leave one empty, and the places are far enough apart for
a list to be nearest to nothing. In `site` four symbols are the least that put
every kind of token inside every other (six were checked apart from the run and
bring nothing new); what an answer holds is explored with one question on the
page, and the shell while the transcript is empty, because they touch in no
action but a load. Two dimensions are what first
openers can disagree about, and three handles a closed one, its successor and a
reader. The thresholds of the planner are scaled down so that four records reach
the index after the first request and two more. Four rows are the least at which
a list of two links is pruned. Three queries are one more than a batch takes.
Three buffers of unequal rounded sizes leave a hole between two live blocks, and
a word of 256 lets `bytes_available()` and a size of 255 wrap around as a `size_t`
does. Once one has, only `TypeOK` is left to check, and one root with two buffers is
enough for a `shutdown()` to start from every kind of damage: an empty live block, an
empty free one, two grants of one pointer.

Fairness. `Threads` has weak fairness for each thread on `Continue`, the steps of
a call that has begun: the operating system runs every runnable thread, and
since calls are bounded no reader can keep a writer out of a shared mutex for
ever. Making a call is not fair. `Batcher` has weak fairness on the steps of the
worker, of `join` and of the search of a flush, because `wait_for` has a deadline
and the search function is assumed to return; it has none on the owner or the
callers. Nothing else in this code waits, and the other specifications are
safety only.

Deadlock is checked in `threads`, `gpu_hybrid` and `device_memory`. `Threads` has
a last step `Done` for the history that is at its end, so that any other stop is
an error. In the other runs a bounded history simply ends (`MaxLog`, `MaxOpens`,
`MaxStarts`, `MaxNodes`), and deadlock is not checked.

## 4. What is proved

The theorems hold for every value of the constants that satisfies the named
`ASSUME`s of the modules, and for behaviours of any length.

| Module | Theorem | States |
|---|---|---|
| `EngineProofs` | `Invariant` | `Spec => []IInv` |
| | `ImplementsAtomicStore` | `IsAtomicStore`: `Engine` refines `AtomicStore` |
| | `TypeCorrect`, `RecoveryIsSound`, `MemoryIsExact` | `TypeOK`, `RecoverySound`, `MemoryIsWhatWasAcknowledged` |
| | `DiskIsExact`, `DirectoryIsReadable`, `CheckpointChangesNothing` | `DiskMatchesMemory`, `AlwaysReadable`, `CheckpointIsInvisible` |
| `WALProofs` | `LoopsComputeRecover`, `BatchesAreWhole`, `ReplayTakesNothingBack` | `ReplayIsRecover`, `WindowsAllOrNothing`, `ReplayMonotone` |
| | `RecoverRebase`, `RecoverCommit` | what a second replay and a commit marker do to a recovery |
| `ThreadsProofs` | `Invariant` | `Spec => []IInv` |
| | `CrashesLoseNothing`, `UndoIsExact` | `RecoveryIsAcknowledged`, `MemoryIsAcknowledged` |
| | `DiskFollowsMemory`, `CloseIsFinal` | `QuietDiskMatchesMemory`, `ClosedIsFinal` |
| `LifecycleProofs` | `Invariant` | `Spec => []IInv` |
| | `NoRecordIsLost`, `HandlesStayCurrent` | `NothingIsLost`, `OpenHandlesAreCurrent` |
| | `LocksAreNotLeaked`, `WritesAreExclusive` | `LocksAreHeldInUse`, `OnlyTheLockHolderWrites` |
| `TrainingProofs` | `CollectionInvariant`, `TrainingInvariant` | the inductive invariants of `Collection` and of `Training` |
| | `ContainersAlwaysAgree`, `WayBackIsExact` | `ContainersAgree`, `NothingChangesOnTheWay` |
| | `SeekFindsTheNearest` | `SeekIsExact` |
| | `QuantizedOrNot`, `RecoveryIsTheCollection`, `TrainingLasts` | `NoPartialQuantize`, `RecoveredIsTheCollection`, `TrainingIsDurable` |
| `HnswProofs` | `Invariant` | `Spec => []IInv` |
| | `NavigableAlways`, `SmallGraphsAlwaysExact` | `GraphIsNavigable`, `SmallGraphsAreExact` |
| | `ImplementsAnIndex` | `IsAnIndex`: `Hnsw` refines `VectorIndex` |
| `DeviceProofs` | `BatchesBelong` | the inductive invariant of `Batcher` |
| | `QueriesAreKept`, `PromisesAreSetOnce` | `NoQueryIsLost`, `AnsweredOnce` |
| | `LayoutInvariant`, `BooksBalance` | `[]IInv`, `[]BooksInv` |
| | `MemoryIsApart`, `GrantsStayExclusive`, `EveryByteIsKept` | `BlocksAreApart`, `GrantsAreExclusive`, `NoByteIsLost` |
| | `MirrorInvariant` | the inductive invariant of `GpuHybrid` |
| | `ListsAlwaysAgree`, `HybridAlwaysAnswers` | `ListsAgree`, `HybridAnswers` |
| `SiteProofs` | `Invariant` | `Spec => []IInv` |
| | `QuestionsArePut`, `ShellIsTrue`, `AnswersAreInOrder` | `QuestionsArePutOnce`, `ShellTellsTheTruth`, `AnswersFollowTheirQuestions` |
| | `CodeIsShown` | `ShownIsTheSource` |

What is assumed of the constants. The marker values (`NoKey`, `NoRecord`,
`NoFile`, `NoBuffer`, `All`) are not among the things they mark the absence of;
bounds are natural numbers; a batch of the batcher has room for one query, although
its constructor accepts a `max_batch` of 0; the modes are those of the code; there are finitely
many ids, every way down a syntax tree ends, and a codebook is idempotent, as encoding against fixed centroids is;
pools, sizes and alignments fit a `size_t`, and roots are placed at addresses other
than 0; places are numbers, and so are the ids of the device's
index, which is loaded from rows of different ids, each at a place of its id; the
levels of a graph have no gaps, and its lists and beams have room for one node. Nothing bounds the number of keys, values, threads,
handles, queries, buffers, ids or links, nor the length of a log or a batch, nor
how many lists, probes and rounds of k-means there are.

**`EngineProofs`.** `RecoverySound` alone is not inductive, for three reasons, and
`IInv` adds one conjunct for each. In the middle of a batch nothing is said of
the entries inside the open window: `LogInv` says that the log still recovers to
the store before the batch, and that it would recover to memory if a commit
marker came next (`RecoverIfCommitted`). In the middle of a checkpoint the base
has been replaced and the log has not been truncated: `CheckpointInv` says that
the new base is memory, and the lemma `RecoverRebase`, that replaying a log over
the store it already led to changes nothing, does the rest. And a power loss
shortens the log: `PrefixInv` says that every prefix no shorter than the synced
part recovers to an allowed store. `MemoryInv` relates memory in the middle of a
batch to the store before it (through `undo`) and to the store it is to make
(through `todo`). There is one lemma per action.

`ImplementsAtomicStore` needs no invariant beyond `IInv`. `Coherence` reads off
`LogInv` and `MemoryInv` that the mapped disk is what the session sees unless a
promise is forfeited; that settles every step that ends an excuse. For the others
each action has a lemma that names the abstract step it is (`WriteMap`,
`CommitMap`, `TidyMap`, `CrashInAppendMap`, ...). They rest on what an append does
to the set `Restartable` (`RestartableAppend`: it gains the new recovery, or is
only that one if the append is synced), and on `NewBaseMap` and `TruncateMap`, by
which a checkpoint's two halves each leave the recovery where it was.

**`WALProofs`** has one lemma for what appending each kind of entry, with the
window open or closed, does to a recovery; the engine and the threads rest on
them. Where a proof needs the last entry on a key it comes from the
well-foundedness of `<` on the naturals (`LeastNumber`, `GreatestNumber`). The
loops are folds. A fold is a chosen function on sets of positions that satisfies
a recursive equation; that there is one, and that any two agree, follows from the
least set at which it would fail (`FoldsExist`, `FoldsAgree`), and gives that one
more entry is one more turn of the loop (`FramedMore`, `PlayMore`). With that,
`FramedIs` is kept by every entry: what the loop has applied plays to the closed
form, and together with what it holds back to the recovery after a commit marker.
`BatchesAreWhole` is the same argument over a log whose values are its own
positions (`FramedTags`), so that the output names the entries that survived.
Induction over the log is over a set of sequences (`AllSequences`), because a
theorem that takes a predicate cannot be instantiated.

**`ThreadsProofs`.** `IInv` has four layers. `Shape` says which thread holds the
mutex and the lock of each collection at each step. `SealInv` says that nobody is
inside a sealed collection. `UndoInv` says that, until calls overlap in one of
the ways `races` names, what a batch has captured is what its undoing must
restore. `DiskInv` says that the log, over the base or over the copies of a
running checkpoint, recovers to memory with the operations that are logged and
not yet stored; a checkpoint and a write may each be half way.

**`LifecycleProofs`.** `LocksAreHeldInUse` needs that the lock excludes
(`Exclusion`) and that whoever got past it has agreed on an identity
(`Identified`). The two properties about records are inductive together with it:
a handle that loads is current because its lock kept writers out since.

**`TrainingProofs`.** `CollectionInvariant` says that both indexes hold exactly the
records, of which the codebook has encoded all or none; replaying a log of
writes over a base is a fold again, here with the lemma `Rebase` for a base that
already holds what the log writes. `SeekFindsTheNearest` follows from the agreement
of the containers alone. Its lemma `TreeRecursion` gives the functions on syntax
trees that `Matches` and `ExactConstraints` are, so that whoever passes a filter
meets all that it demands (`ConstraintsAreMet`), and the candidates of the metadata
index are those who pass but for the exempted. A list of the nearest is determined
by the rank of its members (`NearestRanked`); what is kept of a longer and longer
list of hits is a beginning of the answer (`KeptFacts`), and all of it when the
index has no more (`ProbeIsNearest`), whatever records the index misses. In
`Training`, `StatesAre` is the type;
`CodebooksStay` orders the codebooks of memory, image and disk; `NoneIsHalf` says
that no image mixes codes and vectors until `races` names the reason; and
`DiskIsCurrent` that base and log, or image and log, or the image alone, lead to
the collection, whichever of them a crash finds.

**`HnswProofs`.** The invariant is about graphs as values: `IsGood` says that every
list stays in its layer, is short enough and names no node twice (`IsNetwork`), that
the entry point has the top layer (`IsAnchored`), and that the bottom layer is
connected as long as no list in it can have been pruned (`IsConnected`, said
without paths: a set that no link leaves is empty or everything). What an insertion
makes of a good graph is good (`InsertFacts`), hence what a rebuild makes of any rows
(`BuiltFacts`). Three recursions stand below that, each a `Loop` whose values exist
because every turn stays in a set that is given beforehand (`LoopExists`), and whose
result is what a property that every turn keeps says it is (`Turns`). For the search
of a layer that property is that the links of every expanded node have been visited,
and that as many nodes were expanded as turns were taken unless the frontier is
empty (`ExpansionsFacts`); so in the end the result is closed if the beam had room
for the layer (`SearchLayerFacts`), and by `IsConnected` it is everything. For
`connect` it is that each link goes both ways and nothing else changes, until a list
is full (`LinkedFacts`); while the layer has no more rows than a list has room for,
none is (`NothingIsPruned`), and the first that was found is linked always, so that
the new node can be reached (`AttachedIsConnected`). Being nearer is an order, and a
list in that order is determined by ranks (`RankFacts`, `SortedFacts`). `BeamFacts` is
the arithmetic of the widened beam: if it has room for the live rows it is widened
enough for all. The refinement needs that a content is determined by which places
the live rows hold (`AgreeingIsUnique`) and that leaving tombstones out changes none
(`LiveRowsFacts`).

**`DeviceProofs`.** Of the batcher: a query is pending or in one batch, once
(`QueriesAreApart`), its caller waits exactly then (`Waiters`), queries are taken in
the order in which they arrived (`InOrder`), and the worker takes no batch over
another (`WorkerIsFree`).

Of the memory manager: that blocks do not overlap is not inductive: a split or a
merge preserves it only if both neighbours lie in the same root and no block is
empty, and a new root only if every block lies inside its root. `LaidOut` says
that of the blocks, `RootsAreApart` of the roots, and `Buffers` relates the
pointers that callers hold to the blocks they were granted. The lemmas `Split`,
`Merge` and `NewRoot` do the three cases; `RoundUpEnough` is why a block is never
empty, unless a size wraps around. After that nothing of this holds. Hence `IInv` is
`Types`, which no grant can break, and `Sound` as long as `wrapped` is false; a step
that heals is a `shutdown()` (`OnlyShutdownHeals`), and what it leaves is sound
(`ShutdownSound`). `NoByteIsLost` speaks of sums. `BooksInv` adds that the counters are the
sums of the blocks' and the roots' sizes, that the blocks cover their roots, and
that no two free blocks are neighbours, without which a root that was given back
would not be one block again. Sums over finite sets are folds; that a sum grows
by the element that is added is again a least-set argument (`SumsExist`,
`BytesOfMore`). One part of the books holds even over wrapped sizes, and its type
needs it: what is live is finite, and `allocated_` is no less than its sum
(`Counts`), so that no release takes it below 0.

The same module proves `GpuHybrid`. The four containers are not kept in step one
by one: `MirrorInv` says that the index is, as a whole, what its rows and its
centroids make of it (`IndexOf`), with no more lists than rows (`Fit`), and that
the memory holds the same rows (`Holding`). An insertion and a removal are
followed field by field to see that they lead from `IndexOf` to `IndexOf` of the
rows with one more, or with the last one in the hole (`InsertedIndex`,
`RemovedIndex`), for any centroids; training makes others, as many as it is asked
for (`TrainFacts`). That a recursion over rounds and a sum over rows define anything
at all is the lemma `Recursion`: an equation along a well-founded set has a
solution. A search is settled by ranks, how many rows are closer (`RankFacts`),
and the list nearest to the query is always probed (`ProbedFacts`), so that a record
at the place asked for is found.

**`SiteProofs`.** `TabInv` says that a carried question is in the history or among
the questions that were put, once (`Links`); `ShellInv` that the theme shown is
the stored one or the system's, and the filter one of the results'; `ChatInv`
that, until a second request overtakes the first, there is one stream and the
messages are in turn.

`CodeIsShown` needs of the transcript only that it is typed; the rest is about
code. What some of the passes have made of code is a *marking* of it
(`IsMarking`): its elements stand, one behind the other, for pieces of the code,
and an element is a token exactly where, in what a reader of C++ takes for code,
one of these passes takes something (`Hit`). Code is a marking by no pass
(`Unmarked`), each pass makes of a marking one with itself among the passes
(`PassFacts`), and the texts of a marking, put one behind the other, are the code
(`RestoredFacts`). The step is an induction from the end of the marking to its
beginning. It needs that a pass starts nowhere but in code; this is where
`OneInAnother` comes in, and `IsFree`: the place a pass goes on from is never
inside what it, or an earlier pass, takes (`FreeBehind`). And it needs that what
a pass takes from a marking is what it would take from the code (`MatchedAlike`),
because up to where it ends no other pass has marked anything (`LikeFacts`), a
symbol that would end it is a symbol of the code as well, and the element before
it ends a line exactly if it does so in the code (`IsStanding`).

What is only model-checked. `EveryCallReturns`, `RunningMeansAnswered` and
`StopReturns` are liveness, which is beyond the prover. The induction theorems of
the library take a predicate and cannot be instantiated with the provers at hand;
wherever a definition is recursive, the proofs argue over the least member of a
set (`LeastNumber`, `Counting`, `LoopExists`, `Recursion`) instead.


## 5. Where the code and what is said of it disagree

Each line is a definition in a `*Claims` module: the statement of a header or a
document, without the exemption the properties of section 3 make. TLC refutes
each under the constants given; the module quotes the statement. The first is a run; to see another, put its name in a configuration with those
constants.

| Claim | Said | Done | Constants |
|---|---|---|---|
| `WritesAfterATornTailSurvive` (run `claim_torn_tail`) | a torn tail is cleanly dropped, acknowledged writes survive (`WAL.hpp:16`) | the tail stays in the file and the next session appends behind it | standard, snapshot, crash |
| `WritesAfterAnAbortedBatchSurvive` | no acknowledged write is lost (`runtime-flow.md:382`) | an abandoned begin marker swallows the writes behind it | standard, snapshot, io |
| `FailedCommitAppliesNothing` | a failed commit undoes everything (`elips.hpp:492`) | not if the commit marker is what failed | standard, snapshot, io |
| `EphemeralCheckpointIsFinal` | a checkpoint truncates the log (`storage.md:80`) | not in an ephemeral session over an older log | standard and ephemeral, crash |
| `SnapshotReplacesTheManifest` | a checkpoint writes the current state (`storage.md:80`) | an older manifest that could not be removed wins | both layouts, io |
| `RelaxedRecoversAStoreThatWas` | `sync()` is used before a checkpoint (`WAL.hpp:77`) | nobody calls it | relaxed, power |
| `FirstWritesSurvivePowerLoss` | writes survive a power loss (`WAL.hpp:17`) | the new log's directory entry is not synced | standard, power |
| `WritesDuringACheckpointSurvive` | every acknowledged write survives (`WAL.hpp:16`) | what is added between the copy of its collection and the truncation is in neither | `Threads.cfg`, `FourCalls`, `BothKeys`, no faults |
| `WritesDuringACloseAreKeptOrRefused` | a write after `close()` is refused (`Database.cpp:1785`) | between `set_wal(nullptr)` and `seal()` it succeeds and vanishes | same |
| `WritesBesideABatchSurvive` | as above (`WAL.hpp:16`) | an add that falls into a batch's window shares its fate | same |
| `UndoRestoresOnlyTheBatch` | the lock keeps other writers out of a batch (`Database.cpp:1939`) | `Collection::add` does not take it | same, io |
| `ReadersSeeNoHalfBatch` | no dirty reads (`transaction-engine.md:433`) | a reader between two operations sees the first | same, no faults |
| `AddsFailOnlyOnFaults` | every method may be called concurrently (`elips.hpp:118`) | while `reset()` has the descriptor closed an add throws | same |
| `IdentityIsImmutable` | `IDENTITY` is immutable (`storage-engine.md:16`) | the second of two first openers writes its own over it | `Lifecycle.cfg`, no faults |
| `IdentityIsNeverHalf` | a restart is clean (`runtime-flow.md:384`) | a death inside `write_identity` leaves a file nobody can open | crash |
| `FailedOpensLoseNothing` | no acknowledged write is lost (`runtime-flow.md:382`) | an `open()` that fails half way publishes what it has loaded | io |
| `OnlyTheLockHolderPublishes` | single writer across processes (`LockManager.hpp:17`) | `checkpoint()` after `close()` writes without the lock | no faults |
| `DatabasesHaveTheirEmbedder` | new databases attach the embedder (`local-embedding-system.md:3`) | one whose creation stopped after `IDENTITY` never gets it | crash |
| `FilteredSeekMissesNothing` | candidates are re-filtered, so correctness survives (`_phase1_cpp.md:173`) | a long integer and the equal double are encoded apart, and what is no candidate is not re-filtered | `Collection.cfg` |
| `ShortAnswersSweptTheCollection` | re-probes until the collection has been swept (`Database.cpp:1246`) | stops at the first answer that is shorter than asked for | same |
| `EnoughHits` | a tombstoned graph returns k live results (`IndexHNSW.hpp:28`) | the beam is widened by an average, and the dead may fill it | `Hnsw.cfg` |
| `RebuiltGraphsAreConnected` | a rebuild restores connectivity (`IndexHNSW.cpp:269`) | pruning can leave a node without an incoming edge | same |
| `NoHalfQuantizedDisk` | no partial-quantize state can exist on disk (`Database.cpp:1557`) | `Collection::train()` between the two readings of a checkpoint publishes codes without their codebook, and no later `open()` succeeds | `Training.cfg` |
| `EveryGrantIsItsOwn` | a returned pointer is unique (`GpuMemoryManager.cpp:38`) | a size that is rounded up to 2^64 is granted over an empty block, whose address is granted again | `DeviceMemory.cfg` |
| `FreeBlocksAreMerged` | a span is merged with any adjacent free block (`GpuMemoryManager.hpp:62`) | an empty block, granted for such a size and given back, stays in the list | same |
| `ShownIsAlwaysTheSource` | markup is not matched again (`Code.tsx:19`) | a comment on the line of a directive, or `//` in a string, is shown as a sentinel | `Site.cfg` |
| `GTOpensTheChat` | G T opens the chat (`Shortcuts.tsx:10`) | T alone is looked at first, and changes the theme | same |
| `AClickTogglesTheTheme` | "Toggle theme" (`Chrome.tsx:87`) | after the key T the button puts the theme that is there | same |
| `EveryQuestionIsPut` | "Ask AI" routes the question to the chat (`Chrome.tsx:244`) | not from the chat page itself | same |
| `ANewChatIsNew` | "Start a new conversation" (`chat.tsx:168`) | the running answer goes on in the new one | same |

`EnoughHits`, `RebuiltGraphsAreConnected` and `ShortAnswersSweptTheCollection` are also what
`releases/v1.1.0/hnsw-and-compaction.md:24` ("guarantees that candidate traversal
collects sufficient valid nodes") and line 70 ("until [...] the total node count
of the vault is exhausted") say.

What the models of the GPU engine show without a claim of their own, because they
translate it as it is. `Batcher`: a batch is searched with the depth of its first
query (`QueryBatcher.cpp:56` and `:92`); `flush()` takes more than `max_batch`;
queries that arrive while nothing runs stay pending until a flush, a start or the
destructor; a search that returns too few lists breaks the promises of the rest.
`DeviceMemory`: a pointer that is given back twice, after its block was granted
again, frees the block of the new owner (`robbed`), where
`releases/v1.1.0/gpu-engine.md:57` says that the table of live blocks guards
against it; requests with different alignments make pointers that are not
aligned (`GpuMemoryManager.cpp:38`); a second `initialize()` with a smaller pool
makes `bytes_available()` wrap around (`GpuMemoryManager.cpp:174`). A size that
wraps around in `round_up()` (`GpuMemoryManager.cpp:41`) has the two claims of the
table.


## 6. Plan

Done: `WAL`, `WALReplay`, `AtomicStore`, `Engine`; `Threads`; `Lifecycle`;
`Metadata`, `Collection`, `Training`; `VectorIndex`, `Hnsw`; `GpuIvf`, `GpuHybrid`;
`Batcher`; `DeviceMemory`; `Highlighter`, `Assistant`, `Site`; the proofs of
section 4. To come, in this order:

1. The CPU flat and inverted-file indexes as implementations of `VectorIndex`;
   the index factory.
2. `MemoryPool`: the size-class pool under the GPU indexes, its coalescing and
   its lock.
3. The executor of EQL, `scan` and `hybrid_search` on top of `Collection`.


## 7. What is not modelled

Floating-point arithmetic: distances, k-means, codebooks and rotations are
places on a line and an idempotent map. Byte layouts of files. The lexer and the
parser of EQL. GPU drivers and kernels, pinned and unified allocations, device
discovery. The wrappers of other languages and the command line. The branches
for Windows, where files are locked and synced by other calls. Schema
validation of metadata and the text embedder, which keep no state that another
call can disturb. `PROJECT.json` lists every component with its status, and
every hazard with the properties that cover it or the module planned for it.

Of the site, what has no state: the pages, their text and drawings, the generated
route table, and the parts of the user-interface kit that no page uses. Together
they are more than nine tenths of its TypeScript, so that the share of it that
`PROJECT.json` maps is small although every component with state that a page
mounts is either in `Site` or a single flag of its own (the version switcher, the
cookie notice, the copy button). The highlighter's passes for Python, bash and
EQL are left out, as are the server's error page and the drawing of diagrams.
