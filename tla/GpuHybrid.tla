----------------------------- MODULE GpuHybrid ------------------------------
(***************************************************************************)
(* The index that a collection gets when a GPU serves it: an exact index   *)
(* in memory and an inverted file on the device, changed one after the     *)
(* other.  A search asks the device, and the memory only when the device   *)
(* has no answer.                                                          *)
(***************************************************************************)
EXTENDS GpuIvf

CONSTANT Batches    \* what an index may be built from: rows of different ids

IsBatch(rows) ==
    /\ rows \in Seq([id : Ids, at : Nat])
    /\ \A s \in DOMAIN rows : rows[s].at \in PlacesOf[rows[s].id]
    /\ \A s, t \in DOMAIN rows : rows[s].id = rows[t].id => s = t

ASSUME GpuHybridAssumption == \A batch \in Batches : IsBatch(batch)

VARIABLES
    cpu,    \* of cpu_index_, the place of each id
    gpu     \* the IvfIndexState of gpu_index_

hybridVars == <<cpu, gpu>>

Mirror == INSTANCE VectorIndex WITH content <- cpu

\* What an exact index holds that has taken some rows.
ContentOf(rows) ==
    [id \in Ids |-> LET s == SlotOf(rows)[id] IN IF s = 0 THEN NoPlace ELSE rows[s].at]

\* Mutant: the memory is never asked.
DeviceHits(q, k, device) == GpuHits(gpu, q, k, device)

HybridHits(q, k, device) ==
    LET hits == GpuHits(gpu, q, k, device) IN
    IF hits # <<>> \/ gpu.rows = <<>> \/ k = 0 THEN hits
    ELSE Ranked(q, k, {Row(id, cpu[id]) : id \in Mirror!Held})

-----------------------------------------------------------------------------
HybridInit == Mirror!Init /\ gpu = EmptyIvf

Add(id, at) == Mirror!Add(id, at) /\ gpu' = Inserted(gpu, id, at)

\* Mutant: the device keeps what is removed.
RemoveFromMemory(id) == Mirror!Remove(id) /\ UNCHANGED gpu

RemoveId(id) == Mirror!Remove(id) /\ gpu' = Removed(gpu, id)

\* build_from_batch() and import_from_cpu_index(): both hold the batch then.
Load(batch) ==
    /\ cpu' = ContentOf(batch)
    /\ gpu' = Rebuild(batch, RequestedLists)

HybridNext ==
    \/ \E id \in Ids : RemoveId(id) \/ \E at \in PlacesOf[id] : Add(id, at)
    \/ \E batch \in Batches : Load(batch)

HybridSpec == HybridInit /\ [][HybridNext]_hybridVars

-----------------------------------------------------------------------------
(* Properties. *)

HybridTypeOK ==
    /\ DOMAIN cpu = Ids /\ \A id \in Ids : cpu[id] \in PlacesOf[id] \union {NoPlace}
    /\ IsBatch(gpu.rows) /\ gpu.centroids \in Seq(Nat)

\* The four containers of the device index tell the same story, whichever row a
\* removal has moved: rows have no gap and no id twice, each id leads to its row,
\* each row is in one list, the one whose centroid is nearest, there are no more
\* lists than rows, and a snapshot brings all of it back.
ListsAgree ==
    /\ HybridTypeOK
    /\ gpu.list = Assigned(gpu.rows, gpu.centroids)
    /\ gpu.slot = SlotOf(gpu.rows)
    /\ gpu.members = MembersOf(gpu.list, Len(gpu.centroids))
    /\ Len(gpu.centroids) <= Smaller(RequestedLists, Len(gpu.rows))
    /\ gpu.rows # <<>> => Imported(Exported(gpu)) = gpu

\* The device holds the records that the memory holds, each at its place, and a
\* search answers with what is there, nearest first; with something if there is
\* anything, whether the device works or not; and with all there is, the nearest
\* k, when it comes from memory or has probed every list.
HybridAnswers ==
    /\ {gpu.rows[s] : s \in DOMAIN gpu.rows} = {Row(id, cpu[id]) : id \in Mirror!Held}
    /\ \A q \in UNION {PlacesOf[id] : id \in Ids}, k \in 1..2, device \in BOOLEAN :
          LET hits == HybridHits(q, k, device) IN
          /\ Mirror!Legal(hits, q, k)
          /\ Mirror!Held # {} => hits # <<>>
          /\ ~device \/ NProbe >= Len(gpu.centroids) => Mirror!Exact(hits, q, k)
          /\ device /\ q \in {cpu[id] : id \in Mirror!Held} => cpu[hits[1]] = q
=============================================================================
