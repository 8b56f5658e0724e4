---------------------------- MODULE DeviceMemory ----------------------------
(***************************************************************************)
(* GpuMemoryManager: device memory is taken from the backend in large      *)
(* roots and handed out in blocks, best fit first.  A block given back is  *)
(* merged with its free neighbours of the same root.  Every public method  *)
(* but initialize() holds the mutex from end to end and is one action.     *)
(* Page-locked host memory (allocate_pinned), which goes to the C library, *)
(* and the peak of the bytes in use, which nothing depends on, are not     *)
(* modelled.                                                               *)
(*                                                                         *)
(* deallocate() takes its buffer by && and leaves it as it is: the caller  *)
(* keeps the pointer and may give it back again.                           *)
(*                                                                         *)
(* round_up() computes in size_t, and so does the model.  A size within an *)
(* alignment of 2^64 wraps around: allocate() grants a buffer of that size *)
(* over a block of fewer bytes, or of none.  The model goes on from there  *)
(* as the code does, and wrapped remembers it until shutdown().            *)
(***************************************************************************)
EXTENDS Integers, Sequences, FiniteSetsExt

CONSTANTS
    Handles, NoBuffer,  \* the GpuBuffer variables of the callers
    Sizes, Alignments,  \* what callers ask for: any size_t
    Bases,              \* addresses at which the backend may place a root
    PoolSizes,          \* what initialize() may be given
    WordSize            \* 2^64: size_t wraps around

ASSUME DeviceMemoryAssumption ==
    /\ WordSize \in Nat \ {0, 1}
    /\ Sizes \subseteq 0..(WordSize - 1) /\ Alignments \subseteq 0..(WordSize - 1)
    /\ Bases \subseteq 1..(WordSize - 1) /\ PoolSizes \subseteq 1..(WordSize - 1)

ASSUME NoBufferAssumption == NoBuffer \notin [ptr : Nat, bytes : Nat]

VARIABLES
    roots,      \* root_allocations_
    free, live, \* free_blocks_, live_blocks_
    poolBytes,  \* pool_bytes_
    committed,  \* pool_committed_
    allocated,  \* allocated_
    buffer,     \* what each buffer variable points to
    current,    \* auxiliary: buffers granted and not given back
    robbed,     \* auxiliary: of these, the ones whose block another gave back
    wrapped     \* auxiliary: a size that wrapped around was granted

pool == <<poolBytes, committed, allocated>>
vars == <<roots, free, live, pool, buffer, current, robbed, wrapped>>

Block == [ptr : Nat, bytes : Nat, root : Nat]

-----------------------------------------------------------------------------
End(b) == b.ptr + b.bytes
Apart(a, b) == End(a) <= b.ptr \/ End(b) <= a.ptr
Larger(m, n) == IF m >= n THEN m ELSE n

\* Mutant: the size is not rounded up from zero, and a block may be empty.
AsAsked(bytes, alignment) == bytes

\* round_up, of at least one byte and in size_t: every block has an address of its
\* own, unless the sum wraps around.
RoundUp(bytes, alignment) ==
    LET value == Larger(bytes, 1)
        unit == Larger(alignment, 1)
        remainder == value % unit
    IN IF remainder = 0 THEN value ELSE (value + (unit - remainder)) % WordSize

Piece(p, n, r) == [ptr |-> p, bytes |-> n, root |-> r]

\* Mutant: the rest of a block that is larger than asked for is dropped.
Dropped(b, want) == {}

\* What is left of a block when its first want bytes are handed out.
Rest(b, want) ==
    IF b.bytes > want THEN {Piece(b.ptr + want, b.bytes - want, b.root)} ELSE {}

\* live_blocks_[ptr] = ..., and the caller's buffer.
Grant(h, b, want, bytes) ==
    /\ live' = {x \in live : x.ptr # b.ptr} \union {Piece(b.ptr, want, b.root)}
    /\ allocated' = allocated + want
    /\ buffer' = [buffer EXCEPT ![h] = [ptr |-> b.ptr, bytes |-> bytes]]
    /\ current' = current \union {h}
    /\ wrapped' = (wrapped \/ want < bytes)
    /\ UNCHANGED robbed

Fits(want) == {b \in free : b.bytes >= want}
BestFits(want) == {b \in Fits(want) : \A c \in Fits(want) : b.bytes <= c.bytes}

AllocateFromFree(h, bytes, alignment) ==
    LET want == RoundUp(bytes, alignment) IN
    \E b \in BestFits(want) :
        /\ free' = (free \ {b}) \union Rest(b, want)
        /\ Grant(h, b, want, bytes)
        /\ UNCHANGED <<roots, poolBytes, committed>>

RootSize(want) == Larger(want, poolBytes \div 16)

\* No free block is large enough: a new root, below the ceiling, which is compared
\* in size_t.  The backend returns as much as it is asked for, in the address space
\* and where nothing else of it lies; or it fails, as it does when it is asked for
\* no bytes, and allocate() with it, without an effect.
AllocateFromBackend(h, bytes, alignment) ==
    LET want == RoundUp(bytes, alignment)
        size == RootSize(want)
    IN
    /\ Fits(want) = {}
    /\ (committed + size) % WordSize <= poolBytes
    /\ size > 0
    /\ \E p \in Bases :
          LET root == Piece(p, size, Len(roots) + 1) IN
          /\ End(root) < WordSize
          /\ \A i \in DOMAIN roots : Apart(root, roots[i])
          /\ roots' = Append(roots, root)
          /\ free' = free \union Rest(root, want)
          /\ Grant(h, root, want, bytes)
    /\ committed' = committed + size
    /\ UNCHANGED poolBytes

Allocate(h, bytes, alignment) ==
    /\ h \notin current /\ poolBytes > 0
    /\ \/ AllocateFromFree(h, bytes, alignment)
       \/ AllocateFromBackend(h, bytes, alignment)

-----------------------------------------------------------------------------
\* Mutant: neighbours are merged whatever root they come from.
JustBefore(a, b) == End(a) = b.ptr

Precedes(a, b) == a.root = b.root /\ End(a) = b.ptr

\* release_locked: one pass over the list, which has no two neighbours that are not
\* empty, meets at most one block before and one after.
Before(b) == {f \in free : Precedes(f, b) /\ f.bytes > 0}
After(b) == {f \in free : Precedes(b, f) /\ f.bytes > 0}

BeginOf(b) == IF Before(b) = {} THEN b.ptr ELSE (CHOOSE f \in Before(b) : TRUE).ptr

\* Mutant: the size of the following block is taken for its end.
SizeForEnd(b) == IF After(b) = {} THEN End(b) ELSE (CHOOSE f \in After(b) : TRUE).bytes

EndOf(b) == IF After(b) = {} THEN End(b) ELSE End(CHOOSE f \in After(b) : TRUE)

\* Empty blocks, once a size has wrapped around, that lie where b or what it is
\* merged into begins or ends.  The pass meets them before or after it moves that
\* border, and only erases those that lie at the border when it meets them.
EmptyAt(b) == {f \in free : f.bytes = 0 /\ f.root = b.root
                            /\ f.ptr \in {BeginOf(b), b.ptr, End(b), EndOf(b)}}
MayStay(b) == {f \in EmptyAt(b) : f.ptr \notin {b.ptr, End(b)} \intersect {BeginOf(b), EndOf(b)}}

\* Mutant: the block is put back as it is.
Unmerged(b) == free \union {b}

Merged(b) ==
    (free \ (Before(b) \union After(b) \union EmptyAt(b)))
        \union {Piece(BeginOf(b), EndOf(b) - BeginOf(b), b.root)}

\* A pointer that is not live is ignored.  A buffer that was given back before
\* can hold a pointer that is live again, in another caller's buffer.
Deallocate(h) ==
    /\ buffer[h] # NoBuffer
    /\ \E b \in live :
          /\ b.ptr = buffer[h].ptr
          /\ live' = live \ {b}
          /\ allocated' = allocated - b.bytes
          /\ \E stay \in SUBSET MayStay(b) : free' = Merged(b) \union stay
          /\ current' = current \ {h}
          /\ robbed' = (robbed \union {g \in current : buffer[g].ptr = b.ptr}) \ {h}
    /\ UNCHANGED <<roots, poolBytes, committed, buffer, wrapped>>

\* Giving back what another buffer had given back already: no effect.
DeallocateNothing(h) ==
    /\ h \in current
    /\ \A b \in live : b.ptr # buffer[h].ptr
    /\ current' = current \ {h} /\ robbed' = robbed \ {h}
    /\ UNCHANGED <<roots, free, live, pool, buffer, wrapped>>

Initialize(bytes) ==
    /\ poolBytes' = bytes
    /\ UNCHANGED <<roots, free, live, committed, allocated, buffer, current, robbed, wrapped>>

\* Also the destructor.  The callers' buffers point to memory that is gone.
Shutdown ==
    /\ roots' = <<>> /\ free' = {} /\ live' = {}
    /\ poolBytes' = 0 /\ committed' = 0 /\ allocated' = 0
    /\ current' = {} /\ robbed' = {} /\ wrapped' = FALSE
    /\ UNCHANGED buffer

Init ==
    /\ roots = <<>> /\ free = {} /\ live = {}
    /\ poolBytes = 0 /\ committed = 0 /\ allocated = 0
    /\ buffer = [h \in Handles |-> NoBuffer]
    /\ current = {} /\ robbed = {} /\ wrapped = FALSE

Next ==
    \/ \E h \in Handles :
          \/ \E bytes \in Sizes, alignment \in Alignments : Allocate(h, bytes, alignment)
          \/ Deallocate(h) \/ DeallocateNothing(h)
    \/ \E bytes \in PoolSizes : Initialize(bytes)
    \/ Shutdown

Spec == Init /\ [][Next]_vars

-----------------------------------------------------------------------------
(* Properties. *)

TypeOK ==
    /\ roots \in Seq(Block)
    /\ free \subseteq Block /\ live \subseteq Block
    /\ poolBytes \in Nat /\ committed \in Nat /\ allocated \in Nat
    /\ buffer \in [Handles -> [ptr : Nat, bytes : Nat] \union {NoBuffer}]
    /\ \A h \in current : buffer[h] # NoBuffer
    /\ robbed \subseteq current /\ current \subseteq Handles
    /\ wrapped \in BOOLEAN

\* Free and live blocks lie inside their roots and nowhere overlap, whatever was
\* split, merged and given back twice, as long as no size has wrapped around.
BlocksAreApart ==
    ~wrapped =>
        /\ \A b \in free \union live :
              /\ b.root \in DOMAIN roots
              /\ roots[b.root].ptr <= b.ptr /\ End(b) <= End(roots[b.root])
        /\ \A a, b \in free \union live : a # b => Apart(a, b)
        /\ free \intersect live = {}

\* A buffer that was granted and not given back has its bytes to itself.
HasItsBytes(g) ==
    /\ \E b \in live : b.ptr = buffer[g].ptr /\ buffer[g].bytes <= b.bytes
    /\ \A h \in current \ (robbed \union {g}) : buffer[h].ptr # buffer[g].ptr

\* allocate() gives every caller memory of its own, until somebody gives back a
\* pointer for the second time, or a size has wrapped around.
GrantsAreExclusive == ~wrapped => \A g \in current \ robbed : HasItsBytes(g)

BytesOf(S) == MapThenSumSet(LAMBDA b : b.bytes, S)

\* bytes_available: size_t arithmetic.
BytesAvailable == (BytesOf(free) + poolBytes - committed) % WordSize

\* No byte is lost to splitting: what is not handed out can still be had, as
\* bytes_used() and bytes_available() report, unless initialize() has set the
\* ceiling below what is committed; and when everything has been given back the
\* roots are whole again, in whatever order that happened.  A size that has wrapped
\* around spoils the books as it does the layout.
NoByteIsLost ==
    /\ TypeOK
    /\ ~wrapped =>
          /\ allocated = BytesOf(live)
          /\ committed = BytesOf(live) + BytesOf(free)
          /\ committed <= poolBytes => allocated + BytesAvailable = poolBytes
          /\ live = {} => free = {roots[i] : i \in DOMAIN roots}
=============================================================================
