---------------------------- MODULE DeviceClaims ----------------------------
(***************************************************************************)
(* What is said of the memory manager, for every size_t.  A size within an *)
(* alignment of 2^64 is rounded up to 0, and neither claim holds then.     *)
(***************************************************************************)
EXTENDS MCDeviceMemory

\* GpuMemoryManager.cpp:38: "A zero-byte request still reserves one unit, so the
\* returned pointer is unique and round-trips through deallocate()".  A request for
\* SIZE_MAX bytes reserves none: its buffer lies over an empty block, and the next
\* one granted has the same pointer.
EveryGrantIsItsOwn == \A g \in current \ robbed : HasItsBytes(g)

\* GpuMemoryManager.hpp:62: "Return a span to the free list, merging it with any
\* physically adjacent free block from the same root allocation."  An empty block
\* that another was merged across stays in the list, inside a free block or between
\* two of them.
FreeBlocksAreMerged == \A a, b \in free : a # b => Apart(a, b) /\ ~Precedes(a, b)
=============================================================================
