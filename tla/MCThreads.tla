----------------------------- MODULE MCThreads -----------------------------
EXTENDS Threads, TLC

CONSTANTS k1, k2, v1, v2, A, B, t1, t2, t3

Set(k, v) == [key |-> k, val |-> v]

\* Two keys in collections of their own.
Apart == k1 :> A @@ k2 :> B

\* One thread of each kind.
Everyone == t1 :> {"write"} @@ t2 :> {"commit"} @@ t3 :> {"checkpoint", "close"}

\* Calls of each thread: two batches, and two of what overtakes them.
FiveCalls == t1 :> 1 @@ t2 :> 2 @@ t3 :> 2
FourCalls == t1 :> 2 @@ t2 :> 1 @@ t3 :> 1

\* A batch over two keys, and one that writes a key twice.
BothKeys == {<<Set(k1, v1), Set(k2, v1)>>}
TwoBatches == BothKeys \union {<<Set(k1, NoRecord), Set(k1, v1)>>}
=============================================================================
