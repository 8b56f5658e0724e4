---------------------------- MODULE DeviceProofs ----------------------------
(***************************************************************************)
(* What the GPU keeps.  Blocks of device memory never overlap, a buffer    *)
(* that was granted has its bytes to itself, and no byte of the pool is    *)
(* lost, for all sizes, alignments and ceilings and wherever the backend   *)
(* places its roots, from the start or from any shutdown() until a size    *)
(* that wraps around in round_up() is granted.  The four containers of the *)
(* inverted file on the device agree, it holds what the memory holds, and  *)
(* a search of the two is answered from that, for all ids, places, batches *)
(* and numbers of lists, probes and iterations.  Every query that waits    *)
(* for the device is answered from one batch, once, and leaves in its      *)
(* turn, for any number of callers, of threads that flush, and of starts.  *)
(***************************************************************************)
EXTENDS DeviceMemory, GpuHybrid, Batcher, FiniteSetTheorems, SequenceTheorems,
        WellFoundedInduction, TLAPS

Blocks == free \union live

\* Blocks laid out in roots: none is empty (it would be apart from itself), each
\* lies in its root, and no two of them overlap.
LaidOut(R, S) ==
    /\ R \in Seq(Block) /\ S \subseteq Block
    /\ \A b \in S :
          /\ b.bytes > 0 /\ b.root \in DOMAIN R
          /\ R[b.root].ptr <= b.ptr /\ End(b) <= End(R[b.root])
    /\ \A a, b \in S : a # b => Apart(a, b)

RootsAreApart(R) == \A i, j \in DOMAIN R : i # j => Apart(R[i], R[j])

Buffers ==
    /\ buffer \in [Handles -> [ptr : Nat, bytes : Nat] \union {NoBuffer}]
    /\ current \subseteq Handles /\ robbed \subseteq current
    /\ \A g \in current : buffer[g] # NoBuffer

\* What holds whatever was granted.
Types ==
    /\ roots \in Seq(Block) /\ free \subseteq Block /\ live \subseteq Block
    /\ poolBytes \in Nat /\ committed \in Nat
    /\ Buffers /\ wrapped \in BOOLEAN

\* What holds while no size has wrapped around.
Sound ==
    /\ RootsAreApart(roots) /\ LaidOut(roots, Blocks)
    /\ free \intersect live = {}
    /\ \A g \in current \ robbed : HasItsBytes(g)

IInv == Types /\ (~wrapped => Sound)

-----------------------------------------------------------------------------
\* round_up returns at least what it is given, and then at least one byte, unless
\* the sum wraps around.
LEMMA RoundUpEnough ==
    ASSUME NEW bytes \in Nat, NEW alignment \in 0..(WordSize - 1)
    PROVE  /\ RoundUp(bytes, alignment) \in Nat
           /\ RoundUp(bytes, alignment) >= bytes => RoundUp(bytes, alignment) > 0
<1> USE DeviceMemoryAssumption
<1> DEFINE value == Larger(bytes, 1)
<1> DEFINE unit == Larger(alignment, 1)
<1> DEFINE sum == value + (unit - (value % unit))
<1>1. value \in Nat /\ value > 0 /\ value >= bytes /\ unit \in Nat /\ unit > 0
  BY DEF Larger
<1>2. (bytes = 0 => value = 1) /\ (unit < WordSize)
  BY DEF Larger
<1> HIDE DEF value, unit
<1>3. value % unit \in 0..(unit - 1)
  BY <1>1
<1>4. RoundUp(bytes, alignment) = IF value % unit = 0 THEN value ELSE sum % WordSize
  BY DEF RoundUp, value, unit
<1>5. sum \in Nat
  BY <1>1, <1>3
<1>6. ASSUME value % unit # 0, bytes = 0
      PROVE  sum % WordSize = unit
  <2>1. value = 1 /\ unit > 1
    BY <1>1, <1>2, <1>3, <1>6
  <2>2. value % unit = 1
    BY <2>1, <1>1
  <2>3. sum = unit
    BY <1>1, <2>1, <2>2
  <2> HIDE DEF sum
  <2> QED BY <1>1, <1>2, <2>3
<1> HIDE DEF sum
<1>7. sum % WordSize \in Nat
  BY <1>5
<1> QED BY <1>1, <1>4, <1>6, <1>7

-----------------------------------------------------------------------------
(* Splitting and merging, as facts about a set of blocks. *)

\* Two blocks that are laid out do not begin at the same address.
LEMMA OwnAddress ==
    ASSUME NEW R, NEW S, LaidOut(R, S), NEW a \in S, NEW b \in S, a.ptr = b.ptr
    PROVE  a = b
<1>1. a \in Block /\ b \in Block /\ a.bytes > 0 /\ b.bytes > 0
  BY DEF LaidOut
<1>2. ~Apart(a, b)
  BY <1>1 DEF Apart, End, Block
<1> QED BY <1>2 DEF LaidOut

\* A part of a layout is a layout.
LEMMA Subset ==
    ASSUME NEW R, NEW S, LaidOut(R, S), NEW T \in SUBSET S
    PROVE  LaidOut(R, T)
BY DEF LaidOut

\* A block is cut in two: both parts are new.
LEMMA Split ==
    ASSUME NEW R, NEW S, LaidOut(R, S), NEW b \in S,
           NEW want \in Nat, 0 < want, want <= b.bytes
    PROVE  /\ LaidOut(R, (S \ {b}) \union {Piece(b.ptr, want, b.root)} \union Rest(b, want))
           /\ Piece(b.ptr, want, b.root) \notin (S \ {b}) \union Rest(b, want)
           /\ \A r \in Rest(b, want) : r \notin S \ {b}
<1> DEFINE head == Piece(b.ptr, want, b.root)
<1> DEFINE tail == Piece(b.ptr + want, b.bytes - want, b.root)
<1>1. b \in Block /\ b.bytes > 0 /\ b.root \in DOMAIN R
      /\ R[b.root].ptr <= b.ptr /\ End(b) <= End(R[b.root])
  BY DEF LaidOut
<1>2. /\ head \in Block /\ head.ptr = b.ptr /\ head.bytes = want /\ head.root = b.root
      /\ End(head) = b.ptr + want /\ End(b) = b.ptr + b.bytes
  BY <1>1 DEF Piece, Block, End
<1>3. want < b.bytes =>
          /\ tail \in Block /\ tail.ptr = b.ptr + want /\ tail.bytes = b.bytes - want
          /\ tail.root = b.root /\ End(tail) = End(b)
  BY <1>1 DEF Piece, Block, End
<1>4. Rest(b, want) = IF want < b.bytes THEN {tail} ELSE {}
  BY <1>1 DEF Rest, Block
<1> HIDE DEF head, tail
<1>5. \A c \in S \ {b} : Apart(c, b) /\ Apart(b, c) /\ c \in Block /\ c.bytes > 0
  BY DEF LaidOut
<1>6. \A c \in S \ {b} : Apart(c, head) /\ Apart(head, c) /\ c # head
  BY <1>1, <1>2, <1>5 DEF Apart, End, Block
<1>7. want < b.bytes => \A c \in S \ {b} : Apart(c, tail) /\ Apart(tail, c) /\ c # tail
  BY <1>1, <1>3, <1>5 DEF Apart, End, Block
<1>8. want < b.bytes => Apart(head, tail) /\ Apart(tail, head) /\ head # tail
  BY <1>1, <1>2, <1>3 DEF Apart, End, Block
<1>9. LaidOut(R, (S \ {b}) \union {head} \union Rest(b, want))
  <2> DEFINE T == (S \ {b}) \union {head} \union Rest(b, want)
  <2>1. T \subseteq Block
    BY <1>2, <1>3, <1>4, <1>5
  <2>2. \A c \in S : c.bytes > 0 /\ c.root \in DOMAIN R
                     /\ R[c.root].ptr <= c.ptr /\ End(c) <= End(R[c.root])
    BY DEF LaidOut
  <2>3. R[b.root] \in Block
    BY <1>1 DEF LaidOut
  <2>4. /\ head.bytes > 0 /\ head.root \in DOMAIN R
        /\ R[head.root].ptr <= head.ptr /\ End(head) <= End(R[head.root])
    BY <1>1, <1>2, <2>3 DEF Block, End
  <2>5. want < b.bytes =>
           /\ tail.bytes > 0 /\ tail.root \in DOMAIN R
           /\ R[tail.root].ptr <= tail.ptr /\ End(tail) <= End(R[tail.root])
    BY <1>1, <1>3, <2>3 DEF Block, End
  <2>6. \A c \in T : /\ c.bytes > 0 /\ c.root \in DOMAIN R
                     /\ R[c.root].ptr <= c.ptr /\ End(c) <= End(R[c.root])
    BY <2>2, <2>4, <2>5, <1>4
  <2>7. \A a, c \in T : a # c => Apart(a, c)
    <3>1. \A a, c \in S : a # c => Apart(a, c)
      BY DEF LaidOut
    <3> QED BY <3>1, <1>4, <1>6, <1>7, <1>8
  <2> HIDE DEF T
  <2>8. LaidOut(R, T)
    BY <2>1, <2>6, <2>7 DEF LaidOut
  <2> QED BY <2>8 DEF T
<1> QED BY <1>4, <1>6, <1>7, <1>8, <1>9 DEF head

\* Where no block is empty every neighbour is merged, and nothing else goes.
LEMMA NoneIsEmpty ==
    ASSUME LaidOut(roots, Blocks), NEW b
    PROVE  /\ Before(b) = {f \in free : Precedes(f, b)}
           /\ After(b) = {f \in free : Precedes(b, f)}
           /\ Merged(b) = {f \in free : ~Precedes(f, b) /\ ~Precedes(b, f)}
                              \union {Piece(BeginOf(b), EndOf(b) - BeginOf(b), b.root)}
           /\ MayStay(b) = {}
<1>1. \A f \in free : f.bytes > 0 /\ f.bytes # 0
  BY DEF LaidOut, Blocks, Block
<1>2. /\ Before(b) = {f \in free : Precedes(f, b)}
      /\ After(b) = {f \in free : Precedes(b, f)}
  BY <1>1 DEF Before, After
<1>3. EmptyAt(b) = {} /\ MayStay(b) = {}
  BY <1>1 DEF EmptyAt, MayStay
<1>4. free \ (Before(b) \union After(b) \union EmptyAt(b)) =
          {f \in free : ~Precedes(f, b) /\ ~Precedes(b, f)}
  BY <1>2, <1>3
<1> QED BY <1>2, <1>3, <1>4 DEF Merged

\* A block that is given back and merged with its neighbours.
LEMMA Merge ==
    ASSUME LaidOut(roots, Blocks), free \intersect live = {}, NEW b \in live
    PROVE  /\ LaidOut(roots, Merged(b) \union (live \ {b}))
           /\ Merged(b) \intersect (live \ {b}) = {}
<1> DEFINE kept == {f \in free : ~Precedes(f, b) /\ ~Precedes(b, f)}
<1> DEFINE others == kept \union (live \ {b})
<1> DEFINE m == Piece(BeginOf(b), EndOf(b) - BeginOf(b), b.root)
<1> DEFINE R == roots[b.root]
<1>1. /\ b \in Block /\ b.bytes > 0 /\ b.root \in DOMAIN roots
      /\ R \in Block /\ R.ptr <= b.ptr /\ End(b) <= End(R)
  BY DEF LaidOut, Blocks
<1>2. /\ BeginOf(b) \in Nat /\ BeginOf(b) <= b.ptr /\ R.ptr <= BeginOf(b)
      /\ \A c \in others : End(c) <= b.ptr => End(c) <= BeginOf(b)
  <2>1. CASE \E f \in free : Precedes(f, b)
    <3> DEFINE left == CHOOSE f \in Before(b) : TRUE
    <3>1. left \in free /\ Precedes(left, b)
      BY <2>1, NoneIsEmpty
    <3>2. BeginOf(b) = left.ptr
      BY <2>1, NoneIsEmpty DEF BeginOf
    <3> HIDE DEF left
    <3>3. left \in Block /\ left.bytes > 0 /\ roots[left.root].ptr <= left.ptr /\ left.root = b.root
      BY <3>1 DEF LaidOut, Blocks, Precedes
    <3>4. ASSUME NEW c \in others, End(c) <= b.ptr
          PROVE  End(c) <= left.ptr
      <4>1. c # left
        BY <3>1
      <4>2. c \in Block /\ c.bytes > 0 /\ Apart(c, left)
        BY <3>1, <4>1 DEF LaidOut, Blocks
      <4> QED BY <3>1, <3>3, <3>4, <4>2 DEF Apart, End, Block, Precedes
    <3> QED BY <1>1, <3>1, <3>2, <3>3, <3>4 DEF Block, Precedes, End
  <2>2. CASE ~ \E f \in free : Precedes(f, b)
    BY <1>1, <2>2, NoneIsEmpty DEF BeginOf, Block
  <2> QED BY <2>1, <2>2
<1>3. /\ EndOf(b) \in Nat /\ End(b) <= EndOf(b) /\ EndOf(b) <= End(R)
      /\ \A c \in others : End(b) <= c.ptr => EndOf(b) <= c.ptr
  <2>1. CASE \E f \in free : Precedes(b, f)
    <3> DEFINE right == CHOOSE f \in After(b) : TRUE
    <3>1. right \in free /\ Precedes(b, right)
      BY <2>1, NoneIsEmpty
    <3>2. EndOf(b) = End(right)
      BY <2>1, NoneIsEmpty DEF EndOf
    <3> HIDE DEF right
    <3>3. right \in Block /\ right.bytes > 0 /\ End(right) <= End(roots[right.root]) /\ right.root = b.root
      BY <3>1 DEF LaidOut, Blocks, Precedes
    <3>4. ASSUME NEW c \in others, End(b) <= c.ptr
          PROVE  End(right) <= c.ptr
      <4>1. c # right
        BY <3>1
      <4>2. c \in Block /\ c.bytes > 0 /\ Apart(c, right)
        BY <3>1, <4>1 DEF LaidOut, Blocks
      <4> QED BY <3>1, <3>3, <3>4, <4>2 DEF Apart, End, Block, Precedes
    <3> QED BY <1>1, <3>1, <3>2, <3>3, <3>4 DEF Block, Precedes, End
  <2>2. CASE ~ \E f \in free : Precedes(b, f)
    BY <1>1, <2>2, NoneIsEmpty DEF EndOf, Block, End
  <2> QED BY <2>1, <2>2
<1>4. /\ m \in Block /\ m.ptr = BeginOf(b) /\ End(m) = EndOf(b) /\ m.bytes > 0
      /\ m.root = b.root
  BY <1>1, <1>2, <1>3 DEF Piece, Block, End
<1> HIDE DEF m
<1>5. \A c \in others : c \in Block /\ c.bytes > 0 /\ c \in Blocks
                       /\ (End(c) <= b.ptr \/ End(b) <= c.ptr)
  BY DEF LaidOut, Blocks, Apart
<1>6. \A c \in others : Apart(c, m) /\ Apart(m, c) /\ c # m
  BY <1>1, <1>2, <1>3, <1>4, <1>5 DEF Apart, End, Block
<1>7. Merged(b) \union (live \ {b}) = others \union {m}
  BY NoneIsEmpty DEF m
<1>8. LaidOut(roots, others \union {m})
  <2>1. roots \in Seq(Block) /\ others \union {m} \subseteq Block
    BY <1>4, <1>5 DEF LaidOut
  <2>2. \A c \in Blocks : c.bytes > 0 /\ c.root \in DOMAIN roots
                        /\ roots[c.root].ptr <= c.ptr /\ End(c) <= End(roots[c.root])
    BY DEF LaidOut
  <2>3. \A a, c \in Blocks : a # c => Apart(a, c)
    BY DEF LaidOut
  <2> HIDE DEF kept
  <2>4. \A c \in others \union {m} :
           /\ c.bytes > 0 /\ c.root \in DOMAIN roots
           /\ roots[c.root].ptr <= c.ptr /\ End(c) <= End(roots[c.root])
    BY <1>1, <1>2, <1>3, <1>4, <1>5, <2>2
  <2>5. \A a, c \in others \union {m} : a # c => Apart(a, c)
    BY <1>5, <1>6, <2>3
  <2> QED BY <2>1, <2>4, <2>5 DEF LaidOut
<1>9. Merged(b) \intersect (live \ {b}) = {}
  BY <1>6, NoneIsEmpty DEF m
<1> QED BY <1>7, <1>8, <1>9

\* Another root that is apart from every root so far.
LEMMA OneMoreRoot ==
    ASSUME NEW R \in Seq(Block), RootsAreApart(R),
           NEW r \in Block, \A i \in DOMAIN R : Apart(r, R[i])
    PROVE  RootsAreApart(Append(R, r))
<1> DEFINE Q == Append(R, r)
<1>1. /\ Len(R) \in Nat /\ DOMAIN R = 1..Len(R) /\ DOMAIN Q = 1..(Len(R) + 1)
      /\ Q[Len(R) + 1] = r /\ \A i \in DOMAIN R : Q[i] = R[i]
  OBVIOUS
<1> HIDE DEF Q
<1>2. \A i \in DOMAIN Q : i \in DOMAIN R \/ i = Len(R) + 1
  BY <1>1
<1>3. RootsAreApart(Q)
  BY <1>1, <1>2 DEF RootsAreApart, Apart
<1> QED BY <1>3 DEF Q

\* A new root, where nothing of the backend lies, as one more block.
LEMMA NewRoot ==
    ASSUME NEW R, NEW S, LaidOut(R, S),
           NEW p \in Nat, NEW size \in Nat, size > 0,
           \A i \in DOMAIN R : Apart(Piece(p, size, Len(R) + 1), R[i])
    PROVE  LET root == Piece(p, size, Len(R) + 1) IN
           LaidOut(Append(R, root), S \union {root}) /\ root \notin S
<1> DEFINE root == Piece(p, size, Len(R) + 1)
<1> DEFINE Q == Append(R, root)
<1>1. R \in Seq(Block) /\ Len(R) \in Nat
  BY DEF LaidOut
<1>2. root \in Block /\ root.bytes > 0 /\ root.root = Len(R) + 1 /\ root.ptr = p
  BY <1>1 DEF Piece, Block
<1>3. \A i \in DOMAIN R : Apart(root, R[i]) /\ R[i] \in Block
  BY <1>1
<1> HIDE DEF root
<1>4. /\ Q \in Seq(Block) /\ root.root \in DOMAIN Q /\ Q[root.root] = root
      /\ \A i \in DOMAIN R : i \in DOMAIN Q /\ Q[i] = R[i]
  BY <1>1, <1>2
<1> HIDE DEF Q
<1>5. \A c \in S : /\ c \in Block /\ c.bytes > 0 /\ c.root \in DOMAIN R
                  /\ R[c.root].ptr <= c.ptr /\ End(c) <= End(R[c.root])
  BY DEF LaidOut
<1>6. \A c \in S : Apart(root, c) /\ Apart(c, root) /\ c # root
  <2> SUFFICES ASSUME NEW c \in S PROVE Apart(root, c) /\ Apart(c, root) /\ c # root
    OBVIOUS
  <2> DEFINE b == R[c.root]
  <2>1. Apart(root, b) /\ b \in Block
    BY <1>3, <1>5
  <2>2. c \in Block /\ c.bytes > 0 /\ b.ptr <= c.ptr /\ End(c) <= End(b)
    BY <1>5
  <2> HIDE DEF b
  <2>3. Apart(root, c) /\ Apart(c, root)
    BY <1>2, <2>1, <2>2 DEF Apart, End, Block
  <2>4. c # root
    BY <1>2, <2>3 DEF Apart, End, Block
  <2> QED BY <2>3, <2>4
<1>7. \A c \in S \union {root} : /\ c.bytes > 0 /\ c.root \in DOMAIN Q
                  /\ Q[c.root].ptr <= c.ptr /\ End(c) <= End(Q[c.root])
  <2>1. root.ptr <= root.ptr /\ End(root) <= End(root)
    BY <1>2 DEF End, Block
  <2> QED BY <2>1, <1>2, <1>4, <1>5
<1>8. \A a, c \in S \union {root} : a # c => Apart(a, c)
  BY <1>6 DEF LaidOut
<1>9. LaidOut(Q, S \union {root})
  BY <1>2, <1>4, <1>5, <1>7, <1>8 DEF LaidOut
<1> QED BY <1>6, <1>9 DEF root, Q

-----------------------------------------------------------------------------
(* What holds whatever is granted. *)

\* What is left of a block is a block.
LEMMA RestIsABlock ==
    ASSUME NEW b \in Block, NEW want \in Nat
    PROVE  Rest(b, want) \subseteq Block
BY DEF Rest, Piece, Block

\* What a block is merged into is a block, and what stays was there before.
LEMMA MergedAreBlocks ==
    ASSUME free \subseteq Block, NEW b \in Block
    PROVE  Merged(b) \subseteq Block /\ \A stay \in SUBSET MayStay(b) : stay \subseteq Block
<1>1. b.ptr \in Nat /\ b.bytes \in Nat /\ b.root \in Nat /\ End(b) \in Nat /\ b.ptr <= End(b)
  BY DEF Block, End
<1>2. BeginOf(b) \in Nat /\ BeginOf(b) <= b.ptr
  <2>1. ASSUME NEW f \in Before(b) PROVE f.ptr \in Nat /\ f.ptr <= b.ptr
    <3>1. f \in Block /\ End(f) = b.ptr
      BY DEF Before, Precedes
    <3> QED BY <3>1 DEF Block, End
  <2> QED BY <1>1, <2>1 DEF BeginOf
<1>3. EndOf(b) \in Nat /\ End(b) <= EndOf(b)
  <2>1. ASSUME NEW f \in After(b) PROVE End(f) \in Nat /\ End(b) <= End(f)
    <3>1. f \in Block /\ f.ptr = End(b)
      BY DEF After, Precedes
    <3> QED BY <1>1, <3>1 DEF Block, End
  <2> QED BY <1>1, <2>1 DEF EndOf
<1>4. EndOf(b) - BeginOf(b) \in Nat
  BY <1>1, <1>2, <1>3
<1>5. Piece(BeginOf(b), EndOf(b) - BeginOf(b), b.root) \in Block
  BY <1>1, <1>2, <1>4 DEF Piece, Block
<1> QED BY <1>5 DEF Merged, MayStay, EmptyAt

\* The buffer that is granted, and the blocks, are what they should be.
LEMMA GrantTypes ==
    ASSUME Types, NEW h \in Handles, NEW b \in Block, NEW want \in Nat, NEW bytes \in Nat,
           Grant(h, b, want, bytes)
    PROVE  live' \subseteq Block /\ Buffers' /\ wrapped' \in BOOLEAN
<1>1. Piece(b.ptr, want, b.root) \in Block
  BY DEF Piece, Block
<1>2. live' \subseteq Block
  BY <1>1 DEF Grant, Types
<1>3. [ptr |-> b.ptr, bytes |-> bytes] \in [ptr : Nat, bytes : Nat]
  BY DEF Block
<1>4. [ptr |-> b.ptr, bytes |-> bytes] # NoBuffer
  BY <1>3, NoBufferAssumption
<1>5. Buffers'
  <2>1. buffer' = [buffer EXCEPT ![h] = [ptr |-> b.ptr, bytes |-> bytes]]
        /\ current' = current \union {h} /\ robbed' = robbed
    BY DEF Grant
  <2> QED BY <1>3, <1>4, <2>1 DEF Types, Buffers
<1> QED BY <1>2, <1>5 DEF Grant

\* One case for each operation of the manager.
LEMMA TypesKeep == ASSUME Types, [Next]_vars PROVE Types'
<1> USE DeviceMemoryAssumption
<1>1. ASSUME NEW h \in Handles, NEW bytes \in Sizes, NEW alignment \in Alignments,
             Allocate(h, bytes, alignment)
      PROVE  Types'
  <2> DEFINE want == RoundUp(bytes, alignment)
  <2>1. bytes \in Nat /\ want \in Nat
    BY RoundUpEnough
  <2> HIDE DEF want
  <2>2. CASE AllocateFromFree(h, bytes, alignment)
    <3>1. PICK b \in free : /\ free' = (free \ {b}) \union Rest(b, want)
                            /\ Grant(h, b, want, bytes)
                            /\ UNCHANGED <<roots, poolBytes, committed>>
      BY <2>2 DEF AllocateFromFree, BestFits, Fits, want
    <3>2. b \in Block
      BY DEF Types
    <3>3. live' \subseteq Block /\ Buffers' /\ wrapped' \in BOOLEAN
      BY <2>1, <3>1, <3>2, GrantTypes
    <3>4. free' \subseteq Block
      BY <2>1, <3>1, <3>2, RestIsABlock DEF Types
    <3> QED BY <3>1, <3>3, <3>4 DEF Types
  <2>3. CASE AllocateFromBackend(h, bytes, alignment)
    <3> DEFINE size == RootSize(want)
    <3>1. size \in Nat
      BY <2>1 DEF RootSize, Larger, Types
    <3> HIDE DEF size
    <3>2. PICK p \in Bases :
             /\ roots' = Append(roots, Piece(p, size, Len(roots) + 1))
             /\ free' = free \union Rest(Piece(p, size, Len(roots) + 1), want)
             /\ Grant(h, Piece(p, size, Len(roots) + 1), want, bytes)
             /\ committed' = committed + size /\ poolBytes' = poolBytes
      BY <2>3 DEF AllocateFromBackend, want, size
    <3> DEFINE root == Piece(p, size, Len(roots) + 1)
    <3>3. root \in Block
      BY <3>1 DEF Types, Piece, Block
    <3> HIDE DEF root
    <3>4. /\ roots' = Append(roots, root) /\ free' = free \union Rest(root, want)
          /\ Grant(h, root, want, bytes)
      BY <3>2 DEF root
    <3>5. live' \subseteq Block /\ Buffers' /\ wrapped' \in BOOLEAN
      BY <2>1, <3>3, <3>4, GrantTypes
    <3>6. free' \subseteq Block /\ roots' \in Seq(Block)
      BY <2>1, <3>3, <3>4, RestIsABlock DEF Types
    <3> QED BY <3>1, <3>2, <3>5, <3>6 DEF Types
  <2> QED BY <1>1, <2>2, <2>3 DEF Allocate
<1>2. ASSUME NEW h \in Handles, Deallocate(h)
      PROVE  Types'
  <2>1. PICK b \in live :
           /\ live' = live \ {b}
           /\ \E stay \in SUBSET MayStay(b) : free' = Merged(b) \union stay
           /\ current' = current \ {h}
           /\ robbed' = (robbed \union {g \in current : buffer[g].ptr = b.ptr}) \ {h}
           /\ UNCHANGED <<roots, poolBytes, committed, buffer, wrapped>>
    BY <1>2 DEF Deallocate
  <2>2. free' \subseteq Block
    BY <2>1, MergedAreBlocks DEF Types
  <2> QED BY <2>1, <2>2 DEF Types, Buffers
<1>3. ASSUME NEW h \in Handles, DeallocateNothing(h)
      PROVE  Types'
  BY <1>3 DEF DeallocateNothing, pool, Types, Buffers
<1>4. ASSUME NEW bytes \in PoolSizes, Initialize(bytes)
      PROVE  Types'
  BY <1>4 DEF Initialize, Types, Buffers
<1>5. CASE Shutdown
  <2>1. roots' \in Seq(Block)
    BY <1>5 DEF Shutdown
  <2>2. free' \subseteq Block /\ live' \subseteq Block /\ Buffers' /\ wrapped' \in BOOLEAN
    BY <1>5 DEF Shutdown, Types, Buffers
  <2>3. poolBytes' \in Nat /\ committed' \in Nat
    BY <1>5 DEF Shutdown
  <2> QED BY <2>1, <2>2, <2>3 DEF Types
<1>6. CASE UNCHANGED vars
  BY <1>6 DEF vars, pool, Types, Buffers
<1> QED BY <1>1, <1>2, <1>3, <1>4, <1>5, <1>6 DEF Next

-----------------------------------------------------------------------------
(* Granting the first bytes of a block that is not live. *)

\* The head of a free block is granted: the layout stays, and the buffer is new.
LEMMA GrantKeeps ==
    ASSUME Types, Sound,
           NEW h \in Handles, h \notin current,
           NEW R, NEW S, NEW b \in S, b \notin live, live \subseteq S, LaidOut(R, S),
           NEW want \in Nat, 0 < want, want <= b.bytes, NEW bytes \in Nat, bytes <= want,
           roots' = R, free' = ((S \ live) \ {b}) \union Rest(b, want),
           Grant(h, b, want, bytes)
    PROVE  /\ LaidOut(roots, Blocks)' /\ (free \intersect live = {})'
           /\ \A g \in current' \ robbed' : HasItsBytes(g)'
<1> DEFINE head == Piece(b.ptr, want, b.root)
<1>1. \A x \in live : x.ptr # b.ptr
  BY OwnAddress
<1>2. live' = live \union {head}
  BY <1>1 DEF Grant
<1>3. /\ LaidOut(R, (S \ {b}) \union {head} \union Rest(b, want))
      /\ head \notin (S \ {b}) \union Rest(b, want)
      /\ \A r \in Rest(b, want) : r \notin S \ {b}
  BY Split
<1>4. LaidOut(roots, Blocks)'
  <2>1. Blocks' = (S \ {b}) \union {head} \union Rest(b, want)
    BY <1>2 DEF Blocks
  <2> QED BY <1>3, <2>1
<1>5. (free \intersect live = {})'
  BY <1>2, <1>3
<1>6. b \in Block /\ head.ptr = b.ptr /\ head.bytes = want
  BY DEF LaidOut, Piece
<1>7. \A g \in current' \ robbed' : HasItsBytes(g)'
  <2>1. current' \ robbed' = (current \ robbed) \union {h} /\ robbed' = robbed
    BY DEF Grant, Types, Buffers
  <2>2. buffer'[h] = [ptr |-> b.ptr, bytes |-> bytes] /\ \A g \in current : buffer'[g] = buffer[g]
    BY DEF Grant, Types, Buffers
  <2>3. \A g \in current \ robbed :
           \E x \in live : x.ptr = buffer[g].ptr /\ buffer[g].bytes <= x.bytes
    BY DEF Sound, HasItsBytes
  <2>4. \A g \in current \ robbed : buffer[g].ptr # b.ptr
    BY <1>1, <2>3
  <2>5. \A g, f \in current \ robbed : g # f => buffer[g].ptr # buffer[f].ptr
    BY DEF Sound, HasItsBytes
  <2>6. \A g \in current' \ robbed' :
           \E x \in live' : x.ptr = buffer'[g].ptr /\ buffer'[g].bytes <= x.bytes
    BY <1>2, <1>6, <2>1, <2>2, <2>3
  <2>7. \A g, f \in current' \ robbed' : g # f => buffer'[g].ptr # buffer'[f].ptr
    BY <2>1, <2>2, <2>4, <2>5
  <2> QED BY <2>6, <2>7 DEF HasItsBytes
<1> QED BY <1>4, <1>5, <1>7

-----------------------------------------------------------------------------
\* A manager without roots keeps the invariant.
LEMMA Initially == Init => IInv
<1> SUFFICES ASSUME Init PROVE IInv
  OBVIOUS
<1>1. roots = <<>> /\ Blocks = {} /\ roots \in Seq(Block) /\ DOMAIN roots = {}
  BY DEF Init, Blocks
<1>2. RootsAreApart(roots) /\ LaidOut(roots, Blocks)
  BY <1>1 DEF RootsAreApart, LaidOut
<1>3. Types
  BY <1>1 DEF Init, Types, Buffers
<1>4. Sound
  BY <1>2 DEF Init, Sound
<1> QED BY <1>3, <1>4 DEF IInv

\* A size that has wrapped around is remembered until shutdown().
LEMMA OnlyShutdownHeals == ASSUME wrapped, [Next]_vars, ~wrapped' PROVE Shutdown
<1>1. ASSUME NEW h \in Handles, NEW bytes \in Sizes, NEW alignment \in Alignments,
             Allocate(h, bytes, alignment)
      PROVE  wrapped'
  BY <1>1 DEF Allocate, AllocateFromFree, AllocateFromBackend, Grant
<1>2. ASSUME NEW h \in Handles, Deallocate(h) \/ DeallocateNothing(h)
      PROVE  wrapped' = wrapped
  BY <1>2 DEF Deallocate, DeallocateNothing
<1>3. ASSUME NEW bytes \in PoolSizes, Initialize(bytes)
      PROVE  wrapped' = wrapped
  BY <1>3 DEF Initialize
<1> QED BY <1>1, <1>2, <1>3 DEF Next, vars

\* What is granted while no size wraps around is as much as was asked for.
LEMMA EnoughIsGranted ==
    ASSUME NEW h \in Handles, NEW bytes \in Sizes, NEW alignment \in Alignments,
           Allocate(h, bytes, alignment), ~wrapped'
    PROVE  LET want == RoundUp(bytes, alignment) IN
           bytes \in Nat /\ want \in Nat /\ 0 < want /\ bytes <= want
<1> DEFINE want == RoundUp(bytes, alignment)
<1>1. bytes \in Nat /\ want \in Nat /\ (want >= bytes => want > 0)
  BY DeviceMemoryAssumption, RoundUpEnough
<1>2. ~(want < bytes)
  <2> HIDE DEF want
  <2>1. AllocateFromFree(h, bytes, alignment) \/ AllocateFromBackend(h, bytes, alignment)
    BY DEF Allocate
  <2> QED BY <2>1 DEF AllocateFromFree, AllocateFromBackend, Grant, want
<1> HIDE DEF want
<1>3. 0 < want /\ bytes <= want
  BY <1>1, <1>2
<1> QED BY <1>1, <1>3 DEF want

\* After shutdown() nothing is laid out.
LEMMA ShutdownSound == ASSUME Shutdown PROVE Sound'
<1>1. roots' = <<>> /\ Blocks' = {} /\ roots' \in Seq(Block) /\ DOMAIN roots' = {}
  BY DEF Shutdown, Blocks
<1>2. RootsAreApart(roots)' /\ LaidOut(roots, Blocks)'
  BY <1>1 DEF RootsAreApart, LaidOut
<1> QED BY <1>2 DEF Shutdown, Sound

\* One case for each operation of the manager.
LEMMA SoundStep == ASSUME Types, Sound, ~wrapped, [Next]_vars, ~wrapped' PROVE Sound'
<1> USE DeviceMemoryAssumption
<1>1. ASSUME NEW h \in Handles, NEW bytes \in Sizes, NEW alignment \in Alignments,
             Allocate(h, bytes, alignment)
      PROVE  Sound'
  <2> DEFINE want == RoundUp(bytes, alignment)
  <2>1. bytes \in Nat /\ want \in Nat /\ 0 < want /\ bytes <= want /\ h \notin current
    BY <1>1, EnoughIsGranted DEF Allocate
  <2> HIDE DEF want
  <2>2. CASE AllocateFromFree(h, bytes, alignment)
    <3>1. PICK b \in free : /\ b.bytes >= want
                            /\ free' = (free \ {b}) \union Rest(b, want)
                            /\ Grant(h, b, want, bytes)
                            /\ UNCHANGED roots
      BY <2>2 DEF AllocateFromFree, BestFits, Fits, want
    <3>2. /\ b \in Blocks /\ b \notin live /\ live \subseteq Blocks /\ free = Blocks \ live
          /\ LaidOut(roots, Blocks) /\ b.bytes \in Nat
      BY DEF Sound, Blocks, LaidOut, Block
    <3>3. want <= b.bytes /\ roots' = roots
          /\ free' = ((Blocks \ live) \ {b}) \union Rest(b, want)
      BY <2>1, <3>1, <3>2
    <3>4. /\ LaidOut(roots, Blocks)' /\ (free \intersect live = {})'
          /\ \A g \in current' \ robbed' : HasItsBytes(g)'
      BY <2>1, <3>1, <3>2, <3>3, GrantKeeps
    <3> QED BY <3>1, <3>4 DEF Sound, RootsAreApart
  <2>3. CASE AllocateFromBackend(h, bytes, alignment)
    <3> DEFINE size == RootSize(want)
    <3>1. size \in Nat /\ size > 0 /\ want <= size
      BY <2>1 DEF RootSize, Larger, Types
    <3> HIDE DEF size
    <3>2. PICK p \in Bases :
             /\ \A i \in DOMAIN roots : Apart(Piece(p, size, Len(roots) + 1), roots[i])
             /\ roots' = Append(roots, Piece(p, size, Len(roots) + 1))
             /\ free' = free \union Rest(Piece(p, size, Len(roots) + 1), want)
             /\ Grant(h, Piece(p, size, Len(roots) + 1), want, bytes)
      BY <2>3 DEF AllocateFromBackend, want, size
    <3> DEFINE root == Piece(p, size, Len(roots) + 1)
    <3>3. p \in Nat /\ LaidOut(roots, Blocks)
      BY DEF Sound
    <3>4. LaidOut(roots', Blocks \union {root}) /\ root \notin Blocks
      BY <3>1, <3>2, <3>3, NewRoot
    <3>5. root.bytes = size
      BY DEF Piece
    <3> DEFINE S == Blocks \union {root}
    <3>6. /\ root \in S /\ root \notin live /\ live \subseteq S
          /\ free' = ((S \ live) \ {root}) \union Rest(root, want)
      BY <3>2, <3>4 DEF Sound, Blocks
    <3>7. want <= root.bytes /\ Grant(h, root, want, bytes)
      BY <3>1, <3>2, <3>5
    <3>8. RootsAreApart(roots)'
      <4>1. roots \in Seq(Block) /\ RootsAreApart(roots)
        BY <3>3 DEF Sound, LaidOut
      <4>2. roots' = Append(roots, root) /\ \A i \in DOMAIN roots : Apart(root, roots[i])
        BY <3>2
      <4>3. root \in Block
        BY <3>1, <3>3, <4>1 DEF Piece, Block
      <4> HIDE DEF root
      <4> QED BY <4>1, <4>2, <4>3, OneMoreRoot
    <3> HIDE DEF root, S
    <3>9. /\ LaidOut(roots, Blocks)' /\ (free \intersect live = {})'
           /\ \A g \in current' \ robbed' : HasItsBytes(g)'
      BY <2>1, <3>4, <3>6, <3>7, GrantKeeps DEF S
    <3> QED BY <3>8, <3>9 DEF Sound
  <2> QED BY <1>1, <2>2, <2>3 DEF Allocate
<1>2. ASSUME NEW h \in Handles, Deallocate(h)
      PROVE  Sound'
  <2>1. PICK b \in live :
           /\ b.ptr = buffer[h].ptr
           /\ live' = live \ {b}
           /\ \E stay \in SUBSET MayStay(b) : free' = Merged(b) \union stay
           /\ current' = current \ {h}
           /\ robbed' = (robbed \union {g \in current : buffer[g].ptr = b.ptr}) \ {h}
           /\ UNCHANGED <<roots, buffer, wrapped>>
    BY <1>2 DEF Deallocate
  <2>2. free' = Merged(b)
    BY <2>1, NoneIsEmpty DEF Sound
  <2>3. LaidOut(roots, Blocks)' /\ (free \intersect live = {})'
    <3>1. /\ LaidOut(roots, Merged(b) \union (live \ {b}))
          /\ Merged(b) \intersect (live \ {b}) = {}
      BY Merge DEF Sound
    <3> QED BY <2>1, <2>2, <3>1 DEF Blocks
  <2>4. \A g \in current' \ robbed' : HasItsBytes(g)'
    <3>1. \A g \in current' \ robbed' :
             g \in current \ robbed /\ buffer'[g] = buffer[g] /\ buffer[g].ptr # b.ptr
      BY <2>1 DEF Types, Buffers
    <3> QED BY <2>1, <3>1 DEF Sound, HasItsBytes
  <2> QED BY <2>1, <2>3, <2>4 DEF Sound, RootsAreApart
<1>3. ASSUME NEW h \in Handles, DeallocateNothing(h)
      PROVE  Sound'
  BY <1>3 DEF DeallocateNothing, pool, Sound, HasItsBytes, Blocks
<1>4. ASSUME NEW bytes \in PoolSizes, Initialize(bytes)
      PROVE  Sound'
  BY <1>4 DEF Initialize, Sound, HasItsBytes, Blocks
<1>5. CASE UNCHANGED vars
  BY <1>5 DEF vars, pool, Sound, HasItsBytes, Blocks
<1> QED BY <1>1, <1>2, <1>3, <1>4, <1>5, ShutdownSound DEF Next

LEMMA Keeps == ASSUME IInv, [Next]_vars PROVE IInv'
<1>1. Types'
  BY TypesKeep DEF IInv
<1>2. wrapped /\ ~wrapped' => Sound'
  BY OnlyShutdownHeals, ShutdownSound
<1> QED BY <1>1, <1>2, SoundStep DEF IInv, Types

\* The layout of device memory is sound in every reachable state in which no size
\* has wrapped around since the last shutdown().
THEOREM LayoutInvariant == Spec => []IInv
BY Initially, Keeps, PTL DEF Spec

\* BlocksAreApart: best fit, splitting and merging never make two blocks overlap
\* or leave their root, as long as no size has wrapped around.
THEOREM MemoryIsApart == Spec => []BlocksAreApart
<1>1. IInv => BlocksAreApart
  BY DEF IInv, Sound, LaidOut, Blocks, BlocksAreApart
<1> QED BY LayoutInvariant, <1>1, PTL

\* GrantsAreExclusive: allocate() gives every caller memory of its own, as long as
\* no size has wrapped around and nobody gives back a pointer twice.
THEOREM GrantsStayExclusive == Spec => []GrantsAreExclusive
<1>1. IInv => GrantsAreExclusive
  BY DEF IInv, Sound, GrantsAreExclusive
<1> QED BY LayoutInvariant, <1>1, PTL

-----------------------------------------------------------------------------
(* Sums.  What MapThenSumSet adds up is a function, defined by recursion   *)
(* over the subsets of a finite set.  It exists, for otherwise there would *)
(* be a least set without one, and it does not depend on the order in      *)
(* which the elements are chosen.                                          *)

Chosen(s) == CHOOSE x \in s : TRUE
OneMore(g, s) == IF s = {} THEN 0 ELSE Chosen(s).bytes + g[s \ {Chosen(s)}]
Solves(g, S) == g = [s \in SUBSET S |-> OneMore(g, s)]
Sums(S) == CHOOSE g : Solves(g, S)

\* Among sets of parts of a finite set there is a least one.
LEMMA LeastSet ==
    ASSUME NEW P, IsFiniteSet(P), NEW B, \A S \in B : S \subseteq P, B # {}
    PROVE  \E S \in B : \A T \in B : T \subseteq S => T = S
<1>1. IsWellFoundedOn(StrictSubsetOrdering(P), SUBSET P)
  BY FS_StrictSubsetOrderingWellFounded, FS_FiniteSubsetsOfFinite
<1>2. PICK S \in B : \A T \in B : ~(<<T, S>> \in StrictSubsetOrdering(P))
  BY <1>1, WFMin
<1> QED BY <1>2 DEF StrictSubsetOrdering

\* The element that a fold takes first is one of the set.
LEMMA ChosenIsMember == ASSUME NEW s, s # {} PROVE Chosen(s) \in s
BY DEF Chosen

\* What it is to solve the equation of the fold at a part.
LEMMA SolutionAt ==
    ASSUME NEW g, NEW S, Solves(g, S), NEW s \in SUBSET S
    PROVE  g[s] = OneMore(g, s)
BY DEF Solves

\* Two solutions agree where both are defined.
LEMMA SolutionsAgree ==
    ASSUME NEW S, NEW T, T \subseteq S, IsFiniteSet(S), NEW g, NEW h, Solves(g, S), Solves(h, T)
    PROVE  \A s \in SUBSET T : g[s] = h[s]
<1> DEFINE B == {s \in SUBSET T : g[s] # h[s]}
<1>1. SUFFICES ASSUME B # {} PROVE FALSE
  OBVIOUS
<1>2. PICK s \in B : \A r \in B : r \subseteq s => r = s
  <2>1. \A s \in B : s \subseteq S
    OBVIOUS
  <2> HIDE DEF B
  <2> QED BY <1>1, <2>1, LeastSet
<1>3. g[s] = OneMore(g, s) /\ h[s] = OneMore(h, s)
  BY SolutionAt
<1>4. CASE s = {}
  BY <1>2, <1>3, <1>4 DEF OneMore
<1>5. CASE s # {}
  <2>1. Chosen(s) \in s
    BY <1>5, ChosenIsMember
  <2>2. s \ {Chosen(s)} \notin B /\ s \ {Chosen(s)} \in SUBSET T
    BY <1>2, <2>1
  <2>3. g[s \ {Chosen(s)}] = h[s \ {Chosen(s)}]
    BY <2>2
  <2> QED BY <1>2, <1>3, <2>3 DEF OneMore
<1> QED BY <1>4, <1>5

\* Every finite set has its sums.
LEMMA SumsExist ==
    ASSUME NEW S, IsFiniteSet(S)
    PROVE  Solves(Sums(S), S)
<1> DEFINE B == {T \in SUBSET S : ~Solves(Sums(T), T)}
<1>1. SUFFICES ASSUME B # {} PROVE FALSE
  OBVIOUS
<1>2. PICK T \in B : \A r \in B : r \subseteq T => r = T
  <2>1. \A T \in B : T \subseteq S
    OBVIOUS
  <2> HIDE DEF B
  <2> QED BY <1>1, <2>1, LeastSet
<1>3. \A r \in SUBSET T : r # T => Solves(Sums(r), r)
  BY <1>2
<1> DEFINE Whole(r) == Sums(r)[r]
<1> DEFINE Next1(s) == IF s = {} THEN 0 ELSE Chosen(s).bytes + Whole(s \ {Chosen(s)})
<1> DEFINE g == [s \in SUBSET T |-> Next1(s)]
<1>4. ASSUME NEW r \in SUBSET T, r # T
      PROVE  g[r] = Whole(r)
  <2>1. Whole(r) = OneMore(Sums(r), r)
    BY <1>3, <1>4, SolutionAt
  <2>2. g[r] = Next1(r)
    BY <1>4
  <2>3. CASE r = {}
    BY <2>1, <2>2, <2>3 DEF OneMore
  <2>4. CASE r # {}
    <3> DEFINE q == r \ {Chosen(r)}
    <3>1. q \in SUBSET r /\ q # T /\ q \in SUBSET T
      BY <1>4, <2>4, ChosenIsMember
    <3>2. Solves(Sums(r), r) /\ Solves(Sums(q), q) /\ IsFiniteSet(r)
      BY <1>3, <1>4, <3>1, FS_Subset
    <3>3. Sums(r)[q] = Sums(q)[q]
      BY <3>1, <3>2, SolutionsAgree
    <3>4. OneMore(Sums(r), r) = Chosen(r).bytes + Sums(r)[q]
      BY <2>4 DEF OneMore
    <3>5. Next1(r) = Chosen(r).bytes + Sums(q)[q]
      BY <2>4
    <3> QED BY <2>1, <2>2, <3>3, <3>4, <3>5
  <2> QED BY <2>3, <2>4
<1>5. \A s \in SUBSET T : Next1(s) = OneMore(g, s)
  <2> SUFFICES ASSUME NEW s \in SUBSET T PROVE Next1(s) = OneMore(g, s)
    OBVIOUS
  <2>1. CASE s = {}
    BY <2>1 DEF OneMore
  <2>2. CASE s # {}
    <3>1. s \ {Chosen(s)} \in SUBSET T /\ s \ {Chosen(s)} # T
      BY <2>2, ChosenIsMember
    <3>2. g[s \ {Chosen(s)}] = Whole(s \ {Chosen(s)})
      BY <1>4, <3>1
    <3> HIDE DEF g, Whole
    <3> QED BY <2>2, <3>2 DEF OneMore
  <2> QED BY <2>1, <2>2
<1>6. g = [s \in SUBSET T |-> OneMore(g, s)]
  <2> HIDE DEF Next1
  <2> QED BY <1>5
<1>7. Solves(Sums(T), T)
  <2> HIDE DEF g
  <2>1. Solves(g, T)
    BY <1>6 DEF Solves
  <2> QED BY <2>1 DEF Sums
<1> QED BY <1>2, <1>7

\* The sum of a set without its chosen element.
LEMMA BytesOfChosen ==
    ASSUME NEW S, IsFiniteSet(S)
    PROVE  BytesOf(S) = IF S = {} THEN 0 ELSE Chosen(S).bytes + BytesOf(S \ {Chosen(S)})
<1>1. \A T : BytesOf(T) = Sums(T)[T]
  BY DEF BytesOf, MapThenSumSet, MapThenFoldSet, Sums, Solves, OneMore, Chosen
<1>2. Sums(S)[S] = OneMore(Sums(S), S)
  BY SumsExist, SolutionAt
<1>3. CASE S = {}
  BY <1>1, <1>2, <1>3 DEF OneMore
<1>4. CASE S # {}
  <2> DEFINE r == S \ {Chosen(S)}
  <2>1. r \subseteq S /\ IsFiniteSet(r)
    BY FS_Subset
  <2>2. Sums(S)[r] = Sums(r)[r]
    <3>1. Solves(Sums(S), S) /\ Solves(Sums(r), r)
      BY <2>1, SumsExist
    <3> HIDE DEF r
    <3> QED BY <2>1, <3>1, SolutionsAgree
  <2>3. BytesOf(S) = Sums(S)[S] /\ BytesOf(r) = Sums(r)[r]
    BY <1>1
  <2>4. OneMore(Sums(S), S) = Chosen(S).bytes + Sums(S)[r]
    BY <1>4 DEF OneMore
  <2> QED BY <1>2, <1>4, <2>2, <2>3, <2>4
<1> QED BY <1>3, <1>4

\* The bytes of finitely many blocks are a number.
LEMMA BytesOfIsNat ==
    ASSUME NEW S, IsFiniteSet(S), S \subseteq Block
    PROVE  BytesOf(S) \in Nat
<1> DEFINE B == {T \in SUBSET S : BytesOf(T) \notin Nat}
<1>1. SUFFICES ASSUME B # {} PROVE FALSE
  OBVIOUS
<1>2. PICK T \in B : \A r \in B : r \subseteq T => r = T
  <2>1. \A T \in B : T \subseteq S
    OBVIOUS
  <2> HIDE DEF B
  <2> QED BY <1>1, <2>1, LeastSet
<1>3. BytesOf(T) = IF T = {} THEN 0 ELSE Chosen(T).bytes + BytesOf(T \ {Chosen(T)})
  BY FS_Subset, BytesOfChosen
<1>4. T # {} /\ Chosen(T) \in T
  BY <1>2, <1>3, ChosenIsMember
<1>5. Chosen(T).bytes \in Nat
  BY <1>4 DEF Block
<1>6. BytesOf(T \ {Chosen(T)}) \in Nat
  BY <1>2, <1>4
<1> QED BY <1>2, <1>3, <1>4, <1>5, <1>6

\* The sum of a set without any of its elements.
LEMMA BytesOfOther ==
    ASSUME NEW S, IsFiniteSet(S), S \subseteq Block, NEW b \in S
    PROVE  BytesOf(S) = b.bytes + BytesOf(S \ {b})
<1> DEFINE B == {T \in SUBSET S : \E x \in T : BytesOf(T) # x.bytes + BytesOf(T \ {x})}
<1>1. SUFFICES ASSUME B # {} PROVE FALSE
  OBVIOUS
<1>2. PICK T \in B : \A r \in B : r \subseteq T => r = T
  <2>1. \A T \in B : T \subseteq S
    OBVIOUS
  <2> HIDE DEF B
  <2> QED BY <1>1, <2>1, LeastSet
<1>3. PICK x \in T : BytesOf(T) # x.bytes + BytesOf(T \ {x})
  BY <1>2
<1> DEFINE y == Chosen(T)
<1>4. y \in T /\ BytesOf(T) = y.bytes + BytesOf(T \ {y})
  BY <1>2, FS_Subset, BytesOfChosen, ChosenIsMember
<1> HIDE DEF y
<1>5. x # y
  BY <1>3, <1>4
<1>6. T \ {x} \notin B /\ T \ {y} \notin B
  BY <1>2, <1>4
<1>7. /\ BytesOf(T \ {y}) = x.bytes + BytesOf((T \ {y}) \ {x})
      /\ BytesOf(T \ {x}) = y.bytes + BytesOf((T \ {x}) \ {y})
  BY <1>2, <1>4, <1>5, <1>6
<1>8. (T \ {y}) \ {x} = (T \ {x}) \ {y}
  OBVIOUS
<1>9. x.bytes \in Nat /\ y.bytes \in Nat /\ BytesOf((T \ {x}) \ {y}) \in Nat
  BY <1>2, <1>4, FS_Subset, BytesOfIsNat DEF Block
<1> DEFINE rest == BytesOf((T \ {x}) \ {y})
<1>10. /\ BytesOf(T) = y.bytes + (x.bytes + rest)
       /\ BytesOf(T \ {x}) = y.bytes + rest /\ rest \in Nat
  BY <1>4, <1>7, <1>8, <1>9
<1> HIDE DEF rest
<1> QED BY <1>3, <1>9, <1>10

\* One more block adds its bytes.
LEMMA BytesOfMore ==
    ASSUME NEW S, IsFiniteSet(S), S \subseteq Block, NEW b \in Block, b \notin S
    PROVE  IsFiniteSet(S \union {b}) /\ BytesOf(S \union {b}) = b.bytes + BytesOf(S)
<1>1. IsFiniteSet(S \union {b}) /\ S \union {b} \subseteq Block /\ b \in S \union {b}
  BY FS_AddElement
<1>2. (S \union {b}) \ {b} = S
  OBVIOUS
<1> QED BY <1>1, <1>2, BytesOfOther

\* A part of a finite set of blocks has no more bytes than the whole.
LEMMA BytesOfPart ==
    ASSUME NEW S, IsFiniteSet(S), S \subseteq Block, NEW T \in SUBSET S
    PROVE  BytesOf(T) <= BytesOf(S)
<1> DEFINE B == {W \in SUBSET S : T \subseteq W /\ ~(BytesOf(T) <= BytesOf(W))}
<1>1. SUFFICES ASSUME B # {} PROVE FALSE
  OBVIOUS
<1>2. PICK W \in B : \A r \in B : r \subseteq W => r = W
  <2>1. \A W \in B : W \subseteq S
    OBVIOUS
  <2> HIDE DEF B
  <2> QED BY <1>1, <2>1, LeastSet
<1>3. /\ IsFiniteSet(W) /\ W \subseteq Block /\ BytesOf(W) \in Nat
      /\ BytesOf(T) \in Nat
  BY FS_Subset, BytesOfIsNat
<1>4. PICK x \in W : x \notin T
  <2>1. ~(BytesOf(T) <= BytesOf(W)) /\ T \subseteq W
    BY <1>2
  <2>2. W # T
    <3>1. SUFFICES ASSUME W = T PROVE FALSE
      OBVIOUS
    <3> QED BY <1>3, <2>1, <3>1
  <2> QED BY <2>1, <2>2
<1>5. T \subseteq W \ {x} /\ W \ {x} \notin B /\ W \ {x} \in SUBSET S
  BY <1>2, <1>4
<1>6. BytesOf(T) <= BytesOf(W \ {x})
  BY <1>5
<1>7. BytesOf(W) = x.bytes + BytesOf(W \ {x})
  BY <1>3, BytesOfOther
<1>8. x.bytes \in Nat /\ BytesOf(W \ {x}) \in Nat
  BY <1>3, <1>5, FS_Subset, BytesOfIsNat DEF Block
<1>9. ~(BytesOf(T) <= BytesOf(W))
  BY <1>2
<1> QED BY <1>3, <1>6, <1>7, <1>8, <1>9

-----------------------------------------------------------------------------
(* No byte is lost.  Every byte of a root is in a block of it, no two free *)
(* blocks are neighbours, and the counters are the sums of the blocks.     *)

Covers(b, i, byte) == b.root = i /\ b.ptr <= byte /\ byte < End(b)
Covered(R, S) ==
    \A i \in DOMAIN R, byte \in Nat :
        R[i].ptr <= byte /\ byte < End(R[i]) => \E b \in S : Covers(b, i, byte)

NoNeighbours(S) == \A a, b \in S : ~Precedes(a, b)
RootsAreNumbered(R) == \A i \in DOMAIN R : R[i].bytes > 0 /\ R[i].root = i

Books ==
    /\ IsFiniteSet(free) /\ IsFiniteSet(live)
    /\ allocated = BytesOf(live)
    /\ committed = BytesOf(live) + BytesOf(free)
    /\ RootsAreNumbered(roots) /\ Covered(roots, Blocks) /\ NoNeighbours(free)

\* A size that wraps around can take a live block off the books, but adds none.
Counts ==
    /\ IsFiniteSet(live) /\ allocated \in Nat /\ BytesOf(live) <= allocated
    /\ poolBytes < WordSize

BooksInv == IInv /\ Counts /\ (~wrapped => Books)

\* The layout makes every free and live set a set of blocks, of which one and the
\* other have a sum.
LEMMA BooksFacts ==
    ASSUME BooksInv, ~wrapped
    PROVE  /\ free \subseteq Block /\ live \subseteq Block
           /\ BytesOf(free) \in Nat /\ BytesOf(live) \in Nat
           /\ LaidOut(roots, Blocks) /\ free \intersect live = {}
<1>1. free \subseteq Block /\ live \subseteq Block
  BY DEF BooksInv, IInv, Types
<1> QED BY <1>1, BytesOfIsNat DEF BooksInv, IInv, Sound, Books

\* What there is to say when the first bytes of a block are handed out, or a block
\* has the whole of a new root.
HandedOut(R, S, L, b, want) ==
    LET left == ((S \ L) \ {b}) \union Rest(b, want)
        granted == L \union {Piece(b.ptr, want, b.root)}
    IN
    /\ IsFiniteSet(left) /\ IsFiniteSet(granted)
    /\ BytesOf(granted) = BytesOf(L) + want
    /\ BytesOf(granted) + BytesOf(left) = BytesOf(L) + BytesOf(S \ L)
    /\ Covered(R, left \union granted) /\ NoNeighbours(left)

Rooted(R, S, L, root) ==
    /\ RootsAreNumbered(Append(R, root)) /\ Covered(Append(R, root), S \union {root})
    /\ NoNeighbours((S \union {root}) \ L) /\ IsFiniteSet((S \union {root}) \ L)
    /\ BytesOf((S \union {root}) \ L) = root.bytes + BytesOf(S \ L)

\* Handing out the first bytes of a block moves them from the free to the live.
LEMMA SplitBooks ==
    ASSUME NEW R, NEW S, NEW L, LaidOut(R, S), L \subseteq S, NEW b \in S \ L,
           NEW want \in Nat, 0 < want, want <= b.bytes,
           IsFiniteSet(S \ L), IsFiniteSet(L), Covered(R, S), NoNeighbours(S \ L)
    PROVE  HandedOut(R, S, L, b, want)
<1> DEFINE head == Piece(b.ptr, want, b.root)
<1> DEFINE tail == Piece(b.ptr + want, b.bytes - want, b.root)
<1> DEFINE others == (S \ L) \ {b}
<1> DEFINE left == others \union Rest(b, want)
<1> DEFINE granted == L \union {head}
<1>1. b \in Block /\ S \subseteq Block
  BY DEF LaidOut
<1>2. /\ head \in Block /\ head.ptr = b.ptr /\ head.bytes = want /\ head.root = b.root
      /\ End(head) = b.ptr + want /\ End(b) = b.ptr + b.bytes
  BY <1>1 DEF Piece, Block, End
<1>3. want < b.bytes =>
          /\ tail \in Block /\ tail.ptr = b.ptr + want /\ tail.bytes = b.bytes - want
          /\ tail.root = b.root /\ End(tail) = End(b)
  BY <1>1 DEF Piece, Block, End
<1>4. Rest(b, want) = IF want < b.bytes THEN {tail} ELSE {}
  BY <1>1 DEF Rest, Block
<1>5. head \notin S \ {b} /\ \A r \in Rest(b, want) : r \notin S \ {b}
  BY Split
<1>6. head \notin L
  BY <1>5
<1> HIDE DEF head, tail
<1>7. /\ BytesOf(L) \in Nat /\ IsFiniteSet(granted)
      /\ BytesOf(granted) = BytesOf(L) + want
  <2>1. L \subseteq Block /\ BytesOf(L) \in Nat
    BY <1>1, BytesOfIsNat
  <2> QED BY <1>2, <1>6, <2>1, BytesOfMore
<1>8. /\ IsFiniteSet(others) /\ others \subseteq Block /\ BytesOf(others) \in Nat
      /\ BytesOf(S \ L) = b.bytes + BytesOf(others)
  <2>1. IsFiniteSet(others) /\ others \subseteq Block /\ S \ L \subseteq Block /\ b \in S \ L
    BY <1>1, FS_Subset
  <2> QED BY <2>1, BytesOfIsNat, BytesOfOther
<1>9. IsFiniteSet(left) /\ BytesOf(left) = BytesOf(others) + (b.bytes - want)
  <2>1. CASE want < b.bytes
    <3>1. left = others \union {tail} /\ tail \notin others
      BY <1>4, <1>5, <2>1
    <3> HIDE DEF left, others
    <3>2. IsFiniteSet(left) /\ BytesOf(left) = tail.bytes + BytesOf(others)
      BY <1>3, <1>8, <2>1, <3>1, BytesOfMore
    <3> QED BY <1>1, <1>3, <1>8, <2>1, <3>2 DEF Block
  <2>2. CASE ~(want < b.bytes)
    <3>1. left = others /\ want = b.bytes
      BY <1>1, <1>4, <2>2 DEF Block
    <3>2. b.bytes - want = 0
      BY <3>1
    <3> HIDE DEF left, others
    <3> QED BY <1>8, <3>1, <3>2
  <2> QED BY <2>1, <2>2
<1>10. Covered(R, left \union granted)
  <2> SUFFICES ASSUME NEW i \in DOMAIN R, NEW byte \in Nat,
                      R[i].ptr <= byte, byte < End(R[i])
               PROVE  \E c \in left \union granted : Covers(c, i, byte)
    BY DEF Covered
  <2>1. PICK c \in S : Covers(c, i, byte)
    BY DEF Covered
  <2>2. CASE c # b
    BY <2>1, <2>2
  <2>3. CASE c = b
    <3>1. byte < b.ptr + want => Covers(head, i, byte)
      BY <1>2, <2>1, <2>3 DEF Covers
    <3>2. byte >= b.ptr + want => want < b.bytes /\ Covers(tail, i, byte)
      BY <1>1, <1>2, <1>3, <2>1, <2>3 DEF Covers, Block
    <3>3. byte < b.ptr + want \/ byte >= b.ptr + want
      BY <1>1 DEF Block
    <3> QED BY <1>4, <3>1, <3>2, <3>3
  <2> QED BY <2>2, <2>3
<1>11. NoNeighbours(left)
  <2>1. \A a, c \in others : ~Precedes(a, c)
    BY DEF NoNeighbours
  <2>2. ASSUME want < b.bytes, NEW c \in others
        PROVE  ~Precedes(c, tail) /\ ~Precedes(tail, c)
    <3>1. c \in Block /\ c.bytes > 0 /\ Apart(b, c)
      BY DEF LaidOut
    <3>2. ~Precedes(b, c)
      BY DEF NoNeighbours
    <3>3. ~Precedes(tail, c)
      BY <1>3, <2>2, <3>2 DEF Precedes
    <3>4. ~Precedes(c, tail)
      BY <1>1, <1>2, <1>3, <2>2, <3>1 DEF Precedes, Apart, End, Block
    <3> QED BY <3>3, <3>4
  <2>3. want < b.bytes => ~Precedes(tail, tail)
    BY <1>1, <1>3 DEF Precedes, Block, End
  <2> QED BY <1>4, <2>1, <2>2, <2>3 DEF NoNeighbours
<1>12. BytesOf(granted) + BytesOf(left) = BytesOf(L) + BytesOf(S \ L)
  <2> DEFINE l == BytesOf(L)
  <2> DEFINE o == BytesOf(others)
  <2>1. l \in Nat /\ o \in Nat /\ b.bytes \in Nat
    BY <1>1, <1>7, <1>8 DEF Block
  <2>2. /\ BytesOf(granted) = l + want /\ BytesOf(left) = o + (b.bytes - want)
        /\ BytesOf(S \ L) = b.bytes + o
    BY <1>7, <1>8, <1>9
  <2> HIDE DEF l, o, left, granted
  <2> QED BY <2>1, <2>2 DEF l
<1> QED BY <1>7, <1>9, <1>10, <1>11, <1>12 DEF head, HandedOut

\* Giving a block back, and merging it, moves its bytes from the live to the free
\* and leaves no two free neighbours.
LEMMA MergeBooks ==
    ASSUME BooksInv, ~wrapped, NEW b \in live
    PROVE  /\ IsFiniteSet(Merged(b)) /\ IsFiniteSet(live \ {b})
           /\ BytesOf(live) = BytesOf(live \ {b}) + b.bytes
           /\ BytesOf(Merged(b)) = BytesOf(free) + b.bytes
           /\ BytesOf(live \ {b}) \in Nat /\ b.bytes \in Nat
           /\ Covered(roots, Merged(b) \union (live \ {b})) /\ NoNeighbours(Merged(b))
<1> DEFINE before == {f \in free : Precedes(f, b)}
<1> DEFINE after == {f \in free : Precedes(b, f)}
<1> DEFINE kept == {f \in free : ~Precedes(f, b) /\ ~Precedes(b, f)}
<1> DEFINE m == Piece(BeginOf(b), EndOf(b) - BeginOf(b), b.root)
<1>0. /\ free \subseteq Block /\ live \subseteq Block /\ LaidOut(roots, Blocks)
      /\ free \intersect live = {} /\ IsFiniteSet(free) /\ IsFiniteSet(live)
      /\ BytesOf(free) \in Nat /\ BytesOf(live) \in Nat
      /\ NoNeighbours(free) /\ Covered(roots, Blocks)
  BY BooksFacts DEF BooksInv, Books
<1>1. \A f \in Blocks : f \in Block /\ f.bytes > 0 /\ f.ptr \in Nat /\ f.bytes \in Nat
  BY <1>0 DEF LaidOut, Block
<1>2. b \in Block /\ b.bytes > 0 /\ b.ptr \in Nat /\ b.bytes \in Nat /\ b \notin free /\ b \in Blocks
  BY <1>0, <1>1 DEF Blocks
<1>3. \A f, g \in Blocks : f # g => Apart(f, g)
  BY <1>0 DEF LaidOut
<1>4. \A f, g \in before : f = g
  BY <1>1, <1>3 DEF Precedes, Apart, End, Blocks
<1>5. \A f, g \in after : f = g
  BY <1>1, <1>3 DEF Precedes, Apart, End, Blocks
<1>6. /\ \A f \in before : before = {f} /\ BeginOf(b) = f.ptr /\ f.ptr + f.bytes = b.ptr
      /\ before = {} => BeginOf(b) = b.ptr
  <2>1. ASSUME NEW f \in before
        PROVE  before = {f} /\ BeginOf(b) = f.ptr /\ f.ptr + f.bytes = b.ptr
    <3>1. before = {f}
      BY <1>4
    <3>2. Before(b) = {f}
      BY <1>0, <3>1, NoneIsEmpty
    <3> QED BY <2>1, <3>1, <3>2 DEF BeginOf, Precedes, End
  <2>2. before = {} => Before(b) = {}
    BY <1>0, NoneIsEmpty
  <2> QED BY <2>1, <2>2 DEF BeginOf
<1>7. /\ \A f \in after : after = {f} /\ EndOf(b) = End(f) /\ f.ptr = End(b)
      /\ after = {} => EndOf(b) = End(b)
  <2>1. ASSUME NEW f \in after
        PROVE  after = {f} /\ EndOf(b) = End(f) /\ f.ptr = End(b)
    <3>1. after = {f}
      BY <1>5
    <3>2. After(b) = {f}
      BY <1>0, <3>1, NoneIsEmpty
    <3> QED BY <2>1, <3>1, <3>2 DEF EndOf, Precedes
  <2>2. after = {} => After(b) = {}
    BY <1>0, NoneIsEmpty
  <2> QED BY <2>1, <2>2 DEF EndOf
<1>8. /\ IsFiniteSet(free \ before) /\ BytesOf(free \ before) \in Nat
      /\ BytesOf(free) = (b.ptr - BeginOf(b)) + BytesOf(free \ before)
      /\ BeginOf(b) \in Nat /\ BeginOf(b) <= b.ptr
  <2>1. IsFiniteSet(free \ before) /\ free \ before \subseteq Block
    BY <1>0, FS_Subset
  <2>2. BytesOf(free \ before) \in Nat
    BY <2>1, BytesOfIsNat
  <2>3. CASE before = {}
    <3>1. free \ before = free /\ BeginOf(b) = b.ptr
      BY <1>6, <2>3
    <3> QED BY <1>0, <1>2, <2>1, <2>2, <3>1
  <2>4. CASE before # {}
    <3>1. PICK f \in before : TRUE
      BY <2>4
    <3>2. before = {f} /\ BeginOf(b) = f.ptr /\ f.ptr + f.bytes = b.ptr /\ f \in free
      BY <1>6, <3>1
    <3>3. f.ptr \in Nat /\ f.bytes \in Nat
      BY <1>1, <3>2 DEF Blocks
    <3>4. BytesOf(free) = f.bytes + BytesOf(free \ {f})
      BY <1>0, <3>2, BytesOfOther
    <3>5. f.bytes = b.ptr - BeginOf(b)
      BY <1>2, <3>2, <3>3
    <3> HIDE DEF before
    <3> QED BY <1>2, <2>1, <2>2, <3>2, <3>3, <3>4, <3>5
  <2> QED BY <2>3, <2>4
<1>9. kept = (free \ before) \ after
  OBVIOUS
<1>10. /\ IsFiniteSet(kept) /\ kept \subseteq Block /\ BytesOf(kept) \in Nat
       /\ BytesOf(free \ before) = (EndOf(b) - End(b)) + BytesOf(kept)
       /\ EndOf(b) \in Nat /\ End(b) <= EndOf(b) /\ End(b) = b.ptr + b.bytes
  <2>1. IsFiniteSet(kept) /\ kept \subseteq Block
    BY <1>0, FS_Subset
  <2>2. BytesOf(kept) \in Nat /\ End(b) = b.ptr + b.bytes
    BY <2>1, BytesOfIsNat DEF End
  <2>3. CASE after = {}
    <3>1. kept = free \ before /\ EndOf(b) = End(b)
      BY <1>7, <1>9, <2>3
    <3>2. End(b) \in Nat /\ EndOf(b) - End(b) = 0
      BY <1>2, <2>2, <3>1
    <3> HIDE DEF kept, before, after
    <3> QED BY <1>2, <1>8, <2>1, <2>2, <3>1, <3>2
  <2>4. CASE after # {}
    <3>1. PICK f \in after : TRUE
      BY <2>4
    <3>2. after = {f} /\ EndOf(b) = End(f) /\ f.ptr = End(b) /\ f \in free
      BY <1>7, <3>1
    <3>3. f.ptr \in Nat /\ f.bytes \in Nat /\ f.bytes > 0
      BY <1>1, <3>2 DEF Blocks
    <3>4. f \notin before
      BY <1>1, <1>2, <3>2, <3>3 DEF Precedes, End
    <3>5. BytesOf(free \ before) = f.bytes + BytesOf(kept)
      <4>1. free \ before \subseteq Block /\ f \in free \ before
        BY <1>0, <3>2, <3>4
      <4>2. kept = (free \ before) \ {f}
        BY <1>9, <3>2
      <4> HIDE DEF kept, before
      <4> QED BY <1>8, <4>1, <4>2, BytesOfOther
    <3>6. EndOf(b) = f.ptr + f.bytes
      BY <3>2 DEF End
    <3> HIDE DEF kept, before, after
    <3> QED BY <1>2, <2>1, <2>2, <3>2, <3>3, <3>5, <3>6
  <2> QED BY <2>3, <2>4
<1>11. /\ m \in Block /\ m.ptr = BeginOf(b) /\ m.bytes = EndOf(b) - BeginOf(b)
       /\ m.root = b.root /\ End(m) = EndOf(b) /\ m.bytes > 0
  BY <1>2, <1>8, <1>10 DEF Piece, Block, End
<1>12. Merged(b) = kept \union {m}
  BY <1>0, NoneIsEmpty
<1> HIDE DEF m
<1>13. m \notin kept
  <2>1. LaidOut(roots, Merged(b) \union (live \ {b}))
    BY <1>0, Merge
  <2>2. m.ptr <= b.ptr /\ End(b) <= End(m)
    BY <1>8, <1>10, <1>11
  <2>3. \A f \in kept : Apart(f, b) /\ f \in Blocks
    BY <1>2, <1>3 DEF Blocks
  <2> QED BY <1>1, <1>2, <2>2, <2>3 DEF Apart, End, Block
<1>14. IsFiniteSet(Merged(b)) /\ BytesOf(Merged(b)) = BytesOf(free) + b.bytes
  <2>1. IsFiniteSet(Merged(b)) /\ BytesOf(Merged(b)) = m.bytes + BytesOf(kept)
    <3> HIDE DEF kept
    <3> QED BY <1>10, <1>11, <1>12, <1>13, BytesOfMore
  <2> DEFINE k == BytesOf(kept)
  <2> DEFINE r == BytesOf(free \ before)
  <2>2. /\ k \in Nat /\ r \in Nat /\ BytesOf(free) = (b.ptr - BeginOf(b)) + r
        /\ r = (EndOf(b) - (b.ptr + b.bytes)) + k /\ BytesOf(Merged(b)) = m.bytes + k
    BY <1>8, <1>10, <2>1
  <2> HIDE DEF k, r
  <2> QED BY <1>2, <1>8, <1>10, <1>11, <2>1, <2>2
<1>15. /\ IsFiniteSet(live \ {b}) /\ BytesOf(live) = BytesOf(live \ {b}) + b.bytes
       /\ BytesOf(live \ {b}) \in Nat
  <2>1. IsFiniteSet(live \ {b}) /\ live \ {b} \subseteq Block
    BY <1>0, FS_Subset
  <2>2. BytesOf(live) = b.bytes + BytesOf(live \ {b}) /\ BytesOf(live \ {b}) \in Nat
    BY <1>0, <2>1, BytesOfIsNat, BytesOfOther
  <2> QED BY <1>2, <2>1, <2>2
<1>16. Covered(roots, Merged(b) \union (live \ {b}))
  <2> SUFFICES ASSUME NEW i \in DOMAIN roots, NEW byte \in Nat,
                      roots[i].ptr <= byte, byte < End(roots[i])
               PROVE  \E c \in Merged(b) \union (live \ {b}) : Covers(c, i, byte)
    BY DEF Covered
  <2>1. PICK c \in Blocks : Covers(c, i, byte)
    BY <1>0 DEF Covered
  <2>2. CASE c \in kept \union (live \ {b})
    BY <1>12, <2>1, <2>2
  <2>3. CASE c \notin kept \union (live \ {b})
    <3>1. c = b \/ c \in before \/ c \in after
      BY <2>1, <2>3 DEF Blocks
    <3>2. c.root = b.root /\ BeginOf(b) <= c.ptr /\ End(c) <= EndOf(b)
      <4>1. CASE c = b
        BY <1>2, <1>8, <1>10, <4>1
      <4>2. CASE c \in before
        BY <1>1, <1>2, <1>6, <1>8, <1>10, <4>2 DEF Precedes, End, Blocks
      <4>3. CASE c \in after
        BY <1>1, <1>2, <1>7, <1>8, <1>10, <4>3 DEF Precedes, End, Blocks
      <4> QED BY <3>1, <4>1, <4>2, <4>3
    <3>3. Covers(m, i, byte)
      BY <1>1, <1>8, <1>10, <1>11, <2>1, <3>2 DEF Covers, End
    <3> QED BY <1>12, <3>3
  <2> QED BY <2>2, <2>3
<1>17. NoNeighbours(Merged(b))
  <2>1. \A f, g \in kept : ~Precedes(f, g)
    BY <1>0 DEF NoNeighbours
  <2>2. ASSUME NEW f \in kept PROVE ~Precedes(f, m)
    <3>1. CASE before = {}
      BY <1>6, <1>11, <3>1 DEF Precedes
    <3>2. CASE before # {}
      <4>1. PICK g \in before : TRUE
        BY <3>2
      <4>2. g \in free /\ g.ptr = m.ptr /\ g.root = m.root
        BY <1>6, <1>11, <4>1 DEF Precedes
      <4> QED BY <1>0, <4>2 DEF NoNeighbours, Precedes
    <3> QED BY <3>1, <3>2
  <2>3. ASSUME NEW f \in kept PROVE ~Precedes(m, f)
    <3>1. CASE after = {}
      BY <1>7, <1>11, <3>1 DEF Precedes
    <3>2. CASE after # {}
      <4>1. PICK g \in after : TRUE
        BY <3>2
      <4>2. g \in free /\ End(g) = End(m) /\ g.root = m.root
        BY <1>7, <1>11, <4>1 DEF Precedes
      <4> QED BY <1>0, <4>2 DEF NoNeighbours, Precedes
    <3> QED BY <3>1, <3>2
  <2>4. ~Precedes(m, m)
    BY <1>8, <1>11 DEF Precedes, End
  <2> HIDE DEF kept
  <2> QED BY <1>12, <2>1, <2>2, <2>3, <2>4 DEF NoNeighbours
<1> QED BY <1>2, <1>14, <1>15, <1>16, <1>17

\* A new root is free from end to end, and no block lies beside it in its root.
LEMMA NewRootBooks ==
    ASSUME NEW R, NEW S, NEW L, LaidOut(R, S), L \subseteq S, L \subseteq Block,
           RootsAreNumbered(R), Covered(R, S), NoNeighbours(S \ L), IsFiniteSet(S \ L),
           NEW p \in Nat, NEW size \in Nat, size > 0,
           Piece(p, size, Len(R) + 1) \notin S
    PROVE  Rooted(R, S, L, Piece(p, size, Len(R) + 1))
<1> DEFINE root == Piece(p, size, Len(R) + 1)
<1> DEFINE Q == Append(R, root)
<1>1. R \in Seq(Block) /\ Len(R) \in Nat /\ DOMAIN R = 1..Len(R) /\ S \subseteq Block
  BY DEF LaidOut
<1>2. /\ root \in Block /\ root.ptr = p /\ root.bytes = size /\ root.root = Len(R) + 1
      /\ End(root) = p + size
  BY <1>1 DEF Piece, Block, End
<1> HIDE DEF root
<1>3. /\ DOMAIN Q = 1..(Len(R) + 1) /\ Q[Len(R) + 1] = root
      /\ \A i \in DOMAIN R : Q[i] = R[i]
  BY <1>1, <1>2
<1>4. \A i \in DOMAIN Q : i \in DOMAIN R \/ i = Len(R) + 1
  BY <1>1, <1>3
<1> HIDE DEF Q
<1>5. RootsAreNumbered(Q)
  BY <1>2, <1>3, <1>4 DEF RootsAreNumbered
<1>6. Covered(Q, S \union {root})
  <2> SUFFICES ASSUME NEW i \in DOMAIN Q, NEW byte \in Nat,
                      Q[i].ptr <= byte, byte < End(Q[i])
               PROVE  \E c \in S \union {root} : Covers(c, i, byte)
    BY DEF Covered
  <2>1. CASE i \in DOMAIN R
    BY <1>3, <2>1 DEF Covered
  <2>2. CASE i = Len(R) + 1
    BY <1>2, <1>3, <2>2 DEF Covers
  <2> QED BY <1>4, <2>1, <2>2
<1>7. (S \union {root}) \ L = (S \ L) \union {root} /\ root \notin S \ L
  BY DEF root
<1>8. NoNeighbours((S \ L) \union {root})
  <2>1. \A c \in S : c.root # root.root
    BY <1>1, <1>2 DEF LaidOut
  <2>2. ~Precedes(root, root)
    BY <1>2 DEF Precedes
  <2> QED BY <2>1, <2>2 DEF NoNeighbours, Precedes
<1>9. /\ IsFiniteSet((S \ L) \union {root})
      /\ BytesOf((S \ L) \union {root}) = size + BytesOf(S \ L)
  BY <1>1, <1>2, <1>7, BytesOfMore
<1> QED BY <1>2, <1>5, <1>6, <1>7, <1>8, <1>9 DEF Q, root, Rooted

-----------------------------------------------------------------------------
\* A grant adds at most the bytes it hands out.
LEMMA GrantCounts ==
    ASSUME Types, Counts, NEW h, NEW b \in Block, NEW want \in Nat, NEW bytes,
           Grant(h, b, want, bytes), poolBytes' = poolBytes
    PROVE  Counts'
<1> DEFINE others == {x \in live : x.ptr # b.ptr}
<1> DEFINE head == Piece(b.ptr, want, b.root)
<1>1. head \in Block /\ head \notin others /\ head.bytes = want
  BY DEF Piece, Block
<1>2. live \subseteq Block /\ others \in SUBSET live /\ IsFiniteSet(live)
  BY DEF Types, Counts
<1>3. IsFiniteSet(others) /\ BytesOf(others) <= BytesOf(live)
  <2> HIDE DEF others
  <2> QED BY <1>2, FS_Subset, BytesOfPart
<1>4. live' = others \union {head} /\ allocated' = allocated + want
  BY DEF Grant
<1>5. BytesOf(live) \in Nat /\ BytesOf(others) \in Nat /\ others \subseteq Block
  BY <1>2, <1>3, BytesOfIsNat
<1> HIDE DEF others, head
<1>6. IsFiniteSet(live') /\ BytesOf(live') = want + BytesOf(others)
  BY <1>1, <1>3, <1>4, <1>5, BytesOfMore
<1> QED BY <1>3, <1>4, <1>5, <1>6 DEF Counts

\* The counter never falls below the bytes of the live blocks.
LEMMA CountsKeep == ASSUME IInv, Counts, [Next]_vars PROVE Counts'
<1> USE DeviceMemoryAssumption
<1>0. Types
  BY DEF IInv
<1>e. IsFiniteSet({}) /\ BytesOf({}) = 0
  BY FS_EmptySet, BytesOfChosen
<1>1. ASSUME NEW h \in Handles, NEW bytes \in Sizes, NEW alignment \in Alignments,
             Allocate(h, bytes, alignment)
      PROVE  Counts'
  <2> DEFINE want == RoundUp(bytes, alignment)
  <2>1. want \in Nat
    BY RoundUpEnough
  <2> HIDE DEF want
  <2>2. CASE AllocateFromFree(h, bytes, alignment)
    <3>1. PICK b \in free : Grant(h, b, want, bytes) /\ UNCHANGED poolBytes
      BY <2>2 DEF AllocateFromFree, BestFits, Fits, want
    <3>2. b \in Block
      BY <1>0 DEF Types
    <3> QED BY <1>0, <2>1, <3>1, <3>2, GrantCounts
  <2>3. CASE AllocateFromBackend(h, bytes, alignment)
    <3> DEFINE size == RootSize(want)
    <3>1. size \in Nat
      BY <1>0, <2>1 DEF RootSize, Larger, Types
    <3> HIDE DEF size
    <3>2. PICK p \in Bases : Grant(h, Piece(p, size, Len(roots) + 1), want, bytes) /\ UNCHANGED poolBytes
      BY <2>3 DEF AllocateFromBackend, want, size
    <3>3. Piece(p, size, Len(roots) + 1) \in Block
      BY <1>0, <3>1 DEF Types, Piece, Block
    <3> QED BY <1>0, <2>1, <3>2, <3>3, GrantCounts
  <2> QED BY <1>1, <2>2, <2>3 DEF Allocate
<1>2. ASSUME NEW h \in Handles, Deallocate(h)
      PROVE  Counts'
  <2>1. PICK b \in live :
           live' = live \ {b} /\ allocated' = allocated - b.bytes /\ UNCHANGED poolBytes
    BY <1>2 DEF Deallocate
  <2>2. live \subseteq Block /\ IsFiniteSet(live) /\ b.bytes \in Nat
    BY <1>0 DEF Types, Counts, Block
  <2>3. /\ IsFiniteSet(live') /\ BytesOf(live') \in Nat
        /\ BytesOf(live) = b.bytes + BytesOf(live')
    BY <2>1, <2>2, FS_Subset, BytesOfIsNat, BytesOfOther
  <2> QED BY <2>1, <2>2, <2>3 DEF Counts
<1>3. ASSUME NEW h \in Handles, DeallocateNothing(h)
      PROVE  Counts'
  BY <1>3 DEF DeallocateNothing, pool, Counts
<1>4. ASSUME NEW bytes \in PoolSizes, Initialize(bytes)
      PROVE  Counts'
  <2>1. bytes < WordSize
    OBVIOUS
  <2> QED BY <1>4, <2>1 DEF Initialize, Counts
<1>5. CASE Shutdown
  BY <1>e, <1>5 DEF Shutdown, Counts
<1>6. CASE UNCHANGED vars
  BY <1>6 DEF vars, pool, Counts
<1> QED BY <1>1, <1>2, <1>3, <1>4, <1>5, <1>6 DEF Next

\* A manager without roots has balanced books.
LEMMA BooksInitially == Init => BooksInv
<1> SUFFICES ASSUME Init PROVE BooksInv
  OBVIOUS
<1>1. DOMAIN roots = {} /\ free = {} /\ live = {} /\ committed = 0 /\ allocated = 0 /\ poolBytes = 0
  BY DEF Init
<1>2. IsFiniteSet({}) /\ BytesOf({}) = 0
  BY FS_EmptySet, BytesOfChosen
<1>3. 0 < WordSize
  BY DeviceMemoryAssumption
<1>4. RootsAreNumbered(roots) /\ Covered(roots, Blocks) /\ NoNeighbours(free)
  BY <1>1 DEF RootsAreNumbered, Covered, NoNeighbours
<1>5. Books
  BY <1>1, <1>2, <1>4 DEF Books
<1>6. Counts
  BY <1>1, <1>2, <1>3 DEF Counts
<1> QED BY <1>5, <1>6, Initially DEF BooksInv

\* After shutdown() there is nothing in the books.
LEMMA ShutdownBooks == ASSUME Shutdown PROVE Books'
<1>1. /\ DOMAIN roots' = {} /\ free' = {} /\ live' = {}
      /\ committed' = 0 /\ allocated' = 0
  BY DEF Shutdown
<1>2. IsFiniteSet({}) /\ BytesOf({}) = 0
  BY FS_EmptySet, BytesOfChosen
<1>3. RootsAreNumbered(roots)' /\ Covered(roots, Blocks)' /\ NoNeighbours(free)'
  BY <1>1 DEF RootsAreNumbered, Covered, NoNeighbours
<1> QED BY <1>1, <1>2, <1>3 DEF Books

\* One case for each operation of the manager.
LEMMA BooksStep == ASSUME BooksInv, ~wrapped, [Next]_vars, ~wrapped' PROVE Books'
<1> USE DeviceMemoryAssumption
<1>0. Types
  BY DEF BooksInv, IInv
<1>st. /\ Sound /\ LaidOut(roots, Blocks) /\ Covered(roots, Blocks) /\ RootsAreNumbered(roots)
      /\ NoNeighbours(free) /\ IsFiniteSet(free) /\ IsFiniteSet(live)
      /\ free = Blocks \ live /\ live \subseteq Blocks /\ live \subseteq Block
      /\ BytesOf(free) \in Nat /\ BytesOf(live) \in Nat
      /\ allocated = BytesOf(live) /\ committed = BytesOf(live) + BytesOf(free)
  <2>1. free = Blocks \ live /\ live \subseteq Blocks
    BY BooksFacts DEF Blocks
  <2> QED BY <2>1, BooksFacts DEF BooksInv, Books, IInv
<1>1. ASSUME NEW h \in Handles, NEW bytes \in Sizes, NEW alignment \in Alignments,
             Allocate(h, bytes, alignment)
      PROVE  Books'
  <2> DEFINE want == RoundUp(bytes, alignment)
  <2>1. want \in Nat /\ 0 < want
    BY <1>1, EnoughIsGranted
  <2> HIDE DEF want
  <2>2. CASE AllocateFromFree(h, bytes, alignment)
    <3>1. PICK b \in free : /\ b.bytes >= want
                            /\ free' = (free \ {b}) \union Rest(b, want)
                            /\ Grant(h, b, want, bytes)
                            /\ UNCHANGED <<roots, poolBytes, committed>>
      BY <2>2 DEF AllocateFromFree, BestFits, Fits, want
    <3>2. b \in Blocks \ live /\ b.bytes \in Nat
      BY <1>st DEF LaidOut, Block
    <3>3. \A x \in live : x.ptr # b.ptr
      BY <1>st, <3>2, OwnAddress
    <3>4. live' = live \union {Piece(b.ptr, want, b.root)} /\ allocated' = allocated + want
      BY <3>1, <3>3 DEF Grant
    <3>5. want <= b.bytes
      BY <2>1, <3>1, <3>2
    <3>6. free' = ((Blocks \ live) \ {b}) \union Rest(b, want)
      BY <1>st, <3>1
    <3>7. /\ IsFiniteSet(free') /\ IsFiniteSet(live')
          /\ BytesOf(live') = BytesOf(live) + want
          /\ BytesOf(live') + BytesOf(free') = BytesOf(live) + BytesOf(free)
          /\ Covered(roots, free' \union live') /\ NoNeighbours(free')
      <4>1. IsFiniteSet(Blocks \ live) /\ NoNeighbours(Blocks \ live)
        BY <1>st
      <4>2. HandedOut(roots, Blocks, live, b, want)
        BY <1>st, <2>1, <3>2, <3>5, <4>1, SplitBooks
      <4> QED BY <1>st, <3>4, <3>6, <4>2 DEF HandedOut
    <3> QED BY <1>st, <3>1, <3>4, <3>7 DEF Books, Blocks
  <2>3. CASE AllocateFromBackend(h, bytes, alignment)
    <3> DEFINE size == RootSize(want)
    <3>1. size \in Nat /\ size > 0 /\ want <= size
      BY <1>0, <2>1 DEF RootSize, Larger, Types
    <3> HIDE DEF size
    <3>2. PICK p \in Bases :
             /\ \A i \in DOMAIN roots : Apart(Piece(p, size, Len(roots) + 1), roots[i])
             /\ roots' = Append(roots, Piece(p, size, Len(roots) + 1))
             /\ free' = free \union Rest(Piece(p, size, Len(roots) + 1), want)
             /\ Grant(h, Piece(p, size, Len(roots) + 1), want, bytes)
             /\ committed' = committed + size /\ poolBytes' = poolBytes
      BY <2>3 DEF AllocateFromBackend, want, size
    <3> DEFINE root == Piece(p, size, Len(roots) + 1)
    <3> DEFINE S == Blocks \union {root}
    <3>3. p \in Nat
      OBVIOUS
    <3>4. LaidOut(roots', S) /\ root \notin Blocks
      BY <1>st, <3>1, <3>2, <3>3, NewRoot
    <3>5. /\ RootsAreNumbered(roots') /\ Covered(roots', S)
          /\ NoNeighbours(S \ live) /\ IsFiniteSet(S \ live)
          /\ BytesOf(S \ live) = size + BytesOf(free)
      <4>1. IsFiniteSet(Blocks \ live) /\ NoNeighbours(Blocks \ live) /\ BytesOf(free) = BytesOf(Blocks \ live)
        BY <1>st
      <4>2. Rooted(roots, Blocks, live, root)
        BY <1>st, <3>1, <3>3, <3>4, <4>1, NewRootBooks
      <4>3. root.bytes = size
        BY DEF Piece
      <4> QED BY <3>2, <4>1, <4>2, <4>3 DEF Rooted
    <3>6. root.bytes = size /\ Grant(h, root, want, bytes)
      BY <3>2 DEF Piece
    <3>7. /\ root \in S \ live /\ live \subseteq S
          /\ free' = ((S \ live) \ {root}) \union Rest(root, want)
      BY <1>st, <3>2, <3>4
    <3> HIDE DEF root, S
    <3>8. \A x \in live : x.ptr # root.ptr
      BY <3>4, <3>7, OwnAddress
    <3>9. live' = live \union {Piece(root.ptr, want, root.root)} /\ allocated' = allocated + want
      BY <3>6, <3>8 DEF Grant
    <3>10. want <= root.bytes
      BY <3>1, <3>6
    <3>11. /\ IsFiniteSet(free') /\ IsFiniteSet(live')
           /\ BytesOf(live') = BytesOf(live) + want
           /\ BytesOf(live') + BytesOf(free') = BytesOf(live) + BytesOf(S \ live)
           /\ Covered(roots', free' \union live') /\ NoNeighbours(free')
      <4>1. HandedOut(roots', S, live, root, want)
        BY <1>st, <2>1, <3>4, <3>5, <3>7, <3>10, SplitBooks
      <4> QED BY <3>7, <3>9, <4>1 DEF HandedOut
    <3>12. BytesOf(live') + BytesOf(free') = committed + size
      BY <1>st, <3>1, <3>5, <3>11
    <3> QED BY <1>st, <3>2, <3>5, <3>9, <3>11, <3>12 DEF Books, Blocks, root
  <2> QED BY <1>1, <2>2, <2>3 DEF Allocate
<1>2. ASSUME NEW h \in Handles, Deallocate(h)
      PROVE  Books'
  <2>1. PICK b \in live :
           /\ live' = live \ {b} /\ allocated' = allocated - b.bytes
           /\ \E stay \in SUBSET MayStay(b) : free' = Merged(b) \union stay
           /\ UNCHANGED <<roots, committed>>
    BY <1>2 DEF Deallocate
  <2>2. free' = Merged(b)
    BY <1>st, <2>1, NoneIsEmpty
  <2>3. /\ IsFiniteSet(free') /\ IsFiniteSet(live')
        /\ BytesOf(live) = BytesOf(live') + b.bytes
        /\ BytesOf(free') = BytesOf(free) + b.bytes
        /\ BytesOf(live') \in Nat /\ b.bytes \in Nat
        /\ Covered(roots, free' \union live') /\ NoNeighbours(free')
    BY <2>1, <2>2, MergeBooks
  <2>4. allocated' = BytesOf(live') /\ committed' = BytesOf(live') + BytesOf(free')
    BY <1>st, <2>1, <2>3
  <2> QED BY <1>st, <2>1, <2>3, <2>4 DEF Books, Blocks
<1>3. ASSUME NEW h \in Handles, DeallocateNothing(h)
      PROVE  Books'
  BY <1>3 DEF DeallocateNothing, pool, BooksInv, Books, Blocks
<1>4. ASSUME NEW bytes \in PoolSizes, Initialize(bytes)
      PROVE  Books'
  BY <1>4 DEF Initialize, BooksInv, Books, Blocks
<1>5. CASE UNCHANGED vars
  BY <1>5 DEF vars, pool, BooksInv, Books, Blocks
<1> QED BY <1>1, <1>2, <1>3, <1>4, <1>5, ShutdownBooks DEF Next

LEMMA BooksKeep == ASSUME BooksInv, [Next]_vars PROVE BooksInv'
<1>1. IInv' /\ Counts'
  BY Keeps, CountsKeep DEF BooksInv
<1>2. wrapped /\ ~wrapped' => Books'
  BY OnlyShutdownHeals, ShutdownBooks DEF BooksInv, IInv
<1> QED BY <1>1, <1>2, BooksStep DEF BooksInv, IInv

\* The counters of the manager are the sums of its blocks, and the blocks are what
\* was taken from the backend, in every reachable state in which no size has wrapped
\* around; and the count of bytes in use is never too small.
THEOREM BooksBalance == Spec => []BooksInv
BY BooksInitially, BooksKeep, PTL DEF Spec

\* When nothing is live, every root is one free block again.
LEMMA RootsAreWhole ==
    ASSUME BooksInv, ~wrapped, live = {}
    PROVE  free = {roots[i] : i \in DOMAIN roots}
<1>1. /\ LaidOut(roots, free) /\ Covered(roots, free) /\ RootsAreNumbered(roots)
      /\ NoNeighbours(free) /\ roots \in Seq(Block)
  BY DEF BooksInv, Books, IInv, Sound, LaidOut, Blocks
<1>2. \A c \in free : c \in Block /\ c.bytes > 0 /\ c.root \in DOMAIN roots
                      /\ roots[c.root].ptr <= c.ptr /\ End(c) <= End(roots[c.root])
  BY <1>1 DEF LaidOut
<1>3. \A i \in DOMAIN roots : /\ roots[i] \in Block /\ roots[i].bytes > 0 /\ roots[i].root = i
  BY <1>1 DEF RootsAreNumbered
<1>4. ASSUME NEW i \in DOMAIN roots
      PROVE  roots[i] \in free
  <2> DEFINE r == roots[i]
  <2>1. r \in Block /\ r.bytes > 0 /\ r.root = i /\ r.ptr \in Nat /\ r.bytes \in Nat
    BY <1>3 DEF Block
  <2>2. r.ptr < End(r)
    BY <2>1 DEF End
  <2>3. PICK b \in free : Covers(b, i, r.ptr)
    BY <1>1, <2>1, <2>2 DEF Covered
  <2>4. /\ b \in Block /\ b.bytes > 0 /\ b.root = i /\ b.ptr = r.ptr /\ End(b) <= End(r)
        /\ b.ptr \in Nat /\ b.bytes \in Nat
    BY <1>2, <2>1, <2>3 DEF Covers, Block
  <2>5. End(b) = End(r)
    <3> SUFFICES ASSUME End(b) # End(r) PROVE FALSE
      OBVIOUS
    <3>1. End(b) \in Nat /\ r.ptr <= End(b) /\ End(b) < End(r)
      BY <2>1, <2>4 DEF End
    <3>2. PICK c \in free : Covers(c, i, End(b))
      BY <1>1, <3>1 DEF Covered
    <3>3. c \in Block /\ c.ptr \in Nat /\ c.bytes \in Nat
      BY <1>2 DEF Block
    <3>4. c # b
      BY <2>4, <3>2 DEF Covers, End
    <3>5. Apart(b, c)
      BY <1>1, <3>4 DEF LaidOut
    <3>6. c.ptr = End(b) /\ c.root = b.root
      BY <2>4, <3>1, <3>2, <3>3, <3>5 DEF Apart, Covers, End
    <3> QED BY <1>1, <3>6 DEF NoNeighbours, Precedes
  <2>6. b.bytes = r.bytes
    BY <2>1, <2>4, <2>5 DEF End
  <2>7. b = [ptr |-> b.ptr, bytes |-> b.bytes, root |-> b.root]
        /\ r = [ptr |-> r.ptr, bytes |-> r.bytes, root |-> r.root]
    BY <2>1, <2>4 DEF Block
  <2>8. b = r
    BY <2>1, <2>4, <2>6, <2>7
  <2> QED BY <2>8
<1>5. ASSUME NEW c \in free
      PROVE  c = roots[c.root] /\ c.root \in DOMAIN roots
  <2>1. /\ c \in Block /\ c.bytes > 0 /\ c.root \in DOMAIN roots
        /\ roots[c.root].ptr <= c.ptr /\ End(c) <= End(roots[c.root])
        /\ roots[c.root] \in Block /\ roots[c.root] \in free
    BY <1>2, <1>3, <1>4
  <2>2. ~Apart(c, roots[c.root])
    BY <2>1 DEF Apart, End, Block
  <2> QED BY <1>1, <2>1, <2>2 DEF LaidOut
<1> QED BY <1>4, <1>5

\* A size_t that has not wrapped around is the number itself.
LEMMA SmallModulo == ASSUME NEW a \in Nat, NEW n \in Nat, a < n PROVE a % n = a
OBVIOUS

\* NoByteIsLost: bytes_used() and bytes_available() add up to the pool, and what has
\* all been given back is whole again, as long as no size has wrapped around.
THEOREM EveryByteIsKept == Spec => []NoByteIsLost
<1>1. BooksInv => NoByteIsLost
  <2> SUFFICES ASSUME BooksInv PROVE NoByteIsLost
    OBVIOUS
  <2>1. TypeOK
    BY DEF BooksInv, Counts, IInv, Types, Buffers, TypeOK
  <2> SUFFICES ASSUME ~wrapped
               PROVE  /\ allocated = BytesOf(live)
                      /\ committed = BytesOf(live) + BytesOf(free)
                      /\ committed <= poolBytes => allocated + BytesAvailable = poolBytes
                      /\ live = {} => free = {roots[i] : i \in DOMAIN roots}
    BY <2>1 DEF NoByteIsLost
  <2>2. /\ allocated = BytesOf(live) /\ committed = BytesOf(live) + BytesOf(free)
        /\ BytesOf(live) \in Nat /\ BytesOf(free) \in Nat
        /\ poolBytes \in Nat /\ poolBytes < WordSize /\ WordSize \in Nat
    BY BooksFacts, DeviceMemoryAssumption DEF BooksInv, Counts, Books, IInv, Types
  <2>3. committed <= poolBytes => allocated + BytesAvailable = poolBytes
    <3> SUFFICES ASSUME committed <= poolBytes PROVE allocated + BytesAvailable = poolBytes
      OBVIOUS
    <3> DEFINE rest == BytesOf(free) + poolBytes - committed
    <3>1. rest \in Nat /\ rest < WordSize /\ allocated + rest = poolBytes
      BY <2>2
    <3>2. BytesAvailable = rest % WordSize
      BY DEF BytesAvailable
    <3> HIDE DEF rest
    <3> QED BY <2>2, <3>1, <3>2, SmallModulo
  <2>4. live = {} => free = {roots[i] : i \in DOMAIN roots}
    BY RootsAreWhole
  <2> QED BY <2>2, <2>3, <2>4
<1> QED BY BooksBalance, <1>1, PTL

-----------------------------------------------------------------------------
(* The index on the device.                                                *)
(*                                                                         *)
(* Its centroids are computed by recursion: over the iterations of k-means *)
(* and, in each of them, over the rows of a list.  A function that is      *)
(* defined along a well-founded set exists.                                *)

\* A function on a well-founded set: what it says of a member is said of its parts.
WellFounded(N, P) ==
    /\ \A n \in N : P[n] \subseteq N
    /\ \A B \in SUBSET N : B # {} => \E n \in B : P[n] \intersect B = {}

Respects(F, N, P, V) ==
    /\ \A n \in N, g \in [N -> V] : F[n][g] \in V
    /\ \A n \in N, g, h \in [N -> V] : (\A m \in P[n] : g[m] = h[m]) => F[n][g] = F[n][h]

\* h is a solution on S, which has all parts of its members.
SolvedOn(F, N, P, S, h) ==
    /\ S \subseteq N
    /\ \A n \in S : P[n] \subseteq S /\ h[n] = F[n][h]

\* Two functions that solve the same equation agree where both do.
LEMMA SolvedAlike ==
    ASSUME NEW N, NEW P, WellFounded(N, P), NEW V, NEW F, Respects(F, N, P, V),
           NEW g \in [N -> V], NEW h \in [N -> V], NEW S, NEW T,
           SolvedOn(F, N, P, S, g), SolvedOn(F, N, P, T, h)
    PROVE  \A n \in S \intersect T : g[n] = h[n]
<1> DEFINE B == {n \in S \intersect T : g[n] # h[n]}
<1>1. SUFFICES ASSUME B # {} PROVE FALSE
  OBVIOUS
<1>2. B \in SUBSET N
  BY DEF SolvedOn
<1>3. PICK n \in B : P[n] \intersect B = {}
  <2> HIDE DEF B
  <2> QED BY <1>1, <1>2 DEF WellFounded
<1>4. \A m \in P[n] : g[m] = h[m]
  BY <1>3 DEF SolvedOn
<1>5. F[n][g] = F[n][h]
  BY <1>2, <1>4 DEF Respects
<1> QED BY <1>5 DEF SolvedOn

\* The equation of a recursion along a well-founded set has a solution.
LEMMA Recursion ==
    ASSUME NEW N, NEW P, WellFounded(N, P), NEW V, NEW v \in V, NEW F, Respects(F, N, P, V)
    PROVE  \E h \in [N -> V] : \A n \in N : h[n] = F[n][h]
<1> DEFINE Good == {p \in (SUBSET N) \X [N -> V] : SolvedOn(F, N, P, p[1], p[2])}
<1> DEFINE U == {n \in N : \E p \in Good : n \in p[1]}
<1> DEFINE Of(n) == CHOOSE p \in Good : n \in p[1]
<1> DEFINE H == [n \in N |-> IF n \in U THEN Of(n)[2][n] ELSE v]
<1>1. \A n \in U : Of(n) \in Good /\ n \in Of(n)[1]
  <2> HIDE DEF Good
  <2> QED OBVIOUS
<1>2. H \in [N -> V]
  <2> HIDE DEF Of
  <2> QED BY <1>1
<1>3. \A p \in Good : \A n \in p[1] : n \in U /\ H[n] = p[2][n]
  <2> SUFFICES ASSUME NEW p \in Good, NEW n \in p[1]
               PROVE  n \in U /\ H[n] = p[2][n]
    OBVIOUS
  <2>1. n \in U
    OBVIOUS
  <2>2. Of(n) \in Good /\ n \in Of(n)[1]
    BY <1>1, <2>1
  <2> HIDE DEF Of
  <2>3. Of(n)[2][n] = p[2][n]
    BY <2>2, SolvedAlike
  <2> HIDE DEF U
  <2> QED BY <2>1, <2>3
<1>4. SolvedOn(F, N, P, U, H)
  <2>1. U \subseteq N
    OBVIOUS
  <2>2. ASSUME NEW n \in U
        PROVE  P[n] \subseteq U /\ H[n] = F[n][H]
    <3>1. PICK p \in Good : n \in p[1]
      OBVIOUS
    <3> HIDE DEF U, H
    <3>2. p[1] \subseteq N /\ p[2] \in [N -> V] /\ SolvedOn(F, N, P, p[1], p[2])
      OBVIOUS
    <3>3. P[n] \subseteq p[1] /\ p[2][n] = F[n][p[2]]
      BY <3>1, <3>2 DEF SolvedOn
    <3>4. P[n] \subseteq U /\ \A m \in P[n] : H[m] = p[2][m]
      BY <1>3, <3>3
    <3>5. F[n][p[2]] = F[n][H]
      BY <1>2, <3>1, <3>2, <3>4 DEF Respects
    <3> QED BY <1>3, <3>1, <3>3, <3>4, <3>5
  <2> HIDE DEF U, H
  <2> QED BY <2>1, <2>2 DEF SolvedOn
<1>5. U = N
  <2>1. SUFFICES ASSUME N \ U # {} PROVE FALSE
    OBVIOUS
  <2>2. PICK n \in N \ U : P[n] \intersect (N \ U) = {}
    <3> HIDE DEF U
    <3> QED BY <2>1 DEF WellFounded
  <2>3. P[n] \subseteq U
    BY <2>2 DEF WellFounded
  <2> DEFINE G == [H EXCEPT ![n] = F[n][H]]
  <2>4. G \in [N -> V] /\ G[n] = F[n][H] /\ \A m \in U : G[m] = H[m]
    <3> HIDE DEF H, U
    <3>1. F[n][H] \in V
      BY <1>2, <2>2 DEF Respects
    <3> QED BY <1>2, <2>2, <3>1
  <2>5. ASSUME NEW m \in U \union {n}
        PROVE  P[m] \subseteq U /\ G[m] = F[m][G]
    <3> HIDE DEF G, H
    <3>1. P[m] \subseteq U
      BY <1>4, <2>3 DEF SolvedOn
    <3>2. G[m] = F[m][H]
      BY <1>4, <2>4 DEF SolvedOn
    <3>3. \A k \in P[m] : G[k] = H[k]
      BY <2>4, <3>1
    <3>4. m \in N
      BY <2>2
    <3>5. F[m][G] = F[m][H]
      BY <1>2, <2>4, <3>3, <3>4 DEF Respects
    <3> QED BY <3>1, <3>2, <3>5
  <2>6. SolvedOn(F, N, P, U \union {n}, G)
    <3> HIDE DEF G
    <3> QED BY <2>2, <2>5 DEF SolvedOn
  <2>7. <<U \union {n}, G>> \in Good
    <3> HIDE DEF G, H
    <3> QED BY <2>2, <2>4, <2>6
  <2> QED BY <1>3, <2>2, <2>7
<1> HIDE DEF U, H
<1> QED BY <1>2, <1>4, <1>5 DEF SolvedOn

-----------------------------------------------------------------------------
\* A set of natural numbers has a least one.
LEMMA LeastNumber ==
    ASSUME NEW T, T \subseteq Nat, T # {}
    PROVE  \E x \in T : \A y \in T : x <= y
<1> DEFINE R == {ss \in Nat \X Nat : ss[1] < ss[2]}
<1>1. IsWellFoundedOn(R, Nat)
  BY NatLessThanWellFounded, Zenon DEF OpToRel
<1>2. PICK x \in T : \A y \in T : <<y, x>> \notin R
  <2> HIDE DEF R
  <2> QED BY <1>1, WFMin
<1>3. \A y \in T : ~(y < x)
  BY <1>2
<1> QED BY <1>3

\* A distance is a number, and 0 between equal places only.
LEMMA DistanceFacts ==
    ASSUME NEW p \in Nat, NEW q \in Nat
    PROVE  Distance(p, q) \in Nat /\ (Distance(p, q) = 0 <=> p = q)
BY DEF Distance

\* What CHOOSE takes in Closest exists, and there is one only.
IsClosest(at, C, l) ==
    /\ l \in DOMAIN C
    /\ \A m \in DOMAIN C :
          \/ Distance(at, C[l]) < Distance(at, C[m])
          \/ Distance(at, C[l]) = Distance(at, C[m]) /\ l <= m

\* Every place has a nearest centroid.
LEMMA ClosestFacts ==
    ASSUME NEW C \in Seq(Nat), C # <<>>, NEW at \in Nat
    PROVE  /\ Closest(at, C) \in 1..Len(C)
           /\ IsClosest(at, C, Closest(at, C))
<1> DEFINE d(l) == Distance(at, C[l])
<1>1. DOMAIN C = 1..Len(C) /\ 1 \in 1..Len(C) /\ \A l \in 1..Len(C) : d(l) \in Nat
  <2>1. DOMAIN C = 1..Len(C) /\ 1 \in 1..Len(C) /\ \A l \in 1..Len(C) : C[l] \in Nat
    OBVIOUS
  <2> QED BY <2>1, DistanceFacts
<1> DEFINE D == {d(l) : l \in 1..Len(C)}
<1>2. PICK x \in D : \A y \in D : x <= y
  <2>1. D \subseteq Nat /\ d(1) \in D
    BY <1>1
  <2> HIDE DEF D
  <2> QED BY <2>1, LeastNumber
<1> DEFINE L == {l \in 1..Len(C) : d(l) = x}
<1>3. PICK l \in L : \A m \in L : l <= m
  <2>1. L \subseteq Nat /\ L # {}
    BY <1>2
  <2> HIDE DEF L
  <2> QED BY <2>1, LeastNumber
<1>4. ASSUME NEW m \in 1..Len(C)
      PROVE  d(l) < d(m) \/ (d(l) = d(m) /\ l <= m)
  <2>1. d(m) \in D /\ d(l) = x /\ d(m) \in Nat /\ d(l) \in Nat
    BY <1>1, <1>3
  <2>2. d(l) <= d(m)
    <3> HIDE DEF d, D
    <3> QED BY <1>2, <2>1
  <2>3. d(l) = d(m) => m \in L
    BY <2>1
  <2>4. d(l) = d(m) => l <= m
    <3> HIDE DEF L
    <3> QED BY <1>3, <2>3
  <2> HIDE DEF d
  <2> QED BY <2>1, <2>2, <2>4
<1>5. \E n \in DOMAIN C : \A m \in DOMAIN C :
          LET e(i) == Distance(at, C[i]) IN e(n) < e(m) \/ (e(n) = e(m) /\ n <= m)
  BY <1>1, <1>4
<1>6. IsClosest(at, C, Closest(at, C))
  BY <1>5 DEF Closest, IsClosest
<1> QED BY <1>1, <1>6 DEF IsClosest

-----------------------------------------------------------------------------
(* Rows. *)

\* What a batch is, position by position.
LEMMA RowFacts ==
    ASSUME NEW R, IsBatch(R)
    PROVE  /\ Len(R) \in Nat /\ DOMAIN R = 1..Len(R)
           /\ R = <<>> <=> Len(R) = 0
           /\ \A s \in 1..Len(R) :
                 /\ R[s].id \in Ids /\ R[s].at \in Nat /\ R[s].at \in PlacesOf[R[s].id]
                 /\ R[s] = Row(R[s].id, R[s].at) /\ R[s].at # NoPlace
           /\ \A s, t \in 1..Len(R) : R[s].id = R[t].id => s = t
<1>1. R \in Seq([id : Ids, at : Nat])
  BY DEF IsBatch
<1> DEFINE V == [id : Ids, at : Nat]
<1>2. /\ Len(R) \in Nat /\ DOMAIN R = 1..Len(R) /\ (R = <<>> <=> Len(R) = 0)
      /\ \A s \in 1..Len(R) : R[s] \in V
  <2> HIDE DEF V
  <2>1. R \in Seq(V)
    BY <1>1 DEF V
  <2> QED BY <2>1
<1>3. ASSUME NEW s \in 1..Len(R)
      PROVE  /\ R[s].id \in Ids /\ R[s].at \in Nat /\ R[s].at \in PlacesOf[R[s].id]
             /\ R[s] = Row(R[s].id, R[s].at) /\ R[s].at # NoPlace
  <2>1. R[s] \in [id : Ids, at : Nat]
    BY <1>2
  <2>2. R[s].at \in PlacesOf[R[s].id]
    BY <1>2 DEF IsBatch
  <2> QED BY <2>1, <2>2, GpuIvfAssumption DEF Row
<1> QED BY <1>2, <1>3 DEF IsBatch

SumOf(R, S) == MapThenSumSet(LAMBDA s : R[s].at, S)

\* Taking one element after the other out of a finite set comes to an end.
LEMMA SubsetsAreWellFounded ==
    ASSUME NEW S, IsFiniteSet(S)
    PROVE  WellFounded(SUBSET S, [s \in SUBSET S |-> IF s = {} THEN {} ELSE {s \ {Chosen(s)}}])
<1> DEFINE P == [s \in SUBSET S |-> IF s = {} THEN {} ELSE {s \ {Chosen(s)}}]
<1>1. \A s \in SUBSET S : P[s] \subseteq SUBSET S
  OBVIOUS
<1>2. ASSUME NEW B, B \in SUBSET (SUBSET S), B # {}
      PROVE  \E n \in B : P[n] \intersect B = {}
  <2>1. PICK n \in B : \A t \in B : t \subseteq n => t = n
    <3>1. \A t \in B : t \subseteq S
      BY <1>2
    <3> HIDE DEF P
    <3> QED BY <1>2, <3>1, LeastSet
  <2>2. n # {} => n \ {Chosen(n)} \notin B
    BY <2>1, ChosenIsMember
  <2>3. P[n] = IF n = {} THEN {} ELSE {n \ {Chosen(n)}}
    BY <1>2
  <2> HIDE DEF P
  <2> QED BY <2>2, <2>3
<1> HIDE DEF P
<1>3. WellFounded(SUBSET S, P)
  BY <1>1, <1>2 DEF WellFounded
<1> QED BY <1>3 DEF P

\* The positions of the rows of a list are a finite set, and so the sum of what
\* is there is defined.
LEMMA SumIsNat ==
    ASSUME NEW R, IsBatch(R), NEW S \in SUBSET (1..Len(R))
    PROVE  SumOf(R, S) \in Nat
<1> DEFINE N == SUBSET S
<1> DEFINE P == [s \in N |-> IF s = {} THEN {} ELSE {s \ {Chosen(s)}}]
<1> DEFINE One(s, g) == IF s = {} THEN 0 ELSE R[Chosen(s)].at + g[s \ {Chosen(s)}]
<1> DEFINE F == [s \in N |-> [g \in [N -> Nat] |-> One(s, g)]]
<1>1. Len(R) \in Nat /\ IsFiniteSet(S) /\ \A s \in S : R[s].at \in Nat
  <2>1. Len(R) \in Nat /\ \A s \in 1..Len(R) : R[s].at \in Nat
    BY RowFacts
  <2>2. IsFiniteSet(1..Len(R))
    BY <2>1, FS_Interval
  <2> QED BY <2>1, <2>2, FS_Subset
<1>2. \A s \in N : s # {} => Chosen(s) \in s /\ s \ {Chosen(s)} \in N /\ s \ {Chosen(s)} # s
  BY ChosenIsMember
<1>3. WellFounded(N, P)
  BY <1>1, SubsetsAreWellFounded
<1>4. ASSUME NEW s \in N, NEW g \in [N -> Nat]
      PROVE  One(s, g) \in Nat
  <2>1. CASE s = {}
    BY <2>1
  <2>2. CASE s # {}
    <3>1. Chosen(s) \in S /\ s \ {Chosen(s)} \in N
      BY <1>2, <2>2
    <3>2. R[Chosen(s)].at \in Nat /\ g[s \ {Chosen(s)}] \in Nat
      BY <1>1, <3>1
    <3> QED BY <2>2, <3>2
  <2> QED BY <2>1, <2>2
<1>5. \A s \in N, g \in [N -> Nat] : F[s][g] = One(s, g)
  <2> HIDE DEF One
  <2> QED OBVIOUS
<1>6. Respects(F, N, P, Nat)
  <2>1. \A s \in N, g \in [N -> Nat] : F[s][g] \in Nat
    <3> HIDE DEF One, F
    <3> QED BY <1>4, <1>5
  <2>2. ASSUME NEW s \in N, NEW g \in [N -> Nat], NEW h \in [N -> Nat],
               \A m \in P[s] : g[m] = h[m]
        PROVE  F[s][g] = F[s][h]
    <3>1. One(s, g) = One(s, h)
      BY <2>2
    <3> HIDE DEF One, F
    <3> QED BY <1>5, <3>1
  <2> HIDE DEF F, P, N
  <2> QED BY <2>1, <2>2 DEF Respects
<1>7. PICK h \in [N -> Nat] : \A s \in N : h[s] = F[s][h]
  <2> DEFINE V == Nat
  <2>1. 0 \in V /\ Respects(F, N, P, V)
    BY <1>6
  <2> HIDE DEF N, P, F, One, V
  <2>2. \E h \in [N -> V] : \A s \in N : h[s] = F[s][h]
    BY <2>1, <1>3, Recursion
  <2> QED BY <2>2 DEF V
<1> DEFINE G == CHOOSE g : g = [s \in SUBSET S |-> One(s, g)]
<1>8. G = [s \in N |-> One(s, G)]
  <2>1. h = [s \in N |-> One(s, h)]
    <3> HIDE DEF One, F
    <3> QED BY <1>5, <1>7
  <2> HIDE DEF One
  <2> QED BY <2>1
<1>9. SumOf(R, S) = G[S]
  BY DEF SumOf, MapThenSumSet, MapThenFoldSet, Chosen
<1>10. \A s \in N : G[s] \in Nat
  <2> DEFINE B == {s \in N : G[s] \notin Nat}
  <2> SUFFICES ASSUME B # {} PROVE FALSE
    OBVIOUS
  <2>1. PICK s \in B : P[s] \intersect B = {}
    <3> HIDE DEF P, G
    <3> QED BY <1>3 DEF WellFounded
  <2>2. G[s] = One(s, G)
    <3> HIDE DEF One, G
    <3> QED BY <1>8
  <2> HIDE DEF G
  <2>3. s # {}
    BY <2>2
  <2>4. s \ {Chosen(s)} \notin B
    BY <2>1, <2>3
  <2>5. G[s \ {Chosen(s)}] \in Nat /\ R[Chosen(s)].at \in Nat
    BY <1>1, <1>2, <2>3, <2>4
  <2> QED BY <2>2, <2>3, <2>5
<1> QED BY <1>9, <1>10

-----------------------------------------------------------------------------
\* The row of each id: the only one that has it, or none.
IsSlot(t, R, id) ==
    \/ t \in 1..Len(R) /\ R[t].id = id
    \/ t = 0 /\ \A s \in 1..Len(R) : R[s].id # id

\* SlotOf leads each id to its row, and to 0 if it has none.
LEMMA SlotFacts ==
    ASSUME NEW R, IsBatch(R)
    PROVE  /\ SlotOf(R) = [id \in Ids |-> SlotOf(R)[id]]
           /\ \A id \in Ids : IsSlot(SlotOf(R)[id], R, id)
           /\ \A s \in 1..Len(R) : SlotOf(R)[R[s].id] = s
<1>1. SlotOf(R) = [id \in Ids |-> SlotOf(R)[id]]
  BY DEF SlotOf
<1>2. ASSUME NEW id \in Ids
      PROVE  IsSlot(SlotOf(R)[id], R, id)
  <2> DEFINE T == {s \in DOMAIN R : R[s].id = id}
  <2>1. SlotOf(R)[id] = Max({0} \union T)
    BY DEF SlotOf
  <2>2. CASE \E s \in 1..Len(R) : R[s].id = id
    <3>1. PICK s \in 1..Len(R) : R[s].id = id
      BY <2>2
    <3>2. {0} \union T = {0, s} /\ s \in Nat /\ s >= 0
      BY <3>1, RowFacts
    <3> HIDE DEF T
    <3>3. Max({0, s}) = s
      BY <3>2 DEF Max
    <3> QED BY <2>1, <3>1, <3>2, <3>3 DEF IsSlot
  <2>3. CASE \A s \in 1..Len(R) : R[s].id # id
    <3>1. {0} \union T = {0}
      BY <2>3, RowFacts
    <3> HIDE DEF T
    <3>2. Max({0}) = 0
      BY DEF Max
    <3> QED BY <2>1, <2>3, <3>1, <3>2 DEF IsSlot
  <2> QED BY <2>2, <2>3
<1>3. ASSUME NEW s \in 1..Len(R)
      PROVE  SlotOf(R)[R[s].id] = s
  <2>1. R[s].id \in Ids
    BY RowFacts
  <2> QED BY <1>2, <2>1, RowFacts DEF IsSlot
<1> QED BY <1>1, <1>2, <1>3

\* Whatever leads each id to its row is SlotOf.
LEMMA SlotIs ==
    ASSUME NEW R, IsBatch(R), NEW f, f = [id \in Ids |-> f[id]],
           \A id \in Ids : IsSlot(f[id], R, id)
    PROVE  f = SlotOf(R)
<1>1. \A id \in Ids : f[id] = SlotOf(R)[id]
  BY SlotFacts, RowFacts DEF IsSlot
<1>2. SlotOf(R) = [id \in Ids |-> SlotOf(R)[id]]
  BY SlotFacts
<1> QED BY <1>1, <1>2

-----------------------------------------------------------------------------
(* Training. *)

\* Every row is assigned to a list.
LEMMA AssignedFacts ==
    ASSUME NEW R, IsBatch(R), NEW C \in Seq(Nat), C # <<>>
    PROVE  /\ Assigned(R, C) \in Seq(1..Len(C)) /\ Len(Assigned(R, C)) = Len(R)
           /\ DOMAIN Assigned(R, C) = 1..Len(R)
           /\ \A s \in 1..Len(R) : Assigned(R, C)[s] = Closest(R[s].at, C)
<1>1. Len(R) \in Nat /\ DOMAIN R = 1..Len(R) /\ \A s \in 1..Len(R) : R[s].at \in Nat
  BY RowFacts
<1>2. Assigned(R, C) = [s \in 1..Len(R) |-> Closest(R[s].at, C)]
  BY <1>1 DEF Assigned
<1>3. \A s \in 1..Len(R) : Closest(R[s].at, C) \in 1..Len(C)
  BY <1>1, ClosestFacts
<1> QED BY <1>1, <1>2, <1>3

\* A round of k-means makes as many centroids as it is given.
LEMMA SettledFacts ==
    ASSUME NEW R, IsBatch(R), R # <<>>, NEW n \in Nat \ {0}, NEW C \in [1..n -> Nat]
    PROVE  Settled(R, C) \in [1..n -> Nat]
<1>1. Len(R) \in Nat \ {0} /\ DOMAIN R = 1..Len(R) /\ \A s \in 1..Len(R) : R[s].at \in Nat
  BY RowFacts
<1> DEFINE mine(l) == {s \in 1..Len(R) : Assigned(R, C)[s] = l}
<1> DEFINE mean(l) == IF mine(l) = {} THEN R[((l - 1) % Len(R)) + 1].at
                      ELSE SumOf(R, mine(l)) \div Cardinality(mine(l))
<1>2. Settled(R, C) = [l \in 1..n |-> mean(l)]
  BY <1>1 DEF Settled, SumOf, MapThenSumSet, MapThenFoldSet
<1>3. ASSUME NEW l \in 1..n
      PROVE  mean(l) \in Nat
  <2>1. CASE mine(l) = {}
    <3>1. (l - 1) % Len(R) \in 0..(Len(R) - 1)
      BY <1>1
    <3>2. ((l - 1) % Len(R)) + 1 \in 1..Len(R)
      BY <1>1, <3>1
    <3> QED BY <1>1, <2>1, <3>2
  <2>2. CASE mine(l) # {}
    <3>1. mine(l) \in SUBSET (1..Len(R))
      OBVIOUS
    <3> DEFINE m == mine(l)
    <3> HIDE DEF m
    <3>2. IsFiniteSet(m)
      <4>1. \A k \in Nat : IsFiniteSet(1..k)
        BY FS_Interval
      <4>2. IsFiniteSet(1..Len(R))
        BY <1>1, <4>1
      <4> QED BY <3>1, <4>2, FS_Subset DEF m
    <3>3. Cardinality(m) \in Nat \ {0}
      <4>1. Cardinality(m) \in Nat
        BY <3>2, FS_CardinalityType
      <4>2. m # {} /\ Cardinality(m) # 0
        BY <2>2, <3>2, FS_EmptySet DEF m
      <4> QED BY <4>1, <4>2
    <3>4. SumOf(R, m) \in Nat
      BY <3>1, SumIsNat DEF m
    <3>5. SumOf(R, m) \div Cardinality(m) \in Nat
      BY <3>3, <3>4
    <3> QED BY <2>2, <3>5 DEF m
  <2> QED BY <2>1, <2>2
<1> HIDE DEF mean
<1> QED BY <1>2, <1>3

\* k-means makes as many centroids as it is asked for, after however many rounds.
LEMMA TrainFacts ==
    ASSUME NEW R, IsBatch(R), R # <<>>, NEW n \in Nat \ {0}
    PROVE  TrainCentroids(R, n) \in Seq(Nat) /\ Len(TrainCentroids(R, n)) = n
<1> DEFINE stride == Greater(1, Len(R) \div n)
<1> DEFINE start == [l \in 1..n |-> R[Smaller(Len(R), (l - 1) * stride + 1)].at]
<1> DEFINE One(i, g) == IF i = 0 THEN start ELSE Settled(R, g[i - 1])
<1> DEFINE N == 0..Iterations
<1> DEFINE V == [1..n -> Nat]
<1> DEFINE P == [i \in N |-> IF i = 0 THEN {} ELSE {i - 1}]
<1> DEFINE F == [i \in N |-> [g \in [N -> V] |-> One(i, g)]]
<1>1. Iterations \in Nat
  BY GpuIvfAssumption
<1>2. start \in V
  <2>1. Len(R) \in Nat \ {0} /\ \A s \in 1..Len(R) : R[s].at \in Nat
    BY RowFacts
  <2>2. stride \in Nat
    <3>1. Len(R) \div n \in Nat
      BY <2>1
    <3> QED BY <3>1 DEF Greater
  <2> HIDE DEF stride
  <2>3. ASSUME NEW l \in 1..n
        PROVE  R[Smaller(Len(R), (l - 1) * stride + 1)].at \in Nat
    <3>1. (l - 1) * stride \in Nat
      <4>1. l - 1 \in Nat
        OBVIOUS
      <4> QED BY <2>2, <4>1
    <3> DEFINE m == (l - 1) * stride
    <3> HIDE DEF m
    <3>2. Smaller(Len(R), m + 1) \in 1..Len(R)
      BY <2>1, <3>1 DEF Smaller, m
    <3> QED BY <2>1, <3>2 DEF m
  <2> QED BY <2>3
<1> HIDE DEF start
<1>3. WellFounded(N, P)
  <2>1. \A i \in N : P[i] \subseteq N
    BY <1>1
  <2>2. ASSUME NEW B \in SUBSET N, B # {}
        PROVE  \E i \in B : P[i] \intersect B = {}
    <3>1. B \subseteq Nat
      BY <1>1
    <3>2. PICK i \in B : \A j \in B : i <= j
      <4> HIDE DEF N
      <4> QED BY <2>2, <3>1, LeastNumber
    <3> QED BY <1>1, <3>2
  <2> HIDE DEF N, P
  <2> QED BY <2>1, <2>2 DEF WellFounded
<1>4. ASSUME NEW i \in N, NEW g \in [N -> V]
      PROVE  One(i, g) \in V
  <2>1. CASE i = 0
    BY <1>2, <2>1
  <2>2. CASE i # 0
    <3>1. g[i - 1] \in V
      <4>1. i - 1 \in N
        BY <1>1, <2>2
      <4> HIDE DEF N, V
      <4> QED BY <4>1
    <3>2. Settled(R, g[i - 1]) \in V
      BY <3>1, SettledFacts
    <3> QED BY <2>2, <3>2
  <2> QED BY <2>1, <2>2
<1> HIDE DEF V
<1>5. \A i \in N, g \in [N -> V] : F[i][g] = One(i, g)
  <2> HIDE DEF One, N
  <2> QED OBVIOUS
<1>6. Respects(F, N, P, V)
  <2>1. \A i \in N, g \in [N -> V] : F[i][g] \in V
    <3> HIDE DEF One, F
    <3> QED BY <1>4, <1>5
  <2>2. ASSUME NEW i \in N, NEW g \in [N -> V], NEW h \in [N -> V],
               \A m \in P[i] : g[m] = h[m]
        PROVE  F[i][g] = F[i][h]
    <3>1. One(i, g) = One(i, h)
      BY <2>2
    <3> HIDE DEF One, F
    <3> QED BY <1>5, <3>1
  <2> HIDE DEF F, P, N
  <2> QED BY <2>1, <2>2 DEF Respects
<1>7. PICK h \in [N -> V] : \A i \in N : h[i] = F[i][h]
  <2> HIDE DEF N, P, F, One
  <2> QED BY <1>2, <1>3, <1>6, Recursion
<1> DEFINE G == CHOOSE g : g = [i \in N |-> One(i, g)]
<1>8. G = [i \in N |-> One(i, G)]
  <2>1. h = [i \in N |-> One(i, h)]
    <3> HIDE DEF One, F, N
    <3> QED BY <1>5, <1>7
  <2> HIDE DEF One, N
  <2> QED BY <2>1
<1>9. TrainCentroids(R, n) = G[Iterations]
  BY DEF TrainCentroids, start
<1>10. \A i \in N : G[i] \in V
  <2> DEFINE B == {i \in N : G[i] \notin V}
  <2> SUFFICES ASSUME B # {} PROVE FALSE
    OBVIOUS
  <2>1. PICK i \in B : P[i] \intersect B = {}
    <3>1. B \in SUBSET N
      OBVIOUS
    <3> HIDE DEF P, G, N, B
    <3> QED BY <1>3, <3>1 DEF WellFounded
  <2>2. G[i] = One(i, G)
    <3> HIDE DEF One, G
    <3> QED BY <1>8
  <2> HIDE DEF G
  <2>3. i # 0
    BY <1>2, <2>2
  <2>4. i - 1 \in N /\ i - 1 \notin B
    BY <1>1, <2>1, <2>3
  <2>5. G[i - 1] \in V
    BY <2>4
  <2>6. Settled(R, G[i - 1]) \in V
    BY <2>5, SettledFacts DEF V
  <2> QED BY <2>2, <2>3, <2>6
<1>11. G[Iterations] \in V
  BY <1>1, <1>10
<1> QED BY <1>9, <1>11 DEF V

-----------------------------------------------------------------------------
(* The index as its rows and centroids make it. *)

Fields(r, l, m, c, t) == [rows |-> r, list |-> l, members |-> m, centroids |-> c, slot |-> t]

IndexOf(R, C) ==
    Fields(R, Assigned(R, C), MembersOf(Assigned(R, C), Len(C)), C, SlotOf(R))

\* There are no more lists than wanted nor than rows, and one if there is a row.
Fit(R, C) ==
    /\ IsBatch(R) /\ C \in Seq(Nat)
    /\ Len(C) <= Smaller(RequestedLists, Len(R))
    /\ R # <<>> => C # <<>>

IsIndexOf(s, R) == \E C : s = IndexOf(R, C) /\ Fit(R, C)

\* There are lists exactly when there are rows, and no more of them.
LEMMA FitFacts ==
    ASSUME NEW R, NEW C, Fit(R, C)
    PROVE  /\ Len(R) \in Nat /\ Len(C) \in Nat /\ RequestedLists \in Nat \ {0}
           /\ Len(C) <= RequestedLists /\ Len(C) <= Len(R)
           /\ R # <<>> => Len(C) > 0 /\ Len(R) > 0
           /\ R = <<>> => C = <<>>
<1>1. Len(R) \in Nat /\ (R = <<>> <=> Len(R) = 0)
  BY RowFacts DEF Fit
<1>2. RequestedLists \in Nat \ {0}
  BY GpuIvfAssumption
<1>3. Len(C) <= RequestedLists /\ Len(C) <= Len(R) /\ C \in Seq(Nat)
  BY <1>1, <1>2 DEF Fit, Smaller
<1> QED BY <1>1, <1>2, <1>3 DEF Fit

\* The empty index is the index of no rows.
LEMMA EmptyIndex == IsIndexOf(EmptyIvf, <<>>)
<1>1. IsBatch(<<>>)
  BY DEF IsBatch
<1>2. Fit(<<>>, <<>>)
  BY <1>1, GpuIvfAssumption DEF Fit, Smaller
<1>3. Assigned(<<>>, <<>>) = <<>>
  BY DEF Assigned
<1>4. MembersOf(<<>>, 0) = <<>>
  BY DEF MembersOf
<1>5. [id \in Ids |-> 0] = SlotOf(<<>>)
  <2> DEFINE f == [id \in Ids |-> 0]
  <2>1. f = [id \in Ids |-> f[id]] /\ \A id \in Ids : IsSlot(f[id], <<>>, id)
    BY DEF IsSlot
  <2> HIDE DEF f
  <2>2. f = SlotOf(<<>>)
    BY <1>1, <2>1, SlotIs
  <2> QED BY <2>2 DEF f
<1>6. EmptyIvf = IndexOf(<<>>, <<>>)
  BY <1>3, <1>4, <1>5 DEF EmptyIvf, IndexOf, Fields
<1> QED BY <1>2, <1>6 DEF IsIndexOf

\* What is built from rows is an index of them.
LEMMA RebuiltIndex ==
    ASSUME NEW R, IsBatch(R), NEW n \in Nat \ {0}, n <= RequestedLists
    PROVE  IsIndexOf(Rebuild(R, n), R)
<1>1. CASE R = <<>>
  BY <1>1, EmptyIndex DEF Rebuild
<1>2. CASE R # <<>>
  <2> DEFINE k == TargetLists(n, Len(R))
  <2> DEFINE C == TrainCentroids(R, k)
  <2>1. Len(R) \in Nat \ {0} /\ RequestedLists \in Nat
    BY <1>2, RowFacts, GpuIvfAssumption
  <2>2. k \in Nat \ {0} /\ k <= RequestedLists /\ k <= Len(R)
    BY <2>1 DEF TargetLists, Greater, Smaller
  <2> HIDE DEF k
  <2>3. C \in Seq(Nat) /\ Len(C) = k /\ C # <<>>
    BY <1>2, <2>2, TrainFacts
  <2>4. Rebuild(R, n) = IndexOf(R, C)
    BY <1>2 DEF Rebuild, IndexOf, Fields, k
  <2> HIDE DEF C
  <2>5. Fit(R, C)
    BY <2>1, <2>2, <2>3 DEF Fit, Smaller
  <2> QED BY <2>4, <2>5 DEF IsIndexOf
<1> QED BY <1>1, <1>2

-----------------------------------------------------------------------------
(* Removal: the last element fills the hole. *)

Filled(L, hole) ==
    [i \in 1..(Len(L) - 1) |-> IF i = hole THEN L[Len(L)] ELSE L[i]]

\* Moving the last element into a hole and cutting the end off is Filled.
LEMMA FilledFacts ==
    ASSUME NEW V, NEW L \in Seq(V), NEW hole \in 1..Len(L)
    PROVE  /\ Filled(L, hole) \in Seq(V)
           /\ Len(Filled(L, hole)) = Len(L) - 1
           /\ DOMAIN Filled(L, hole) = 1..(Len(L) - 1)
           /\ hole = Len(L) => Front(L) = Filled(L, hole)
           /\ hole # Len(L) => Front([L EXCEPT ![hole] = L[Len(L)]]) = Filled(L, hole)
<1>1. Len(L) \in Nat \ {0} /\ DOMAIN L = 1..Len(L) /\ \A i \in 1..Len(L) : L[i] \in V
  OBVIOUS
<1>2. /\ Filled(L, hole) \in Seq(V) /\ Len(Filled(L, hole)) = Len(L) - 1
      /\ DOMAIN Filled(L, hole) = 1..(Len(L) - 1)
  BY <1>1 DEF Filled
<1>3. ASSUME hole = Len(L)
      PROVE  Front(L) = Filled(L, hole)
  <2>1. Front(L) = [i \in 1..(Len(L) - 1) |-> L[i]]
    BY <1>1 DEF Front
  <2>2. Filled(L, hole) = [i \in 1..(Len(L) - 1) |-> L[i]]
    BY <1>1, <1>3 DEF Filled
  <2> QED BY <2>1, <2>2
<1>4. ASSUME hole # Len(L)
      PROVE  Front([L EXCEPT ![hole] = L[Len(L)]]) = Filled(L, hole)
  <2> DEFINE K == [L EXCEPT ![hole] = L[Len(L)]]
  <2>1. K \in Seq(V) /\ Len(K) = Len(L)
       /\ \A i \in 1..Len(L) : K[i] = IF i = hole THEN L[Len(L)] ELSE L[i]
    BY <1>1
  <2> HIDE DEF K
  <2>2. Front(K) = [i \in 1..(Len(L) - 1) |-> K[i]]
    BY <1>1, <2>1 DEF Front
  <2>3. Front(K) = Filled(L, hole)
    BY <1>1, <2>1, <2>2 DEF Filled
  <2> QED BY <2>3 DEF K
<1> QED BY <1>2, <1>3, <1>4

\* The lists of the rows say which rows are in each list.
LEMMA FilledMembers ==
    ASSUME NEW k \in Nat, NEW L \in Seq(1..k), NEW hole \in 1..Len(L),
           NEW M, M = [MembersOf(L, k) EXCEPT ![L[hole]] = @ \ {hole}]
    PROVE  /\ hole = Len(L) => M = MembersOf(Filled(L, hole), k)
           /\ hole # Len(L) => [M EXCEPT ![L[Len(L)]] = (@ \ {Len(L)}) \union {hole}]
                                   = MembersOf(Filled(L, hole), k)
<1>1. /\ Len(L) \in Nat \ {0} /\ DOMAIN L = 1..Len(L) /\ \A i \in 1..Len(L) : L[i] \in 1..k
      /\ DOMAIN Filled(L, hole) = 1..(Len(L) - 1)
  <2> DEFINE V == 1..k
  <2> HIDE DEF V
  <2>1. L \in Seq(V)
    BY DEF V
  <2>2. DOMAIN Filled(L, hole) = 1..(Len(L) - 1)
    BY <2>1, FilledFacts
  <2>3. Len(L) \in Nat \ {0} /\ DOMAIN L = 1..Len(L) /\ \A i \in 1..Len(L) : L[i] \in V
    BY <2>1
  <2> QED BY <2>2, <2>3 DEF V
<1> DEFINE In(l) == {s \in 1..Len(L) : L[s] = l}
<1> DEFINE Out(l) == {s \in 1..(Len(L) - 1) : Filled(L, hole)[s] = l}
<1>2. MembersOf(L, k) = [l \in 1..k |-> In(l)] /\ MembersOf(Filled(L, hole), k) = [l \in 1..k |-> Out(l)]
  BY <1>1 DEF MembersOf
<1>3. ASSUME NEW l \in 1..k, NEW s
      PROVE  s \in Out(l) <=> /\ s \in 1..(Len(L) - 1)
                              /\ l = IF s = hole THEN L[Len(L)] ELSE L[s]
  BY <1>1 DEF Filled
<1>7. \A l \in 1..k : \A s : s \in In(l) <=> s \in 1..Len(L) /\ l = L[s]
  OBVIOUS
<1>8. \A s : s \in 1..(Len(L) - 1) <=> s \in 1..Len(L) /\ s # Len(L)
  BY <1>1
<1>4. M = [l \in 1..k |-> IF l = L[hole] THEN In(l) \ {hole} ELSE In(l)]
  <2> HIDE DEF In
  <2> QED BY <1>1, <1>2
<1>5. ASSUME hole = Len(L)
      PROVE  M = MembersOf(Filled(L, hole), k)
  <2>1. ASSUME NEW l \in 1..k
        PROVE  Out(l) = IF l = L[hole] THEN In(l) \ {hole} ELSE In(l)
    <3>1. \A s : s \in Out(l) <=> s \in In(l) /\ ~(l = L[hole] /\ s = hole)
      <4> HIDE DEF Out, In
      <4> QED BY <1>1, <1>3, <1>5, <1>7
    <3> HIDE DEF Out, In
    <3> QED BY <3>1
  <2> HIDE DEF In, Out
  <2> QED BY <1>2, <1>4, <2>1
<1>6. ASSUME hole # Len(L)
      PROVE  [M EXCEPT ![L[Len(L)]] = (@ \ {Len(L)}) \union {hole}] = MembersOf(Filled(L, hole), k)
  <2>1. ASSUME NEW l \in 1..k
        PROVE  Out(l) = IF l = L[Len(L)] THEN (M[l] \ {Len(L)}) \union {hole} ELSE M[l]
    <3>1. M[l] = IF l = L[hole] THEN In(l) \ {hole} ELSE In(l)
      <4> HIDE DEF In
      <4> QED BY <1>4
    <3>2. CASE l = L[Len(L)]
      <4>1. \A s : s \in Out(l) <=>
                \/ s = hole
                \/ s \in In(l) /\ s # Len(L) /\ ~(l = L[hole] /\ s = hole)
        <5>1. \A s : s \in Out(l) <=> s \in 1..Len(L) /\ s # Len(L) /\ (s = hole \/ l = L[s])
          <6> HIDE DEF Out
          <6> QED BY <1>3, <1>8, <3>2
        <5> HIDE DEF Out, In
        <5> QED BY <1>6, <1>7, <5>1
      <4> HIDE DEF Out, In
      <4>2. \A s : s \in M[l] <=> s \in In(l) /\ ~(l = L[hole] /\ s = hole)
        <5>1. CASE l = L[hole]
          <6>1. M[l] = In(l) \ {hole}
            BY <3>1, <5>1
          <6> QED BY <5>1, <6>1
        <5>2. CASE l # L[hole]
          <6>1. M[l] = In(l)
            BY <3>1, <5>2
          <6> QED BY <5>2, <6>1
        <5> QED BY <5>1, <5>2
      <4>3. Out(l) = (M[l] \ {Len(L)}) \union {hole}
        BY <4>1, <4>2
      <4> QED BY <3>2, <4>3
    <3>3. CASE l # L[Len(L)]
      <4>1. \A s : s \in Out(l) <=> s \in In(l) /\ ~(l = L[hole] /\ s = hole)
        <5>1. \A s : s \in Out(l) <=> s \in 1..Len(L) /\ s # Len(L) /\ s # hole /\ l = L[s]
          <6> HIDE DEF Out
          <6> QED BY <1>3, <1>8, <3>3
        <5> HIDE DEF Out, In
        <5> QED BY <1>6, <1>7, <3>3, <5>1
      <4> HIDE DEF Out, In
      <4> QED BY <3>1, <3>3, <4>1
    <3> QED BY <3>2, <3>3
  <2>2. [M EXCEPT ![L[Len(L)]] = (@ \ {Len(L)}) \union {hole}]
            = [l \in 1..k |-> IF l = L[Len(L)] THEN (M[l] \ {Len(L)}) \union {hole} ELSE M[l]]
    <3> HIDE DEF In
    <3> QED BY <1>1, <1>4
  <2> HIDE DEF In, Out
  <2> QED BY <1>2, <2>1, <2>2
<1> QED BY <1>5, <1>6

\* A record has the fields it is made of.
LEMMA FieldsAre ==
    ASSUME NEW r, NEW l, NEW m, NEW c, NEW t
    PROVE  /\ Fields(r, l, m, c, t).rows = r /\ Fields(r, l, m, c, t).list = l
           /\ Fields(r, l, m, c, t).members = m /\ Fields(r, l, m, c, t).centroids = c
           /\ Fields(r, l, m, c, t).slot = t
BY DEF Fields

\* The three steps of a removal, field by field.
Unlisted(s, x, hole) == [s EXCEPT !.members[x] = @ \ {hole}]
Cut(s, id) == [s EXCEPT !.rows = Front(@), !.list = Front(@), !.slot[id] = 0]

\* The row leaves its list.
LEMMA UnlistedFields ==
    ASSUME NEW r, NEW l, NEW m, NEW c, NEW t, NEW x, NEW hole
    PROVE  Unlisted(Fields(r, l, m, c, t), x, hole)
               = Fields(r, l, [m EXCEPT ![x] = @ \ {hole}], c, t)
BY DEF Fields, Unlisted

\* Nothing moves when the hole is the last row.
LEMMA NothingToFill ==
    ASSUME NEW r, NEW l, NEW m, NEW c, NEW t
    PROVE  FillHole(Fields(r, l, m, c, t), Len(r)) = Fields(r, l, m, c, t)
BY DEF Fields, FillHole

\* The last row moves into the hole, in all four containers.
LEMMA FillHoleFields ==
    ASSUME NEW r, NEW l, NEW m, NEW c, NEW t, NEW hole, hole # Len(r)
    PROVE  FillHole(Fields(r, l, m, c, t), hole)
               = Fields([r EXCEPT ![hole] = r[Len(r)]],
                        [l EXCEPT ![hole] = l[Len(r)]],
                        [m EXCEPT ![l[Len(r)]] = (@ \ {Len(r)}) \union {hole}],
                        c, [t EXCEPT ![r[Len(r)].id] = hole])
BY DEF Fields, FillHole

\* The end of the rows is cut off.
LEMMA CutFields ==
    ASSUME NEW r, NEW l, NEW m, NEW c, NEW t, NEW id
    PROVE  Cut(Fields(r, l, m, c, t), id)
               = Fields(Front(r), Front(l), m, c, [t EXCEPT ![id] = 0])
<1> DEFINE f == Fields(r, l, m, c, t)
<1> DEFINE g == [f EXCEPT !.rows = Front(f.rows)]
<1> DEFINE h == [g EXCEPT !.list = Front(f.list)]
<1>1. g = Fields(Front(r), l, m, c, t)
  BY FieldsAre DEF Fields
<1>2. h = Fields(Front(r), Front(l), m, c, t)
  <2>1. f.list = l
    BY FieldsAre
  <2> HIDE DEF g, f
  <2> QED BY <1>1, <2>1 DEF Fields
<1>3. [h EXCEPT !.slot[id] = 0] = Fields(Front(r), Front(l), m, c, [t EXCEPT ![id] = 0])
  <2> HIDE DEF h
  <2> QED BY <1>2 DEF Fields
<1>4. Cut(f, id) = [h EXCEPT !.slot[id] = 0]
  <2> HIDE DEF f
  <2> QED BY DEF Cut
<1> QED BY <1>3, <1>4

\* The rows that a removal leaves are a batch.
LEMMA FilledBatch ==
    ASSUME NEW R, IsBatch(R), NEW hole \in 1..Len(R)
    PROVE  /\ IsBatch(Filled(R, hole)) /\ Len(Filled(R, hole)) = Len(R) - 1
           /\ hole = Len(R) => Front(R) = Filled(R, hole)
           /\ hole # Len(R) => Front([R EXCEPT ![hole] = R[Len(R)]]) = Filled(R, hole)
<1> DEFINE V == [id : Ids, at : Nat]
<1> DEFINE n == Len(R)
<1>1. R \in Seq(V) /\ n \in Nat \ {0} /\ DOMAIN R = 1..n
  BY RowFacts DEF IsBatch
<1> HIDE DEF V
<1>2. /\ Filled(R, hole) \in Seq(V) /\ Len(Filled(R, hole)) = n - 1
      /\ DOMAIN Filled(R, hole) = 1..(n - 1)
      /\ hole = Len(R) => Front(R) = Filled(R, hole)
      /\ hole # Len(R) => Front([R EXCEPT ![hole] = R[Len(R)]]) = Filled(R, hole)
  BY <1>1, FilledFacts
<1>3. \A s \in 1..(n - 1) : Filled(R, hole)[s] = IF s = hole THEN R[n] ELSE R[s]
  BY DEF Filled
<1>4. \A s \in 1..(n - 1) : Filled(R, hole)[s].at \in PlacesOf[Filled(R, hole)[s].id]
  BY <1>1, <1>3, RowFacts
<1>5. \A s, t \in 1..(n - 1) : Filled(R, hole)[s].id = Filled(R, hole)[t].id => s = t
  <2>1. \A s \in 1..(n - 1) : s \in 1..n /\ s # n
    <3>1. n \in Nat
      BY <1>1
    <3> HIDE DEF n
    <3> QED BY <3>1
  <2>2. n \in 1..n
    BY <1>1
  <2>3. \A s, t \in 1..n : R[s].id = R[t].id => s = t
    BY RowFacts
  <2> HIDE DEF n
  <2> QED BY <1>3, <2>1, <2>2, <2>3
<1> QED BY <1>2, <1>4, <1>5 DEF IsBatch, V

\* The lists of the rows that are left are the old ones, moved alike.
LEMMA FilledAssigned ==
    ASSUME NEW R, IsBatch(R), NEW hole \in 1..Len(R), NEW C \in Seq(Nat), C # <<>>
    PROVE  Assigned(Filled(R, hole), C) = Filled(Assigned(R, C), hole)
<1>1. /\ Assigned(R, C) = [s \in 1..Len(R) |-> Closest(R[s].at, C)]
      /\ Len(Assigned(R, C)) = Len(R) /\ Len(R) \in Nat \ {0}
  BY AssignedFacts, RowFacts DEF Assigned
<1>2. DOMAIN Filled(R, hole) = 1..(Len(R) - 1)
  BY DEF Filled
<1>3. \A s \in 1..(Len(R) - 1) : Filled(R, hole)[s] = IF s = hole THEN R[Len(R)] ELSE R[s]
  BY DEF Filled
<1>4. \A s \in 1..(Len(R) - 1) :
          Closest(Filled(R, hole)[s].at, C)
              = IF s = hole THEN Assigned(R, C)[Len(R)] ELSE Assigned(R, C)[s]
  BY <1>1, <1>3
<1> QED BY <1>1, <1>2, <1>4 DEF Assigned, Filled

\* The rows that are left are where the ids lead after the removal.
LEMMA FilledSlot ==
    ASSUME NEW R, IsBatch(R), NEW hole \in 1..Len(R), NEW id, id = R[hole].id
    PROVE  /\ hole = Len(R) => [SlotOf(R) EXCEPT ![id] = 0] = SlotOf(Filled(R, hole))
           /\ hole # Len(R) =>
                  [[SlotOf(R) EXCEPT ![R[Len(R)].id] = hole] EXCEPT ![id] = 0]
                      = SlotOf(Filled(R, hole))
<1> DEFINE n == Len(R)
<1> DEFINE F == Filled(R, hole)
<1> DEFINE f == [i \in Ids |-> IF i = id THEN 0 ELSE IF i = R[n].id THEN hole ELSE SlotOf(R)[i]]
<1>1. /\ n \in Nat \ {0} /\ IsBatch(F) /\ Len(F) = n - 1
      /\ \A s \in 1..n : R[s].id \in Ids
      /\ \A s, t \in 1..n : R[s].id = R[t].id => s = t
  <2>1. n \in Nat \ {0} /\ \A s, t \in 1..n : R[s].id = R[t].id => s = t
    BY RowFacts
  <2>2. \A s \in 1..n : R[s].id \in Ids
    BY RowFacts
  <2> QED BY <2>1, <2>2, FilledBatch
<1>2. \A s \in 1..(n - 1) : F[s] = IF s = hole THEN R[n] ELSE R[s]
  BY DEF Filled
<1>3. ASSUME NEW i \in Ids
      PROVE  IsSlot(f[i], F, i)
  <2>1. f[i] = IF i = id THEN 0 ELSE IF i = R[n].id THEN hole ELSE SlotOf(R)[i]
    OBVIOUS
  <2>2. n \in 1..n /\ \A s : s \in 1..(n - 1) <=> s \in 1..n /\ s # n
    BY <1>1
  <2>3. IsSlot(SlotOf(R)[i], R, i)
    BY SlotFacts
  <2>4. CASE i = id
    <3>1. \A s \in 1..(n - 1) : F[s].id # i
      <4> HIDE DEF n, F
      <4> QED BY <1>1, <1>2, <2>2, <2>4 DEF n
    <3> HIDE DEF F, f, n
    <3> QED BY <1>1, <2>1, <2>4, <3>1 DEF IsSlot
  <2>5. CASE i # id /\ i = R[n].id
    <3>1. hole # n
      BY <2>5
    <3>2. hole \in 1..(n - 1)
      BY <2>2, <3>1
    <3>3. F[hole] = R[n]
      <4> HIDE DEF F
      <4> QED BY <1>2, <3>2
    <3> HIDE DEF F, f, n
    <3> QED BY <1>1, <2>1, <2>5, <3>2, <3>3 DEF IsSlot
  <2>6. CASE i # id /\ i # R[n].id
    <3> DEFINE t == SlotOf(R)[i]
    <3>1. CASE t \in 1..n /\ R[t].id = i
      <4>1. t # n /\ t # hole
        BY <2>6, <3>1
      <4>2. t \in 1..(n - 1) /\ F[t] = R[t]
        <5> HIDE DEF F, t
        <5> QED BY <1>2, <2>2, <3>1, <4>1
      <4> HIDE DEF F, f, n
      <4> QED BY <1>1, <2>1, <2>6, <3>1, <4>2 DEF IsSlot
    <3>2. CASE t = 0 /\ \A s \in 1..n : R[s].id # i
      <4>1. \A s \in 1..(n - 1) : F[s].id # i
        <5> HIDE DEF F
        <5> QED BY <1>2, <2>2, <3>2
      <4> HIDE DEF F, f, n
      <4> QED BY <1>1, <2>1, <2>6, <3>2, <4>1 DEF IsSlot
    <3> HIDE DEF F, f
    <3> QED BY <2>3, <3>1, <3>2 DEF IsSlot
  <2> QED BY <2>4, <2>5, <2>6
<1>4. f = SlotOf(F)
  <2>1. f = [i \in Ids |-> f[i]]
    OBVIOUS
  <2> HIDE DEF f, F
  <2> QED BY <1>1, <1>3, <2>1, SlotIs
<1>5. SlotOf(R) = [i \in Ids |-> SlotOf(R)[i]]
  BY SlotFacts
<1>6. ASSUME hole = n
      PROVE  [SlotOf(R) EXCEPT ![id] = 0] = f
  <2>1. id = R[n].id
    BY <1>6
  <2> QED BY <1>5, <2>1
<1>7. ASSUME hole # n
      PROVE  [[SlotOf(R) EXCEPT ![R[n].id] = hole] EXCEPT ![id] = 0] = f
  <2>1. id \in Ids /\ R[n].id \in Ids
    BY <1>1
  <2> HIDE DEF n
  <2> QED BY <1>5, <2>1
<1> HIDE DEF f, F
<1> QED BY <1>4, <1>6, <1>7 DEF F

\* A removal leaves an index of the rows that are left, whether or not it trains anew.
LEMMA RemovedIndex ==
    ASSUME NEW s, NEW R, IsIndexOf(s, R), NEW id \in Ids, SlotOf(R)[id] # 0
    PROVE  IsIndexOf(Removed(s, id), Filled(R, SlotOf(R)[id]))
<1> DEFINE hole == SlotOf(R)[id]
<1>1. PICK C : s = IndexOf(R, C) /\ Fit(R, C)
  BY DEF IsIndexOf
<1> DEFINE L == Assigned(R, C)
<1> DEFINE T == SlotOf(R)
<1> DEFINE M == MembersOf(L, Len(C))
<1> DEFINE M1 == [M EXCEPT ![L[hole]] = @ \ {hole}]
<1> DEFINE s1 == Unlisted(s, s.list[hole], hole)
<1> DEFINE filled == FillHole(s1, hole)
<1> DEFINE left == Cut(filled, id)
<1> DEFINE F == Filled(R, hole)
<1> SUFFICES IsIndexOf(Removed(s, id), F)
  OBVIOUS
<1>2. IsBatch(R) /\ C \in Seq(Nat) /\ Len(R) \in Nat
  BY <1>1, FitFacts DEF Fit
<1>3. hole \in 1..Len(R) /\ R[hole].id = id
  BY <1>2, SlotFacts DEF IsSlot
<1>4. R # <<>> /\ C # <<>> /\ Len(C) \in Nat
  BY <1>1, <1>2, <1>3, FitFacts
<1>5. s = Fields(R, L, M, C, T) /\ s.list = L /\ s.slot = T
  BY <1>1, FieldsAre DEF IndexOf
<1>6. s1 = Fields(R, L, M1, C, T)
  <2> HIDE DEF L, M, T, hole
  <2> QED BY <1>5, UnlistedFields
<1>7. L \in Seq(1..Len(C)) /\ Len(L) = Len(R)
  BY <1>2, <1>4, AssignedFacts
<1>8. left = Fields(F, Filled(L, hole), MembersOf(Filled(L, hole), Len(C)), C, SlotOf(F))
  <2>1. /\ hole = Len(R) => M1 = MembersOf(Filled(L, hole), Len(C))
        /\ hole # Len(R) => [M1 EXCEPT ![L[Len(R)]] = (@ \ {Len(R)}) \union {hole}]
                                = MembersOf(Filled(L, hole), Len(C))
    <3> HIDE DEF L, hole
    <3>1. hole \in 1..Len(L) /\ L \in Seq(1..Len(C)) /\ Len(C) \in Nat
      BY <1>3, <1>4, <1>7
    <3>2. /\ hole = Len(L) => M1 = MembersOf(Filled(L, hole), Len(C))
          /\ hole # Len(L) => [M1 EXCEPT ![L[Len(L)]] = (@ \ {Len(L)}) \union {hole}]
                                  = MembersOf(Filled(L, hole), Len(C))
      BY <3>1, FilledMembers
    <3> QED BY <1>7, <3>2
  <2>2. /\ hole = Len(R) => Front(L) = Filled(L, hole)
        /\ hole # Len(R) => Front([L EXCEPT ![hole] = L[Len(R)]]) = Filled(L, hole)
    <3> DEFINE V == 1..Len(C)
    <3> HIDE DEF L, hole, V
    <3>1. L \in Seq(V)
      BY <1>7 DEF V
    <3> QED BY <1>3, <1>7, <3>1, FilledFacts
  <2>3. /\ hole = Len(R) => Front(R) = F
        /\ hole # Len(R) => Front([R EXCEPT ![hole] = R[Len(R)]]) = F
    <3> HIDE DEF hole
    <3> QED BY <1>2, <1>3, FilledBatch
  <2>4. /\ hole = Len(R) => [T EXCEPT ![id] = 0] = SlotOf(F)
        /\ hole # Len(R) => [[T EXCEPT ![R[Len(R)].id] = hole] EXCEPT ![id] = 0] = SlotOf(F)
    <3> HIDE DEF hole
    <3> QED BY <1>2, <1>3, FilledSlot
  <2>5. CASE hole = Len(R)
    <3>1. filled = Fields(R, L, M1, C, T)
      <4> HIDE DEF L, M1, T, s1, hole
      <4>1. filled = FillHole(Fields(R, L, M1, C, T), hole)
        BY <1>6
      <4>2. FillHole(Fields(R, L, M1, C, T), Len(R)) = Fields(R, L, M1, C, T)
        BY NothingToFill
      <4> QED BY <2>5, <4>1, <4>2
    <3>2. left = Fields(Front(R), Front(L), M1, C, [T EXCEPT ![id] = 0])
      <4> HIDE DEF L, M1, T, filled
      <4> QED BY <3>1, CutFields
    <3> HIDE DEF L, M1, T, left, hole, F
    <3> QED BY <2>1, <2>2, <2>3, <2>4, <2>5, <3>2
  <2>6. CASE hole # Len(R)
    <3> DEFINE r == [R EXCEPT ![hole] = R[Len(R)]]
    <3> DEFINE l == [L EXCEPT ![hole] = L[Len(R)]]
    <3> DEFINE m == [M1 EXCEPT ![L[Len(R)]] = (@ \ {Len(R)}) \union {hole}]
    <3> DEFINE t == [T EXCEPT ![R[Len(R)].id] = hole]
    <3>1. filled = Fields(r, l, m, C, t)
      <4> HIDE DEF L, M1, T, s1, hole
      <4> QED BY <1>6, <2>6, FillHoleFields
    <3>2. left = Fields(Front(r), Front(l), m, C, [t EXCEPT ![id] = 0])
      <4> HIDE DEF r, l, m, t, filled
      <4> QED BY <3>1, CutFields
    <3>3. /\ m = MembersOf(Filled(L, hole), Len(C)) /\ Front(l) = Filled(L, hole)
          /\ Front(r) = F /\ [t EXCEPT ![id] = 0] = SlotOf(F)
      <4> HIDE DEF L, M1, T, hole, F
      <4> QED BY <2>1, <2>2, <2>3, <2>4, <2>6
    <3> HIDE DEF L, left, hole, F, r, l, m, t
    <3> QED BY <3>2, <3>3
  <2> QED BY <2>5, <2>6
<1>9. left = IndexOf(F, C) /\ left.rows = F /\ left.centroids = C
  <2>1. Assigned(F, C) = Filled(L, hole)
    <3> HIDE DEF hole
    <3> QED BY <1>2, <1>3, <1>4, FilledAssigned
  <2> HIDE DEF F, left, hole, L
  <2> QED BY <1>8, <2>1, FieldsAre DEF IndexOf
<1>10. Removed(s, id) = IF F = <<>> THEN EmptyIvf
                        ELSE IF Len(C) > Len(F) THEN Rebuild(F, Len(F)) ELSE IndexOf(F, C)
  <2>1. Removed(s, id) = IF left.rows = <<>> THEN EmptyIvf
            ELSE IF Len(left.centroids) > Len(left.rows) THEN Rebuild(left.rows, Len(left.rows))
            ELSE left
    BY <1>5 DEF Removed, Unlisted, Cut
  <2> HIDE DEF left, F
  <2> QED BY <1>9, <2>1
<1>11. IsBatch(F) /\ Len(F) \in Nat /\ (F = <<>> <=> Len(F) = 0)
  <2>1. IsBatch(F)
    <3> HIDE DEF hole
    <3> QED BY <1>2, <1>3, FilledBatch
  <2> HIDE DEF F
  <2> QED BY <2>1, RowFacts
<1> HIDE DEF F
<1>12. CASE F = <<>>
  BY <1>10, <1>12, EmptyIndex
<1>13. CASE F # <<>> /\ Len(C) > Len(F)
  <2>1. Len(F) \in Nat \ {0} /\ Len(F) <= RequestedLists
    BY <1>1, <1>4, <1>11, <1>13, FitFacts
  <2> QED BY <1>10, <1>11, <1>13, <2>1, RebuiltIndex
<1>14. CASE F # <<>> /\ ~(Len(C) > Len(F))
  <2>1. Len(C) <= Len(F) /\ Len(C) <= RequestedLists
    BY <1>1, <1>4, <1>11, <1>14, FitFacts
  <2>2. Fit(F, C)
    BY <1>2, <1>4, <1>11, <2>1 DEF Fit, Smaller
  <2>3. Removed(s, id) = IndexOf(F, C)
    BY <1>10, <1>14
  <2> QED BY <2>2, <2>3 DEF IsIndexOf
<1> QED BY <1>12, <1>13, <1>14

-----------------------------------------------------------------------------
(* Insertion of an id that is not there. *)

\* A batch stays one when the row of a new id is appended.
LEMMA LongerBatch ==
    ASSUME NEW R, IsBatch(R), NEW id \in Ids, NEW at \in PlacesOf[id], SlotOf(R)[id] = 0
    PROVE  /\ IsBatch(Append(R, Row(id, at)))
           /\ Len(Append(R, Row(id, at))) = Len(R) + 1
           /\ SlotOf(Append(R, Row(id, at))) = [SlotOf(R) EXCEPT ![id] = Len(R) + 1]
<1> DEFINE V == [id : Ids, at : Nat]
<1> DEFINE n == Len(R)
<1> DEFINE row == Row(id, at)
<1> DEFINE A == Append(R, row)
<1>1. /\ R \in Seq(V) /\ n \in Nat
      /\ \A s \in 1..n : R[s].at \in PlacesOf[R[s].id]
      /\ \A s, t \in 1..n : R[s].id = R[t].id => s = t
  BY RowFacts DEF IsBatch
<1>2. row \in V /\ row.id = id /\ row.at = at
  BY GpuIvfAssumption DEF Row
<1>3. \A s \in 1..n : R[s].id # id
  BY SlotFacts DEF IsSlot
<1> HIDE DEF V, row
<1>4. /\ A \in Seq(V) /\ Len(A) = n + 1 /\ DOMAIN A = 1..(n + 1) /\ A[n + 1] = row
      /\ \A s \in 1..n : A[s] = R[s]
  BY <1>1, <1>2
<1>5. \A s : s \in 1..(n + 1) <=> s \in 1..n \/ s = n + 1
  BY <1>1
<1> HIDE DEF A, n
<1>6. IsBatch(A)
  <2>1. \A s \in 1..(n + 1) : A[s].at \in PlacesOf[A[s].id]
    BY <1>1, <1>2, <1>4, <1>5
  <2>2. \A s, t \in 1..(n + 1) : A[s].id = A[t].id => s = t
    BY <1>1, <1>2, <1>3, <1>4, <1>5
  <2> QED BY <1>4, <2>1, <2>2 DEF IsBatch, V
<1> DEFINE f == [SlotOf(R) EXCEPT ![id] = n + 1]
<1>7. f = SlotOf(A)
  <2>1. SlotOf(R) = [i \in Ids |-> SlotOf(R)[i]]
    BY SlotFacts
  <2>2. f = [i \in Ids |-> f[i]] /\ \A i \in Ids : f[i] = IF i = id THEN n + 1 ELSE SlotOf(R)[i]
    BY <2>1
  <2>3. ASSUME NEW i \in Ids
        PROVE  IsSlot(f[i], A, i)
    <3> HIDE DEF f
    <3>1. IsSlot(SlotOf(R)[i], R, i)
      BY SlotFacts
    <3>2. CASE i = id
      BY <1>2, <1>4, <1>5, <2>2, <3>2 DEF IsSlot
    <3>3. CASE i # id
      <4>1. f[i] = SlotOf(R)[i]
        BY <2>2, <3>3
      <4>2. CASE SlotOf(R)[i] \in 1..n /\ R[SlotOf(R)[i]].id = i
        BY <1>4, <1>5, <4>1, <4>2 DEF IsSlot
      <4>3. CASE SlotOf(R)[i] = 0 /\ \A s \in 1..n : R[s].id # i
        <5>1. \A s \in 1..(n + 1) : A[s].id # i
          BY <1>2, <1>4, <1>5, <3>3, <4>3
        <5> QED BY <1>4, <4>1, <4>3, <5>1 DEF IsSlot
      <4> QED BY <3>1, <4>2, <4>3 DEF IsSlot, n
    <3> QED BY <3>2, <3>3
  <2> HIDE DEF f
  <2> QED BY <1>6, <2>2, <2>3, SlotIs
<1> QED BY <1>4, <1>6, <1>7 DEF A, row, n

\* One more row is one more member of its list.
LEMMA LongerList ==
    ASSUME NEW k \in Nat, NEW L \in Seq(1..k), NEW l \in 1..k
    PROVE  MembersOf(Append(L, l), k) = [MembersOf(L, k) EXCEPT ![l] = @ \union {Len(L) + 1}]
<1> DEFINE In(m) == {s \in 1..Len(L) : L[s] = m}
<1> DEFINE A == Append(L, l)
<1> DEFINE Now(m) == {s \in 1..(Len(L) + 1) : A[s] = m}
<1>1. /\ Len(L) \in Nat /\ DOMAIN L = 1..Len(L) /\ DOMAIN A = 1..(Len(L) + 1)
      /\ A[Len(L) + 1] = l /\ \A s \in 1..Len(L) : A[s] = L[s]
  OBVIOUS
<1>2. \A s : s \in 1..(Len(L) + 1) <=> s \in 1..Len(L) \/ s = Len(L) + 1
  BY <1>1
<1>3. Len(L) + 1 \notin 1..Len(L)
  BY <1>1
<1> HIDE DEF A
<1>4. ASSUME NEW m \in 1..k
      PROVE  Now(m) = IF m = l THEN In(m) \union {Len(L) + 1} ELSE In(m)
  <2>1. \A s : s \in Now(m) <=> s \in In(m) \/ (s = Len(L) + 1 /\ m = l)
    BY <1>1, <1>2, <1>3
  <2> HIDE DEF Now, In
  <2> QED BY <2>1
<1>5. MembersOf(L, k) = [m \in 1..k |-> In(m)] /\ MembersOf(A, k) = [m \in 1..k |-> Now(m)]
  BY <1>1 DEF MembersOf
<1> HIDE DEF In, Now
<1> QED BY <1>4, <1>5 DEF A

\* A sequence with one more element, as a function.
LEMMA AppendIs ==
    ASSUME NEW V, NEW L \in Seq(V), NEW x \in V
    PROVE  Append(L, x) = [s \in 1..(Len(L) + 1) |-> IF s = Len(L) + 1 THEN x ELSE L[s]]
<1> DEFINE A == Append(L, x)
<1>1. /\ A \in Seq(V) /\ Len(A) = Len(L) + 1 /\ Len(L) \in Nat
      /\ A[Len(L) + 1] = x /\ \A s \in 1..Len(L) : A[s] = L[s]
  OBVIOUS
<1> HIDE DEF A
<1>2. A = [s \in 1..(Len(L) + 1) |-> A[s]]
  BY <1>1
<1>3. \A s \in 1..(Len(L) + 1) : A[s] = IF s = Len(L) + 1 THEN x ELSE L[s]
  BY <1>1
<1> QED BY <1>2, <1>3 DEF A

\* One more row leaves the lists of the others as they were.
LEMMA LongerAssigned ==
    ASSUME NEW R, IsBatch(R), NEW row, IsBatch(Append(R, row)), NEW C \in Seq(Nat), C # <<>>
    PROVE  Assigned(Append(R, row), C) = Append(Assigned(R, C), Closest(row.at, C))
<1> DEFINE n == Len(R)
<1> DEFINE A == Append(R, row)
<1> DEFINE L == Assigned(R, C)
<1> DEFINE x == Closest(row.at, C)
<1>1. n \in Nat /\ DOMAIN R = 1..n /\ DOMAIN A = 1..(n + 1) /\ A[n + 1] = row
      /\ \A s \in 1..n : A[s] = R[s]
  BY RowFacts DEF IsBatch
<1>2. Assigned(A, C) = [s \in 1..(n + 1) |-> Closest(A[s].at, C)]
  BY <1>1 DEF Assigned
<1>3. L \in Seq(1..Len(C)) /\ Len(L) = n /\ \A s \in 1..n : L[s] = Closest(R[s].at, C)
  BY AssignedFacts
<1>4. Append(L, x) = [s \in 1..(n + 1) |-> IF s = n + 1 THEN x ELSE L[s]]
  <2>1. row.at \in Nat
    <3>1. A[n + 1].at \in Nat
      <4>1. n + 1 \in 1..Len(A)
        BY <1>1
      <4> HIDE DEF A, n
      <4> QED BY <4>1, RowFacts DEF A
    <3> QED BY <1>1, <3>1
  <2>2. x \in 1..Len(C)
    BY <2>1, ClosestFacts
  <2> DEFINE V == 1..Len(C)
  <2> HIDE DEF L, x, V
  <2>3. L \in Seq(V) /\ x \in V
    BY <1>3, <2>2 DEF V
  <2> QED BY <1>3, <2>3, AppendIs
<1>5. \A s \in 1..(n + 1) : Closest(A[s].at, C) = IF s = n + 1 THEN x ELSE L[s]
  <2>1. \A s \in 1..(n + 1) : s \in 1..n \/ s = n + 1
    BY <1>1
  <2> HIDE DEF A, L, n
  <2> QED BY <1>1, <1>3, <2>1
<1> HIDE DEF A, L, x, n
<1> QED BY <1>2, <1>4, <1>5 DEF A, L, x

Joined(s, l, n) == [s EXCEPT !.members[l] = @ \union {n}]
Extended(s, rows, id, l) ==
    [s EXCEPT !.rows = rows, !.slot[id] = Len(rows), !.list = Append(@, l),
              !.members[l] = @ \union {Len(rows)}]

\* The row enters its list.
LEMMA JoinedFields ==
    ASSUME NEW r, NEW l, NEW m, NEW c, NEW t, NEW x, NEW n
    PROVE  Joined(Fields(r, l, m, c, t), x, n) = Fields(r, l, [m EXCEPT ![x] = @ \union {n}], c, t)
BY DEF Joined, Fields

OneMoreIn(m, l, n) == [m EXCEPT ![l] = @ \union {n}]
SlotAt(t, id, n) == [t EXCEPT ![id] = n]

\* An insertion, field by field.
LEMMA ExtendedFields ==
    ASSUME NEW r, NEW l, NEW m, NEW c, NEW t, NEW rows, NEW id, NEW x
    PROVE  Extended(Fields(r, l, m, c, t), rows, id, x)
               = Fields(rows, Append(l, x), OneMoreIn(m, x, Len(rows)), c,
                        SlotAt(t, id, Len(rows)))
<1> DEFINE f == Fields(r, l, m, c, t)
<1> DEFINE g == [f EXCEPT !.rows = rows]
<1> DEFINE h == [g EXCEPT !.slot[id] = Len(rows)]
<1> DEFINE i == [h EXCEPT !.list = Append(@, x)]
<1> DEFINE n == Len(rows)
<1> DEFINE j == Joined(i, x, n)
<1>1. g = Fields(rows, l, m, c, t)
  BY DEF Fields
<1>2. h = Fields(rows, l, m, c, [t EXCEPT ![id] = Len(rows)])
  <2> HIDE DEF g
  <2> QED BY <1>1 DEF Fields
<1>3. i = Fields(rows, Append(l, x), m, c, [t EXCEPT ![id] = Len(rows)])
  <2> HIDE DEF h
  <2>1. h.list = l
    BY <1>2, FieldsAre
  <2>2. i = [h EXCEPT !.list = Append(l, x)]
    BY <2>1
  <2> HIDE DEF i
  <2> QED BY <1>2, <2>2 DEF Fields
<1>4. j = Fields(rows, Append(l, x), [m EXCEPT ![x] = @ \union {Len(rows)}], c,
                 [t EXCEPT ![id] = Len(rows)])
  <2> HIDE DEF i
  <2> QED BY <1>3, JoinedFields
<1>5. Extended(f, rows, id, x) = j
  <2> HIDE DEF f
  <2> QED BY DEF Extended, Joined
<1> QED BY <1>4, <1>5 DEF OneMoreIn, SlotAt

\* An insertion makes an index of the rows and the new one, whether or not it trains anew.
LEMMA InsertedIndex ==
    ASSUME NEW s, NEW R, IsIndexOf(s, R), NEW id \in Ids, NEW at \in PlacesOf[id],
           SlotOf(R)[id] = 0
    PROVE  IsIndexOf(Inserted(s, id, at), Append(R, Row(id, at)))
<1> DEFINE row == Row(id, at)
<1> DEFINE A == Append(R, row)
<1>1. PICK C : s = IndexOf(R, C) /\ Fit(R, C)
  BY DEF IsIndexOf
<1> DEFINE L == Assigned(R, C)
<1> DEFINE M == MembersOf(L, Len(C))
<1> DEFINE l == Closest(at, C)
<1>2. s = Fields(R, L, M, C, SlotOf(R)) /\ s.rows = R /\ s.slot = SlotOf(R) /\ s.centroids = C
  BY <1>1, FieldsAre DEF IndexOf
<1>3. Removed(s, id) = s
  BY <1>2 DEF Removed
<1>4. row.at = at /\ at \in Nat /\ RequestedLists \in Nat \ {0}
  BY GpuIvfAssumption DEF Row
<1>5. /\ IsBatch(R) /\ C \in Seq(Nat) /\ Len(R) \in Nat
      /\ IsBatch(A) /\ Len(A) = Len(R) + 1 /\ A # <<>>
      /\ SlotOf(A) = [SlotOf(R) EXCEPT ![id] = Len(R) + 1]
  <2>1. IsBatch(R) /\ C \in Seq(Nat) /\ Len(R) \in Nat
    BY <1>1, FitFacts DEF Fit
  <2>2. IsBatch(A) /\ Len(A) = Len(R) + 1
    BY <2>1, LongerBatch
  <2>3. SlotOf(A) = [SlotOf(R) EXCEPT ![id] = Len(R) + 1]
    BY <2>1, LongerBatch
  <2>4. A # <<>>
    <3> HIDE DEF A
    <3> QED BY <2>1, <2>2, RowFacts
  <2> QED BY <2>1, <2>2, <2>3, <2>4
<1>6. Inserted(s, id, at) = IF R = <<>> THEN Rebuild(A, RequestedLists)
                            ELSE Retrained(Extended(s, A, id, l))
  <2> DEFINE t == Removed(s, id)
  <2>1. Inserted(s, id, at) =
            IF t.rows = <<>> THEN Rebuild(Append(t.rows, row), RequestedLists)
            ELSE Retrained(Extended(t, Append(t.rows, row), id, Closest(at, t.centroids)))
    BY DEF Inserted, Extended
  <2> HIDE DEF t, row
  <2> QED BY <1>2, <1>3, <2>1 DEF t
<1> HIDE DEF row, A
<1> SUFFICES IsIndexOf(Inserted(s, id, at), A)
  BY DEF A, row
<1>7. IsIndexOf(Rebuild(A, RequestedLists), A)
  BY <1>4, <1>5, RebuiltIndex
<1>8. CASE R = <<>>
  BY <1>6, <1>7, <1>8
<1>9. CASE R # <<>>
  <2>1. C # <<>> /\ Len(C) \in Nat
    BY <1>1, <1>9, FitFacts
  <2>2. L \in Seq(1..Len(C)) /\ Len(L) = Len(R) /\ l \in 1..Len(C)
    BY <1>4, <1>5, <2>1, AssignedFacts, ClosestFacts
  <2>3. Assigned(A, C) = Append(L, l)
    BY <1>4, <1>5, <2>1, LongerAssigned DEF A
  <2>4. MembersOf(Append(L, l), Len(C)) = [M EXCEPT ![l] = @ \union {Len(A)}]
    <3> HIDE DEF L, l
    <3> QED BY <1>5, <2>1, <2>2, LongerList
  <2>5. Extended(s, A, id, l)
            = Fields(A, Append(L, l), [M EXCEPT ![l] = @ \union {Len(A)}], C,
                     [SlotOf(R) EXCEPT ![id] = Len(A)])
    <3> HIDE DEF L, l, M
    <3>1. Extended(s, A, id, l) = Extended(Fields(R, L, M, C, SlotOf(R)), A, id, l)
      BY <1>2
    <3>2. Extended(s, A, id, l)
              = Fields(A, Append(L, l), OneMoreIn(M, l, Len(A)), C, SlotAt(SlotOf(R), id, Len(A)))
      BY <3>1, ExtendedFields
    <3> QED BY <3>2 DEF OneMoreIn, SlotAt
  <2>6. Extended(s, A, id, l) = IndexOf(A, C)
    <3> HIDE DEF L, l, M
    <3> QED BY <1>5, <2>3, <2>4, <2>5 DEF IndexOf
  <2>7. Len(C) <= Len(R) /\ Len(C) <= RequestedLists
    BY <1>1, FitFacts
  <2>8. Fit(A, C)
    BY <1>5, <2>1, <2>7 DEF Fit, Smaller
  <2>9. IndexOf(A, C).rows = A
    BY FieldsAre DEF IndexOf
  <2>10. Retrained(IndexOf(A, C)) = IF Outgrown(IndexOf(A, C))
                                    THEN Rebuild(A, RequestedLists) ELSE IndexOf(A, C)
    BY <2>9 DEF Retrained
  <2>11. IsIndexOf(IndexOf(A, C), A)
    BY <2>8 DEF IsIndexOf
  <2>12. IsIndexOf(Retrained(IndexOf(A, C)), A)
    BY <1>7, <2>10, <2>11
  <2> QED BY <1>6, <1>9, <2>6, <2>12
<1> QED BY <1>8, <1>9

-----------------------------------------------------------------------------
(* The memory holds what the rows say. *)

Holding(c, R) ==
    /\ c = [id \in Ids |-> c[id]]
    /\ \A id \in Ids : c[id] = NoPlace <=> SlotOf(R)[id] = 0
    /\ \A s \in 1..Len(R) : c[R[s].id] = R[s].at

\* The memory holds the rows it was loaded with.
LEMMA ContentHolds ==
    ASSUME NEW R, IsBatch(R)
    PROVE  Holding(ContentOf(R), R)
<1> DEFINE T == SlotOf(R)
<1>1. ContentOf(R) = [id \in Ids |-> IF T[id] = 0 THEN NoPlace ELSE R[T[id]].at]
  BY DEF ContentOf
<1>2. ASSUME NEW id \in Ids
      PROVE  ContentOf(R)[id] = NoPlace <=> T[id] = 0
  <2>1. CASE T[id] = 0
    BY <1>1, <2>1
  <2>2. CASE T[id] # 0
    <3>1. T[id] \in 1..Len(R)
      BY <2>2, SlotFacts DEF IsSlot
    <3>2. R[T[id]].at # NoPlace
      <4> HIDE DEF T
      <4> QED BY <3>1, RowFacts
    <3> HIDE DEF T
    <3> QED BY <1>1, <2>2, <3>2
  <2> QED BY <2>1, <2>2
<1>3. ASSUME NEW s \in 1..Len(R)
      PROVE  ContentOf(R)[R[s].id] = R[s].at
  <2>1. T[R[s].id] = s /\ R[s].id \in Ids /\ s # 0
    BY SlotFacts, RowFacts
  <2> HIDE DEF T
  <2> QED BY <1>1, <2>1
<1> QED BY <1>1, <1>2, <1>3 DEF Holding

\* The memory without an id holds the rows that are left on the device.
LEMMA RemovedContent ==
    ASSUME NEW R, IsBatch(R), NEW c, Holding(c, R), NEW id \in Ids, SlotOf(R)[id] # 0
    PROVE  Holding([c EXCEPT ![id] = NoPlace], Filled(R, SlotOf(R)[id]))
<1> DEFINE hole == SlotOf(R)[id]
<1> DEFINE F == Filled(R, hole)
<1> DEFINE n == Len(R)
<1> DEFINE d == [c EXCEPT ![id] = NoPlace]
<1>1. hole \in 1..n /\ R[hole].id = id
  BY SlotFacts DEF IsSlot
<1>2. IsBatch(F) /\ Len(F) = n - 1 /\ n \in Nat
  <2> HIDE DEF hole
  <2> QED BY <1>1, FilledBatch, RowFacts
<1>3. \A s \in 1..(n - 1) : F[s] = IF s = hole THEN R[n] ELSE R[s]
  BY DEF Filled
<1>4. \A s : s \in 1..(n - 1) <=> s \in 1..n /\ s # n
  BY <1>2
<1>5. n \in 1..n /\ \A s, t \in 1..n : R[s].id = R[t].id => s = t
  BY <1>1, <1>2, RowFacts
<1>6. d = [i \in Ids |-> d[i]] /\ \A i \in Ids : d[i] = IF i = id THEN NoPlace ELSE c[i]
  BY DEF Holding
<1> HIDE DEF hole, F, d
<1>7. \A s \in 1..(n - 1) : F[s].id # id /\ F[s].id \in Ids
  <2>1. \A s \in 1..(n - 1) : F[s].id # id
    BY <1>1, <1>3, <1>4, <1>5
  <2> QED BY <1>2, <2>1, RowFacts
<1>8. ASSUME NEW s \in 1..(n - 1)
      PROVE  d[F[s].id] = F[s].at
  <2>1. \E t \in 1..n : F[s] = R[t]
    BY <1>3, <1>4, <1>5
  <2>2. c[F[s].id] = F[s].at
    BY <2>1 DEF Holding
  <2> QED BY <1>6, <1>7, <2>2
<1>9. ASSUME NEW i \in Ids
      PROVE  d[i] = NoPlace <=> SlotOf(F)[i] = 0
  <2>1. IsSlot(SlotOf(F)[i], F, i) /\ IsSlot(SlotOf(R)[i], R, i)
    BY <1>2, SlotFacts
  <2>2. 0 \notin 1..(n - 1) /\ 0 \notin 1..n
    BY <1>2
  <2>3. CASE i = id
    BY <1>2, <1>6, <1>7, <2>1, <2>2, <2>3 DEF IsSlot
  <2>4. CASE i # id
    <3>1. (\E s \in 1..(n - 1) : F[s].id = i) <=> (\E s \in 1..n : R[s].id = i)
      <4>1. ASSUME NEW s \in 1..(n - 1), F[s].id = i
            PROVE  \E t \in 1..n : R[t].id = i
        BY <1>3, <1>4, <1>5, <4>1
      <4>2. ASSUME NEW s \in 1..n, R[s].id = i
            PROVE  \E t \in 1..(n - 1) : F[t].id = i
        <5>1. CASE s = n
          <6>1. hole # n
            BY <1>1, <2>4, <4>2, <5>1
          <6> QED BY <1>1, <1>3, <1>4, <4>2, <5>1, <6>1
        <5>2. CASE s # n
          <6>1. s # hole
            BY <1>1, <2>4, <4>2
          <6> QED BY <1>3, <1>4, <4>2, <5>2, <6>1
        <5> QED BY <5>1, <5>2
      <4> QED BY <4>1, <4>2
    <3>2. SlotOf(F)[i] = 0 <=> SlotOf(R)[i] = 0
      <4> HIDE DEF n
      <4> QED BY <1>2, <2>1, <2>2, <3>1 DEF IsSlot, n
    <3> QED BY <1>6, <2>4, <3>2 DEF Holding
  <2> QED BY <2>3, <2>4
<1>10. Holding(d, F)
  BY <1>2, <1>6, <1>8, <1>9 DEF Holding
<1> QED BY <1>10 DEF d, F, hole

\* The memory with a new id holds the rows of the device and the new one.
LEMMA AddedContent ==
    ASSUME NEW R, IsBatch(R), NEW c, Holding(c, R), NEW id \in Ids, NEW at \in PlacesOf[id],
           SlotOf(R)[id] = 0
    PROVE  Holding([c EXCEPT ![id] = at], Append(R, Row(id, at)))
<1> DEFINE n == Len(R)
<1> DEFINE A == Append(R, Row(id, at))
<1> DEFINE d == [c EXCEPT ![id] = at]
<1>1. IsBatch(A) /\ Len(A) = n + 1 /\ n \in Nat
  BY LongerBatch, RowFacts
<1>2. SlotOf(A) = [SlotOf(R) EXCEPT ![id] = n + 1] /\ SlotOf(R) = [i \in Ids |-> SlotOf(R)[i]]
  BY LongerBatch, SlotFacts
<1>3. \A s \in 1..n : A[s] = R[s]
  BY DEF IsBatch
<1>4. A[n + 1].id = id /\ A[n + 1].at = at
  <2>1. A[n + 1] = Row(id, at)
    BY DEF IsBatch
  <2> QED BY <2>1 DEF Row
<1>5. at # NoPlace
  BY GpuIvfAssumption
<1>6. d = [i \in Ids |-> d[i]] /\ \A i \in Ids : d[i] = IF i = id THEN at ELSE c[i]
  BY DEF Holding
<1>7. \A s \in 1..n : R[s].id # id /\ R[s].id \in Ids
  <2>1. \A s \in 1..n : R[s].id # id
    BY SlotFacts DEF IsSlot
  <2> QED BY <2>1, RowFacts
<1> HIDE DEF A, d
<1>8. ASSUME NEW i \in Ids
      PROVE  d[i] = NoPlace <=> SlotOf(A)[i] = 0
  <2>1. n + 1 # 0 /\ SlotOf(A)[i] = IF i = id THEN n + 1 ELSE SlotOf(R)[i]
    BY <1>1, <1>2
  <2> QED BY <1>5, <1>6, <2>1 DEF Holding
<1>9. ASSUME NEW s \in 1..(n + 1)
      PROVE  d[A[s].id] = A[s].at
  <2>1. CASE s = n + 1
    BY <1>4, <1>6, <2>1
  <2>2. CASE s \in 1..n
    BY <1>3, <1>6, <1>7, <2>2 DEF Holding
  <2> QED BY <1>1, <2>1, <2>2
<1>10. Holding(d, A)
  BY <1>1, <1>6, <1>8, <1>9 DEF Holding
<1> QED BY <1>10 DEF d, A

-----------------------------------------------------------------------------
(* The two indexes together. *)

MirrorInv == IsIndexOf(gpu, gpu.rows) /\ Holding(cpu, gpu.rows)

\* The rows of an index are a batch.
LEMMA RowsOfIndex == ASSUME NEW s, NEW R, IsIndexOf(s, R) PROVE s.rows = R /\ IsBatch(R)
BY FieldsAre DEF IsIndexOf, IndexOf, Fit

\* Two empty indexes mirror each other.
LEMMA MirrorInitially == HybridInit => MirrorInv
<1> SUFFICES ASSUME HybridInit PROVE MirrorInv
  OBVIOUS
<1>1. IsIndexOf(gpu, <<>>) /\ gpu.rows = <<>>
  BY EmptyIndex, RowsOfIndex DEF HybridInit
<1>2. IsBatch(<<>>)
  BY <1>1, RowsOfIndex
<1>3. cpu = [id \in Ids |-> NoPlace]
  BY DEF HybridInit, Mirror!Init
<1>4. \A id \in Ids : SlotOf(<<>>)[id] = 0
  BY <1>2, SlotFacts DEF IsSlot
<1> QED BY <1>1, <1>3, <1>4 DEF MirrorInv, Holding

\* One case for removal, insertion and loading; an insertion first removes.
LEMMA MirrorKeeps == MirrorInv /\ [HybridNext]_hybridVars => MirrorInv'
<1> SUFFICES ASSUME MirrorInv, [HybridNext]_hybridVars PROVE MirrorInv'
  OBVIOUS
<1> DEFINE R == gpu.rows
<1>1. IsIndexOf(gpu, R) /\ Holding(cpu, R) /\ IsBatch(R)
  BY RowsOfIndex DEF MirrorInv
<1> HIDE DEF R
<1> SUFFICES \E S : IsIndexOf(gpu', S) /\ Holding(cpu', S)
  BY RowsOfIndex DEF MirrorInv
<1>2. ASSUME NEW id \in Ids, RemoveId(id)
      PROVE  \E S : IsIndexOf(gpu', S) /\ Holding(cpu', S)
  <2>1. cpu[id] # NoPlace /\ cpu' = [cpu EXCEPT ![id] = NoPlace] /\ gpu' = Removed(gpu, id)
    BY <1>2 DEF RemoveId, Mirror!Remove
  <2>2. SlotOf(R)[id] # 0
    BY <1>1, <2>1 DEF Holding
  <2> QED BY <1>1, <2>1, <2>2, RemovedIndex, RemovedContent
<1>3. ASSUME NEW id \in Ids, NEW at \in PlacesOf[id], Add(id, at)
      PROVE  \E S : IsIndexOf(gpu', S) /\ Holding(cpu', S)
  <2>1. cpu[id] = NoPlace /\ cpu' = [cpu EXCEPT ![id] = at] /\ gpu' = Inserted(gpu, id, at)
    BY <1>3 DEF Add, Mirror!Add
  <2>2. SlotOf(R)[id] = 0
    BY <1>1, <2>1 DEF Holding
  <2> QED BY <1>1, <2>1, <2>2, InsertedIndex, AddedContent
<1>4. ASSUME NEW loaded \in Batches, Load(loaded)
      PROVE  \E S : IsIndexOf(gpu', S) /\ Holding(cpu', S)
  <2>1. IsBatch(loaded) /\ RequestedLists \in Nat \ {0} /\ RequestedLists <= RequestedLists
    BY GpuHybridAssumption, GpuIvfAssumption
  <2>2. IsIndexOf(Rebuild(loaded, RequestedLists), loaded)
    BY <2>1, RebuiltIndex
  <2> QED BY <1>4, <2>1, <2>2, ContentHolds DEF Load
<1>5. CASE UNCHANGED hybridVars
  BY <1>1, <1>5 DEF hybridVars
<1> QED BY <1>2, <1>3, <1>4, <1>5 DEF HybridNext

\* The index on the device is, at every moment, what its rows and centroids make of
\* it, with no more lists than rows, and the index in memory holds these rows.
THEOREM MirrorInvariant == HybridSpec => []MirrorInv
<1> QED BY MirrorInitially, MirrorKeeps, PTL DEF HybridSpec

\* A snapshot of an index of some rows brings it back.
LEMMA SnapshotFacts ==
    ASSUME NEW R, NEW C, Fit(R, C), R # <<>>
    PROVE  Imported(Exported(IndexOf(R, C))) = IndexOf(R, C)
<1> DEFINE n == TargetLists(Len(C), Len(R))
<1>1. /\ Len(C) \in Nat /\ Len(C) > 0 /\ Len(R) \in Nat /\ Len(C) <= Len(R) /\ C \in Seq(Nat)
  BY FitFacts DEF Fit
<1>2. n = Len(C)
  <2>1. ASSUME NEW a \in Nat, NEW b \in Nat, a > 0, a <= b
        PROVE  TargetLists(a, b) = a
    BY <2>1 DEF TargetLists, Greater, Smaller
  <2> HIDE DEF n
  <2> QED BY <1>1, <2>1 DEF n
<1>3. SubSeq(C, 1, Len(C)) = C
  BY <1>1
<1>4. Exported(IndexOf(R, C)) = [rows |-> R, list |-> Assigned(R, C), centroids |-> C]
  BY FieldsAre DEF Exported, IndexOf
<1>5. Imported([rows |-> R, list |-> Assigned(R, C), centroids |-> C])
          = Fields(R, Assigned(R, C), MembersOf(Assigned(R, C), n), SubSeq(C, 1, n), SlotOf(R))
  BY DEF Imported, Fields
<1> HIDE DEF n
<1> QED BY <1>2, <1>3, <1>4, <1>5 DEF IndexOf

\* Rows, lists, members and slots of the device index agree, and a snapshot of it
\* brings it back, whatever is removed, added or loaded.
THEOREM ListsAlwaysAgree == HybridSpec => []ListsAgree
<1>1. MirrorInv => ListsAgree
  <2> SUFFICES ASSUME MirrorInv PROVE ListsAgree
    OBVIOUS
  <2> DEFINE R == gpu.rows
  <2>1. PICK C : gpu = IndexOf(R, C) /\ Fit(R, C)
    BY DEF MirrorInv, IsIndexOf
  <2>2. IsBatch(R) /\ C \in Seq(Nat) /\ Len(C) <= Smaller(RequestedLists, Len(R))
    BY <2>1 DEF Fit
  <2>3. /\ gpu.list = Assigned(R, C) /\ gpu.members = MembersOf(Assigned(R, C), Len(C))
        /\ gpu.centroids = C /\ gpu.slot = SlotOf(R)
    BY <2>1, FieldsAre DEF IndexOf
  <2>4. R # <<>> => Imported(Exported(gpu)) = gpu
    BY <2>1, SnapshotFacts
  <2>5. Holding(cpu, R)
    BY DEF MirrorInv
  <2> HIDE DEF R
  <2>6. DOMAIN cpu = Ids
    BY <2>5 DEF Holding
  <2>7. ASSUME NEW id \in Ids, cpu[id] # NoPlace
        PROVE  cpu[id] \in PlacesOf[id]
    <3>1. SlotOf(R)[id] \in 1..Len(R) /\ R[SlotOf(R)[id]].id = id
      BY <2>2, <2>5, <2>7, SlotFacts DEF Holding, IsSlot
    <3> QED BY <2>2, <2>5, <3>1, RowFacts DEF Holding
  <2>8. HybridTypeOK
    BY <2>2, <2>3, <2>6, <2>7 DEF HybridTypeOK, R
  <2> QED BY <2>2, <2>3, <2>4, <2>8 DEF ListsAgree, R
<1> QED BY <1>1, MirrorInvariant, PTL

-----------------------------------------------------------------------------
(* Order: the rank of a row in a set decides where a list of the nearest has *)
(* it.                                                                       *)

Closer(q, r, t) ==
    \/ Distance(q, r.at) < Distance(q, t.at)
    \/ Distance(q, r.at) = Distance(q, t.at) /\ r.id < t.id

Ahead(q, S, r) == {t \in S : Closer(q, t, r)}
Rank(q, S, r) == Cardinality(Ahead(q, S, r))

\* Rows with a distance from q, of different ids.
Sortable(q, S) ==
    /\ q \in Nat /\ IsFiniteSet(S)
    /\ \A r \in S : r.at \in Nat /\ r.id \in Nat
    /\ \A r, t \in S : r.id = t.id => r = t

\* Being closer is a strict order of rows with different ids.
LEMMA CloserFacts ==
    ASSUME NEW q, NEW S, Sortable(q, S)
    PROVE  /\ \A r \in S : ~Closer(q, r, r)
           /\ \A r, s, t \in S : Closer(q, r, s) /\ Closer(q, s, t) => Closer(q, r, t)
           /\ \A r, t \in S : r = t \/ Closer(q, r, t) \/ Closer(q, t, r)
           /\ \A r, t \in S : Closer(q, r, t) => Distance(q, r.at) <= Distance(q, t.at)
<1> DEFINE d(r) == Distance(q, r.at)
<1>1. \A r \in S : d(r) \in Nat /\ r.id \in Nat
  BY DistanceFacts DEF Sortable
<1>2. \A r, t : Closer(q, r, t) <=> (d(r) < d(t) \/ (d(r) = d(t) /\ r.id < t.id))
  BY DEF Closer
<1> HIDE DEF d
<1>3. \A r, t \in S : Closer(q, r, t) => d(r) <= d(t)
  BY <1>1, <1>2
<1>4. \A r, t \in S : r = t \/ Closer(q, r, t) \/ Closer(q, t, r)
  BY <1>1, <1>2 DEF Sortable
<1>5. \A r, s, t \in S : Closer(q, r, s) /\ Closer(q, s, t) => Closer(q, r, t)
  BY <1>1, <1>2
<1>6. \A r \in S : ~Closer(q, r, r)
  BY <1>1, <1>2
<1> QED BY <1>3, <1>4, <1>5, <1>6 DEF d

\* A part that leaves something out has fewer elements.
LEMMA PartIsLess ==
    ASSUME NEW T, IsFiniteSet(T), NEW U \in SUBSET T, NEW x \in T \ U
    PROVE  Cardinality(U) < Cardinality(T)
<1>1. IsFiniteSet(U) /\ Cardinality(U) <= Cardinality(T) /\ Cardinality(T) # Cardinality(U)
  BY FS_Subset
<1> QED BY <1>1, FS_CardinalityType

\* The rank of a row, how many are closer, orders the rows and tells them apart.
LEMMA RankFacts ==
    ASSUME NEW q, NEW S, Sortable(q, S)
    PROVE  /\ Cardinality(S) \in Nat
           /\ \A r \in S : Rank(q, S, r) \in 0..(Cardinality(S) - 1)
           /\ \A r, t \in S : Closer(q, r, t) <=> Rank(q, S, r) < Rank(q, S, t)
           /\ \A r, t \in S : Rank(q, S, r) = Rank(q, S, t) => r = t
<1>1. IsFiniteSet(S) /\ Cardinality(S) \in Nat
  BY FS_CardinalityType DEF Sortable
<1>2. ASSUME NEW r \in S
      PROVE  IsFiniteSet(Ahead(q, S, r)) /\ Rank(q, S, r) \in Nat
  <2>1. Ahead(q, S, r) \in SUBSET S
    BY DEF Ahead
  <2> QED BY <1>1, <2>1, FS_Subset, FS_CardinalityType DEF Rank
<1>3. ASSUME NEW r \in S
      PROVE  Rank(q, S, r) \in 0..(Cardinality(S) - 1)
  <2>1. r \in S \ Ahead(q, S, r) /\ Ahead(q, S, r) \in SUBSET S
    BY CloserFacts DEF Ahead
  <2>2. Rank(q, S, r) < Cardinality(S)
    BY <1>1, <2>1, PartIsLess DEF Rank
  <2> QED BY <1>1, <1>2, <2>2
<1>4. ASSUME NEW r \in S, NEW t \in S, Closer(q, r, t)
      PROVE  Rank(q, S, r) < Rank(q, S, t)
  <2>1. r \in Ahead(q, S, t) \ Ahead(q, S, r)
    BY <1>4, CloserFacts DEF Ahead
  <2>2. Ahead(q, S, r) \in SUBSET Ahead(q, S, t)
    BY <1>4, CloserFacts DEF Ahead
  <2> QED BY <1>2, <2>1, <2>2, PartIsLess DEF Rank
<1>5. ASSUME NEW r \in S, NEW t \in S
      PROVE  /\ Closer(q, r, t) <=> Rank(q, S, r) < Rank(q, S, t)
             /\ Rank(q, S, r) = Rank(q, S, t) => r = t
  <2>1. r = t \/ Closer(q, r, t) \/ Closer(q, t, r)
    BY CloserFacts
  <2> QED BY <1>2, <1>4, <2>1
<1> QED BY <1>1, <1>3, <1>5

\* Every rank is taken.
LEMMA RankTaken ==
    ASSUME NEW q, NEW S, Sortable(q, S), NEW i \in 0..(Cardinality(S) - 1)
    PROVE  \E r \in S : Rank(q, S, r) = i
<1> DEFINE n == Cardinality(S)
<1> DEFINE I == 0..(n - 1)
<1> DEFINE rank == [r \in S |-> Rank(q, S, r)]
<1>1. n \in Nat /\ IsFiniteSet(S)
  BY RankFacts DEF Sortable
<1>2. rank \in [S -> I] /\ \A r, t \in S : rank[r] = rank[t] => r = t
  BY RankFacts
<1>3. IsFiniteSet(I) /\ Cardinality(I) = n
  <2> HIDE DEF n
  <2> QED BY <1>1, FS_Interval
<1>4. rank \in Injection(S, I)
  <2> HIDE DEF rank, I
  <2> QED BY <1>2 DEF Injection, IsInjective
<1>5. rank \in Surjection(S, I)
  <2> HIDE DEF rank, I
  <2> QED BY <1>3, <1>4, FS_Injection
<1> QED BY <1>5 DEF Surjection

\* Hits are the ids of the first n rows, in the order of their ranks, and every
\* other row comes after all of these.
RanksOf(hits, q, k, S, f) ==
    /\ DOMAIN hits = 1..Len(hits) /\ Len(hits) \in Nat /\ Len(hits) <= k
    /\ \A i \in 1..Len(hits) : f[i] \in S /\ hits[i] = f[i].id
    /\ \A i, j \in 1..Len(hits) : i < j => Closer(q, f[i], f[j]) /\ f[i].id # f[j].id
    /\ \A r \in S : \/ \E i \in 1..Len(hits) : r = f[i]
                    \/ Len(hits) = k /\ \A i \in 1..Len(hits) : Closer(q, f[i], r)
    /\ S # {} /\ k > 0 => Len(hits) > 0

\* A ranked list is the rows of the first ranks, in their order.
LEMMA RankedFacts ==
    ASSUME NEW q, NEW S, Sortable(q, S), NEW k \in Nat
    PROVE  \E f : RanksOf(Ranked(q, k, S), q, k, S, f)
<1> DEFINE n == Smaller(k, Cardinality(S))
<1> DEFINE nth(i) == CHOOSE r \in S : Rank(q, S, r) = i - 1
<1> DEFINE f == [i \in 1..n |-> nth(i)]
<1> DEFINE hits == [i \in 1..n |-> nth(i).id]
<1>1. Cardinality(S) \in Nat /\ n \in Nat /\ n <= k /\ n <= Cardinality(S)
      /\ (n = k \/ n = Cardinality(S))
  BY RankFacts DEF Smaller
<1>2. Ranked(q, k, S) = hits
  BY DEF Ranked, Rank, Ahead, Closer
<1>3. ASSUME NEW i \in 1..n
      PROVE  f[i] \in S /\ Rank(q, S, f[i]) = i - 1
  <2>1. i - 1 \in 0..(Cardinality(S) - 1)
    <3> HIDE DEF n
    <3> QED BY <1>1, <1>3
  <2>2. \E r \in S : Rank(q, S, r) = i - 1
    BY <2>1, RankTaken
  <2>3. nth(i) \in S /\ Rank(q, S, nth(i)) = i - 1
    BY <2>2
  <2> HIDE DEF nth
  <2> QED BY <2>3
<1>4. Len(hits) = n /\ DOMAIN hits = 1..n /\ \A i \in 1..n : hits[i] = f[i].id
  <2> HIDE DEF n, nth
  <2> QED BY <1>1
<1> HIDE DEF f, n, hits
<1>5. ASSUME NEW i \in 1..n, NEW j \in 1..n, i < j
      PROVE  Closer(q, f[i], f[j]) /\ f[i].id # f[j].id
  <2>1. Closer(q, f[i], f[j])
    BY <1>1, <1>3, <1>5, RankFacts
  <2>2. f[i] # f[j]
    BY <1>3, <2>1, CloserFacts
  <2> QED BY <1>3, <2>1, <2>2 DEF Sortable
<1>6. ASSUME NEW r \in S
      PROVE  \/ \E i \in 1..n : r = f[i]
             \/ n = k /\ \A i \in 1..n : Closer(q, f[i], r)
  <2> DEFINE m == Rank(q, S, r)
  <2>1. m \in Nat /\ m < Cardinality(S)
    BY <1>1, RankFacts
  <2>2. CASE m < n
    <3>1. m + 1 \in 1..n
      BY <1>1, <2>1, <2>2
    <3>2. Rank(q, S, f[m + 1]) = Rank(q, S, r) /\ f[m + 1] \in S
      <4> HIDE DEF m
      <4>1. (m + 1) - 1 = m
        BY <2>1
      <4> QED BY <1>3, <3>1, <4>1 DEF m
    <3> HIDE DEF m
    <3>3. f[m + 1] = r
      BY <3>2, RankFacts
    <3> QED BY <3>1, <3>3
  <2>3. CASE m >= n
    <3>1. n = k
      BY <1>1, <2>1, <2>3
    <3>2. \A i \in 1..n : i - 1 < m
      BY <1>1, <2>1, <2>3
    <3>3. \A i \in 1..n : Closer(q, f[i], r)
      BY <1>3, <3>2, RankFacts
    <3> QED BY <3>1, <3>3
  <2> QED BY <1>1, <2>1, <2>2, <2>3
<1>7. S # {} /\ k > 0 => n > 0
  <2>1. S # {} => Cardinality(S) # 0
    BY FS_EmptySet DEF Sortable
  <2> QED BY <1>1, <2>1
<1>8. RanksOf(hits, q, k, S, f)
  BY <1>1, <1>3, <1>4, <1>5, <1>6, <1>7 DEF RanksOf
<1> QED BY <1>2, <1>8

-----------------------------------------------------------------------------
(* Search. *)

RowsIn(R) == {R[s] : s \in 1..Len(R)}

\* The rows of a batch can be ranked from every place.
LEMMA RowsAreSortable ==
    ASSUME NEW R, IsBatch(R), NEW q \in Nat, NEW S \in SUBSET RowsIn(R)
    PROVE  Sortable(q, S)
<1> DEFINE T == RowsIn(R)
<1>1. /\ Len(R) \in Nat
      /\ \A s \in 1..Len(R) : R[s].at \in Nat /\ R[s].id \in Nat
      /\ \A s, t \in 1..Len(R) : R[s].id = R[t].id => s = t
  BY RowFacts, GpuIvfAssumption
<1>2. IsFiniteSet(T)
  <2> DEFINE f == [s \in 1..Len(R) |-> R[s]]
  <2>1. f \in Surjection(1..Len(R), T)
    BY DEF Surjection, RowsIn
  <2>2. IsFiniteSet(1..Len(R))
    BY <1>1, FS_Interval
  <2> HIDE DEF f, T
  <2> QED BY <2>1, <2>2, FS_Surjection
<1>3. IsFiniteSet(S)
  BY <1>2, FS_Subset
<1>4. \A r \in S : \E s \in 1..Len(R) : r = R[s]
  BY DEF RowsIn
<1> QED BY <1>1, <1>3, <1>4 DEF Sortable

\* What the memory holds and the rows of the device are the same.
LEMMA HeldAreRows ==
    ASSUME NEW R, IsBatch(R), Holding(cpu, R)
    PROVE  /\ {Row(id, cpu[id]) : id \in Mirror!Held} = RowsIn(R)
           /\ \A r \in RowsIn(R) : r.id \in Mirror!Held /\ r.at = cpu[r.id]
           /\ \A id \in Mirror!Held : \E r \in RowsIn(R) : r.id = id
<1>1. ASSUME NEW s \in 1..Len(R)
      PROVE  R[s].id \in Mirror!Held /\ R[s].at = cpu[R[s].id] /\ R[s] = Row(R[s].id, cpu[R[s].id])
  <2>1. R[s].at = cpu[R[s].id] /\ R[s].at # NoPlace /\ R[s].id \in Ids
    BY RowFacts DEF Holding
  <2>2. R[s] = Row(R[s].id, R[s].at)
    BY RowFacts
  <2> QED BY <2>1, <2>2 DEF Mirror!Held
<1>2. ASSUME NEW id \in Mirror!Held
      PROVE  \E s \in 1..Len(R) : R[s].id = id
  <2>1. id \in Ids /\ SlotOf(R)[id] # 0
    BY DEF Mirror!Held, Holding
  <2> QED BY <2>1, SlotFacts DEF IsSlot
<1>3. \A r : r \in {Row(id, cpu[id]) : id \in Mirror!Held} <=> r \in RowsIn(R)
  <2>1. ASSUME NEW r \in RowsIn(R)
        PROVE  \E id \in Mirror!Held : r = Row(id, cpu[id])
    BY <1>1 DEF RowsIn
  <2>2. ASSUME NEW id \in Mirror!Held
        PROVE  Row(id, cpu[id]) \in RowsIn(R)
    BY <1>1, <1>2 DEF RowsIn
  <2> QED BY <2>1, <2>2
<1> QED BY <1>1, <1>2, <1>3 DEF RowsIn

\* A list of the nearest rows is one that an index may give, and one that leaves
\* nothing out if all rows are in it.
LEMMA RankedIsLegal ==
    ASSUME NEW R, IsBatch(R), Holding(cpu, R), NEW q \in Nat, NEW k \in Nat,
           NEW S \in SUBSET RowsIn(R)
    PROVE  /\ Mirror!Legal(Ranked(q, k, S), q, k)
           /\ S = RowsIn(R) => Mirror!Exact(Ranked(q, k, S), q, k)
           /\ S # {} /\ k > 0 => Ranked(q, k, S) # <<>>
           /\ k > 0 /\ (\E r \in S : r.at = q) =>
                  Ranked(q, k, S) # <<>> /\ cpu[Ranked(q, k, S)[1]] = q
<1> DEFINE hits == Ranked(q, k, S)
<1> DEFINE n == Len(hits)
<1>1. Sortable(q, S)
  BY RowsAreSortable
<1>2. PICK f : RanksOf(hits, q, k, S, f)
  BY <1>1, RankedFacts
<1> HIDE DEF hits
<1>3. /\ DOMAIN hits = 1..n /\ n \in Nat /\ n <= k
      /\ \A i \in 1..n : f[i] \in S /\ hits[i] = f[i].id
      /\ \A i, j \in 1..n : i < j => Closer(q, f[i], f[j]) /\ f[i].id # f[j].id
      /\ \A r \in S : \/ \E i \in 1..n : r = f[i]
                      \/ n = k /\ \A i \in 1..n : Closer(q, f[i], r)
      /\ S # {} /\ k > 0 => n > 0
  BY <1>2 DEF RanksOf
<1>4. \A r \in S : r.id \in Mirror!Held /\ r.at = cpu[r.id]
  BY HeldAreRows
<1>5. \A r, t \in S : Closer(q, r, t) => Distance(q, r.at) <= Distance(q, t.at)
  BY <1>1, CloserFacts
<1>6. \A p \in Nat : Mirror!Distance(q, p) = Distance(q, p)
  BY DEF Mirror!Distance, Distance
<1>7. \A r \in S : r.at \in Nat /\ cpu[r.id] \in Nat /\ Mirror!Distance(q, cpu[r.id]) = Distance(q, r.at)
  BY <1>1, <1>4, <1>6 DEF Sortable
<1> HIDE DEF n
<1>8. Mirror!Legal(hits, q, k)
  <2>1. \A i \in 1..n : hits[i] \in Mirror!Held
    BY <1>3, <1>4
  <2>2. ASSUME NEW i \in 1..n, NEW j \in 1..n, i < j
        PROVE  /\ hits[i] # hits[j]
               /\ Mirror!Distance(q, cpu[hits[i]]) <= Mirror!Distance(q, cpu[hits[j]])
    <3>1. Closer(q, f[i], f[j]) /\ f[i] \in S /\ f[j] \in S /\ hits[i] = f[i].id /\ hits[j] = f[j].id
          /\ f[i].id # f[j].id
      BY <1>3, <2>2
    <3>2. Distance(q, f[i].at) <= Distance(q, f[j].at)
      BY <1>5, <3>1
    <3> QED BY <1>7, <3>1, <3>2
  <2> QED BY <1>3, <2>1, <2>2 DEF Mirror!Legal, n
<1>9. ASSUME S = RowsIn(R)
      PROVE  Mirror!Exact(hits, q, k)
  <2>1. ASSUME NEW id \in Mirror!Held, \A i \in 1..n : hits[i] # id
        PROVE  /\ n = k
               /\ \A i \in 1..n : Mirror!Distance(q, cpu[hits[i]]) <= Mirror!Distance(q, cpu[id])
    <3>1. PICK r \in S : r.id = id
      BY <1>9, HeldAreRows
    <3>2. n = k /\ \A i \in 1..n : Closer(q, f[i], r)
      BY <1>3, <2>1, <3>1
    <3>3. ASSUME NEW i \in 1..n
          PROVE  Mirror!Distance(q, cpu[hits[i]]) <= Mirror!Distance(q, cpu[id])
      <4>1. f[i] \in S /\ hits[i] = f[i].id /\ Closer(q, f[i], r)
        BY <1>3, <3>2
      <4>2. Distance(q, f[i].at) <= Distance(q, r.at)
        BY <1>5, <4>1
      <4> QED BY <1>7, <3>1, <4>1, <4>2
    <3> QED BY <3>2, <3>3
  <2>2. n < k => \A id \in Mirror!Held : \E i \in 1..n : hits[i] = id
    BY <1>3, <2>1
  <2>3. \A id \in Mirror!Held : (\E i \in 1..n : hits[i] = id) \/
            \A i \in 1..n : Mirror!Distance(q, cpu[hits[i]]) <= Mirror!Distance(q, cpu[id])
    BY <2>1
  <2>4. n < k => Mirror!Held \subseteq {hits[i] : i \in DOMAIN hits}
    BY <1>3, <2>2
  <2>5. \A id \in Mirror!Held \ {hits[i] : i \in DOMAIN hits} : \A i \in DOMAIN hits :
            Mirror!Distance(q, cpu[hits[i]]) <= Mirror!Distance(q, cpu[id])
    BY <1>3, <2>3
  <2> QED BY <1>8, <2>4, <2>5 DEF Mirror!Exact, n
<1>10. S # {} /\ k > 0 => hits # <<>>
  <2>1. n > 0 => hits # <<>>
    BY DEF n
  <2> QED BY <1>3, <2>1
<1>11. ASSUME k > 0, NEW r \in S, r.at = q
       PROVE  hits # <<>> /\ cpu[hits[1]] = q
  <2>1. hits # <<>> /\ 1 \in 1..n
    BY <1>3, <1>10, <1>11
  <2>2. f[1] \in S /\ hits[1] = f[1].id
    BY <1>3, <2>1
  <2>3. \A i \in 1..n : i = 1 \/ 1 < i
    BY <1>3
  <2>4. r = f[1] \/ Closer(q, f[1], r)
    BY <1>3, <2>1, <2>3
  <2>5. Distance(q, r.at) = 0 /\ Distance(q, f[1].at) \in Nat
    BY <1>7, <1>11, <2>2, DistanceFacts
  <2>6. r = f[1] \/ Distance(q, f[1].at) <= Distance(q, r.at)
    BY <1>5, <2>2, <2>4
  <2>7. Distance(q, f[1].at) = 0
    BY <2>5, <2>6
  <2>8. f[1].at = q
    BY <1>7, <2>2, <2>7, DistanceFacts
  <2> QED BY <1>4, <2>1, <2>2, <2>8
<1> QED BY <1>8, <1>9, <1>10, <1>11 DEF hits

\* The list nearest to the query is probed, and all are if there are no more than
\* NProbe of them.
LEMMA ProbedFacts ==
    ASSUME NEW s, NEW C \in Seq(Nat), C # <<>>, s.centroids = C, NEW q \in Nat
    PROVE  /\ Probed(s, q) \subseteq 1..Len(C)
           /\ Closest(q, C) \in Probed(s, q)
           /\ NProbe >= Len(C) => 1..Len(C) \subseteq Probed(s, q)
<1> DEFINE d(l) == Distance(q, C[l])
<1> DEFINE before(l) == {m \in 1..Len(C) : d(m) < d(l) \/ (d(m) = d(l) /\ m < l)}
<1>1. DOMAIN C = 1..Len(C) /\ Len(C) \in Nat /\ NProbe \in Nat /\ NProbe > 0
  BY GpuIvfAssumption
<1>2. Probed(s, q) = {l \in 1..Len(C) : Cardinality(before(l)) < NProbe}
  BY <1>1 DEF Probed
<1>3. \A l \in 1..Len(C) : d(l) \in Nat
  <2>1. \A l \in 1..Len(C) : C[l] \in Nat
    BY <1>1
  <2> QED BY <2>1, DistanceFacts
<1>4. Closest(q, C) \in Probed(s, q)
  <2> DEFINE l == Closest(q, C)
  <2>1. l \in 1..Len(C) /\ \A m \in 1..Len(C) : d(l) < d(m) \/ (d(l) = d(m) /\ l <= m)
    <3>1. IsClosest(q, C, l) /\ l \in 1..Len(C)
      BY ClosestFacts
    <3> HIDE DEF l
    <3> QED BY <1>1, <3>1 DEF IsClosest
  <2> HIDE DEF l, d
  <2>2. before(l) = {}
    BY <1>3, <2>1
  <2> HIDE DEF before
  <2>3. Cardinality(before(l)) < NProbe
    BY <1>1, <2>2, FS_EmptySet
  <2> QED BY <1>2, <2>1, <2>3 DEF l
<1>5. ASSUME NProbe >= Len(C), NEW l \in 1..Len(C)
      PROVE  l \in Probed(s, q)
  <2>1. before(l) \in SUBSET (1..Len(C)) /\ l \in (1..Len(C)) \ before(l)
    BY <1>3
  <2>2. IsFiniteSet(1..Len(C)) /\ Cardinality(1..Len(C)) = Len(C)
    <3> DEFINE n == Len(C)
    <3>1. n \in Nat
      BY <1>1
    <3> HIDE DEF n
    <3>2. IsFiniteSet(1..n) /\ Cardinality(1..n) = n
      BY <3>1, FS_Interval
    <3> QED BY <3>2 DEF n
  <2> HIDE DEF before
  <2>3. Cardinality(before(l)) < Len(C)
    BY <2>1, <2>2, PartIsLess
  <2>4. Cardinality(before(l)) \in Nat
    BY <2>1, <2>2, FS_Subset, FS_CardinalityType
  <2>5. Cardinality(before(l)) < NProbe
    BY <1>1, <1>5, <2>3, <2>4
  <2> QED BY <1>2, <2>5
<1> QED BY <1>2, <1>4, <1>5

\* Candidates are rows; all of them if every list is probed, and whatever is at the query.
LEMMA CandidatesFacts ==
    ASSUME NEW R, NEW C, Fit(R, C), R # <<>>, NEW s, s = IndexOf(R, C), NEW q \in Nat
    PROVE  /\ Candidates(s, q) \subseteq RowsIn(R)
           /\ NProbe >= Len(C) => Candidates(s, q) = RowsIn(R)
           /\ \A r \in RowsIn(R) : r.at = q => r \in Candidates(s, q)
<1> DEFINE L == Assigned(R, C)
<1>1. IsBatch(R) /\ C \in Seq(Nat) /\ C # <<>>
  BY DEF Fit
<1>2. s.rows = R /\ s.centroids = C /\ s.members = MembersOf(L, Len(C))
  BY FieldsAre DEF IndexOf
<1>3. /\ DOMAIN L = 1..Len(R) /\ Len(R) \in Nat
      /\ \A t \in 1..Len(R) : L[t] \in 1..Len(C) /\ L[t] = Closest(R[t].at, C)
  BY <1>1, AssignedFacts, RowFacts
<1>4. /\ Probed(s, q) \subseteq 1..Len(C)
      /\ Closest(q, C) \in Probed(s, q)
      /\ NProbe >= Len(C) => 1..Len(C) \subseteq Probed(s, q)
  BY <1>1, <1>2, ProbedFacts
<1> HIDE DEF L
<1>5. \A l \in 1..Len(C) : \A t : t \in s.members[l] <=> t \in 1..Len(R) /\ L[t] = l
  BY <1>2, <1>3 DEF MembersOf
<1>6. \A r : r \in Candidates(s, q) <=>
          \E t \in 1..Len(R) : r = R[t] /\ L[t] \in Probed(s, q)
  <2>1. ASSUME NEW r \in Candidates(s, q)
        PROVE  \E t \in 1..Len(R) : r = R[t] /\ L[t] \in Probed(s, q)
    <3>1. PICK t \in UNION {s.members[l] : l \in Probed(s, q)} : r = R[t]
      BY <1>2 DEF Candidates
    <3>2. PICK l \in Probed(s, q) : t \in s.members[l]
      OBVIOUS
    <3> QED BY <1>4, <1>5, <3>1, <3>2
  <2>2. ASSUME NEW t \in 1..Len(R), L[t] \in Probed(s, q)
        PROVE  R[t] \in Candidates(s, q)
    <3>1. t \in s.members[L[t]]
      BY <1>4, <1>5, <2>2
    <3>2. t \in UNION {s.members[l] : l \in Probed(s, q)}
      BY <2>2, <3>1
    <3> QED BY <1>2, <3>2 DEF Candidates
  <2> QED BY <2>1, <2>2
<1>7. ASSUME NEW r \in RowsIn(R), r.at = q
      PROVE  r \in Candidates(s, q)
  <2>1. PICK t \in 1..Len(R) : r = R[t]
    BY DEF RowsIn
  <2>2. L[t] = Closest(q, C)
    BY <1>3, <1>7, <2>1
  <2> QED BY <1>4, <1>6, <2>1, <2>2
<1>8. ASSUME NProbe >= Len(C)
      PROVE  Candidates(s, q) = RowsIn(R)
  <2>1. \A r : r \in Candidates(s, q) <=> \E t \in 1..Len(R) : r = R[t]
    BY <1>3, <1>4, <1>6, <1>8
  <2> QED BY <2>1 DEF RowsIn
<1> QED BY <1>6, <1>7, <1>8 DEF RowsIn

\* The two indexes hold the same, and a search of them is answered from it, with
\* something if there is anything, and with all there is when it comes from memory
\* or when every list was probed.
THEOREM HybridAlwaysAnswers == HybridSpec => []HybridAnswers
<1>1. MirrorInv => HybridAnswers
  <2> SUFFICES ASSUME MirrorInv PROVE HybridAnswers
    OBVIOUS
  <2> DEFINE R == gpu.rows
  <2>1. PICK C : gpu = IndexOf(R, C) /\ Fit(R, C)
    BY DEF MirrorInv, IsIndexOf
  <2>2. /\ IsBatch(R) /\ Holding(cpu, R) /\ gpu.centroids = C
        /\ DOMAIN R = 1..Len(R) /\ Len(R) \in Nat /\ (R = <<>> <=> Len(R) = 0)
    BY <2>1, FieldsAre, RowFacts DEF MirrorInv, Fit, IndexOf
  <2> DEFINE T == {Row(id, cpu[id]) : id \in Mirror!Held}
  <2>3. T = RowsIn(R)
    BY <2>2, HeldAreRows
  <2>4. {R[s] : s \in DOMAIN R} = T
    BY <2>2, <2>3 DEF RowsIn
  <2> HIDE DEF T
  <2>5. ASSUME NEW id \in Ids, NEW q \in PlacesOf[id], NEW k \in 1..2, NEW device \in BOOLEAN
        PROVE  LET hits == HybridHits(q, k, device) IN
               /\ Mirror!Legal(hits, q, k)
               /\ Mirror!Held # {} => hits # <<>>
               /\ ~device \/ NProbe >= Len(gpu.centroids) => Mirror!Exact(hits, q, k)
               /\ device /\ q \in {cpu[i] : i \in Mirror!Held} => cpu[hits[1]] = q
    <3> DEFINE S == Candidates(gpu, q)
    <3> DEFINE hits == GpuHits(gpu, q, k, device)
    <3>1. q \in Nat /\ k \in Nat /\ k > 0
      BY <2>5, GpuIvfAssumption
    <3>2. hits = IF device /\ R # <<>> THEN Ranked(q, k, S) ELSE <<>>
      BY DEF GpuHits
    <3>3. HybridHits(q, k, device) = IF hits # <<>> \/ R = <<>> THEN hits ELSE Ranked(q, k, T)
      BY <3>1 DEF HybridHits, T
    <3> HIDE DEF hits
    <3>4. CASE R = <<>>
      <4>1. HybridHits(q, k, device) = <<>>
        BY <3>2, <3>3, <3>4
      <4>2. Mirror!Held = {}
        BY <2>2, <3>4, HeldAreRows DEF RowsIn
      <4>3. Mirror!Legal(<<>>, q, k) /\ Mirror!Exact(<<>>, q, k)
        BY <3>1, <4>2 DEF Mirror!Legal, Mirror!Exact
      <4> QED BY <4>1, <4>2, <4>3
    <3>5. CASE R # <<>>
      <4> HIDE DEF R
      <4>1. /\ Mirror!Legal(Ranked(q, k, T), q, k) /\ Mirror!Exact(Ranked(q, k, T), q, k)
            /\ T # {} => Ranked(q, k, T) # <<>>
            /\ (\E r \in T : r.at = q) => cpu[Ranked(q, k, T)[1]] = q
        BY <2>2, <2>3, <3>1, RankedIsLegal
      <4>2. S \in SUBSET RowsIn(R)
        BY <2>1, <3>1, <3>5, CandidatesFacts
      <4>3. /\ Mirror!Legal(Ranked(q, k, S), q, k)
            /\ S = RowsIn(R) => Mirror!Exact(Ranked(q, k, S), q, k)
            /\ (\E r \in S : r.at = q) =>
                  Ranked(q, k, S) # <<>> /\ cpu[Ranked(q, k, S)[1]] = q
        BY <2>2, <3>1, <4>2, RankedIsLegal
      <4>4. /\ NProbe >= Len(C) => S = RowsIn(R)
            /\ \A r \in RowsIn(R) : r.at = q => r \in S
        BY <2>1, <3>1, <3>5, CandidatesFacts
      <4>5. Mirror!Held # {} => T # {}
        BY DEF T
      <4>6. q \in {cpu[i] : i \in Mirror!Held} => \E r \in RowsIn(R) : r.at = q
        <5>1. ASSUME NEW i \in Mirror!Held, q = cpu[i]
              PROVE  \E r \in RowsIn(R) : r.at = q
          BY <2>2, <5>1, HeldAreRows
        <5> QED BY <5>1
      <4> HIDE DEF S
      <4>7. CASE device /\ hits # <<>>
        <5>1. HybridHits(q, k, device) = Ranked(q, k, S) /\ Ranked(q, k, S) # <<>>
          BY <3>2, <3>3, <3>5, <4>7
        <5> QED BY <2>2, <4>3, <4>4, <4>6, <4>7, <5>1
      <4>8. CASE ~(device /\ hits # <<>>)
        <5>1. HybridHits(q, k, device) = Ranked(q, k, T)
          BY <3>2, <3>3, <3>5, <4>8
        <5> QED BY <2>3, <4>1, <4>5, <4>6, <5>1
      <4> QED BY <4>7, <4>8
    <3> QED BY <3>4, <3>5
  <2>6. ASSUME NEW q \in UNION {PlacesOf[id] : id \in Ids}, NEW k \in 1..2, NEW device \in BOOLEAN
        PROVE  LET hits == HybridHits(q, k, device) IN
               /\ Mirror!Legal(hits, q, k)
               /\ Mirror!Held # {} => hits # <<>>
               /\ ~device \/ NProbe >= Len(gpu.centroids) => Mirror!Exact(hits, q, k)
               /\ device /\ q \in {cpu[i] : i \in Mirror!Held} => cpu[hits[1]] = q
    <3>1. PICK id \in Ids : q \in PlacesOf[id]
      BY <2>6
    <3> HIDE DEF R
    <3> QED BY <2>5, <3>1
  <2> QED BY <2>4, <2>6 DEF HybridAnswers, T
<1> QED BY <1>1, MirrorInvariant, PTL

-----------------------------------------------------------------------------
(* The batcher of queries. *)

\* No query is pending twice, none is pending and in a batch, and no two threads
\* have the same one.
QueriesAreApart ==
    /\ \A i, j \in DOMAIN pending : pending[i] = pending[j] => i = j
    /\ \A t \in Threads : ToSet(pending) \intersect ToSet(batch[t]) = {}
    /\ \A t, u \in Threads : t # u => ToSet(batch[t]) \intersect ToSet(batch[u]) = {}

\* The queries whose callers wait.
Waiters ==
    \A q \in Queries :
        future[q] = Waiting <=>
            q \in ToSet(pending) \/ \E t \in Threads : q \in ToSet(batch[t])

InOrder == owner # "gone" => taken \o pending = arrived

\* The worker has a batch only while it searches: it takes none over another.
WorkerIsFree == worker # "search" => batch[Worker] = <<>>

BatcherInv == BatcherTypeOK /\ QueriesAreApart /\ Waiters /\ InOrder /\ WorkerIsFree

-----------------------------------------------------------------------------
(* Sequences as sets. *)

LEMMA SetOfSeq ==
    ASSUME NEW S, NEW s \in Seq(S)
    PROVE  /\ ToSet(s) \subseteq S
           /\ \A x : x \in ToSet(s) <=> \E i \in DOMAIN s : s[i] = x
           /\ ToSet(<<>>) = {}
BY DEF ToSet

LEMMA SetOfAppend ==
    ASSUME NEW S, NEW s \in Seq(S), NEW e \in S
    PROVE  ToSet(Append(s, e)) = ToSet(s) \union {e}
<1> DEFINE w == Append(s, e)
<1>1. /\ DOMAIN s = 1..Len(s) /\ DOMAIN w = 1..(Len(s) + 1) /\ Len(s) \in Nat
      /\ \A i \in 1..Len(s) : w[i] = s[i]
      /\ w[Len(s) + 1] = e
  OBVIOUS
<1> HIDE DEF w
<1>2. DOMAIN w = DOMAIN s \union {Len(s) + 1} /\ \A i \in DOMAIN s : w[i] = s[i]
  BY <1>1
<1>3. ToSet(w) = ToSet(s) \union {e}
  BY <1>1, <1>2 DEF ToSet
<1> QED BY <1>3 DEF w

\* A queue of distinct elements that is cut in two.
LEMMA CutInTwo ==
    ASSUME NEW S, NEW s \in Seq(S), NEW n \in 0..Len(s),
           \A i, j \in DOMAIN s : s[i] = s[j] => i = j
    PROVE  LET head == SubSeq(s, 1, n)
               tail == SubSeq(s, n + 1, Len(s))
           IN  /\ head \in Seq(S) /\ tail \in Seq(S) /\ Len(head) = n
               /\ head \o tail = s
               /\ ToSet(s) = ToSet(head) \union ToSet(tail)
               /\ ToSet(head) \intersect ToSet(tail) = {}
               /\ \A i, j \in DOMAIN tail : tail[i] = tail[j] => i = j
<1> DEFINE head == SubSeq(s, 1, n)
           tail == SubSeq(s, n + 1, Len(s))
<1>1. /\ head \in Seq(S) /\ Len(head) = n
      /\ \A i \in 1..n : head[i] = s[i]
  BY SubSeqProperties
<1>2. /\ tail \in Seq(S) /\ Len(tail) = Len(s) - n
      /\ \A i \in 1..(Len(s) - n) : tail[i] = s[n + i]
  BY SubSeqProperties
<1>3. head \o tail = s
  <2>1. /\ Len(s) \in Nat /\ 1 \in 1..(Len(s) + 1) /\ n \in (1 - 1)..Len(s)
        /\ Len(s) \in n..Len(s)
    OBVIOUS
  <2>2. head \o tail = SubSeq(s, 1, Len(s))
    BY <2>1, ConcatAdjacentSubSeq
  <2> QED BY <2>2, SubSeqFull
<1> HIDE DEF head, tail
<1>4. DOMAIN s = 1..Len(s) /\ DOMAIN head = 1..n /\ DOMAIN tail = 1..(Len(s) - n) /\ Len(s) \in Nat
  BY <1>1, <1>2
<1>5. \A j \in DOMAIN tail : tail[j] = s[n + j] /\ n + j \in DOMAIN s /\ n + j > n
  BY <1>2, <1>4
<1>6. \A j \in DOMAIN s : j \in DOMAIN head \/ (j - n \in DOMAIN tail /\ s[j] = tail[j - n])
  BY <1>2, <1>4
<1>7. ToSet(s) = ToSet(head) \union ToSet(tail)
  BY <1>1, <1>4, <1>5, <1>6 DEF ToSet
<1>8. ToSet(head) \intersect ToSet(tail) = {}
  <2> SUFFICES ASSUME NEW i \in DOMAIN head, NEW j \in DOMAIN tail, head[i] = tail[j]
               PROVE  FALSE
    BY DEF ToSet
  <2> QED BY <1>1, <1>4, <1>5
<1>9. \A i, j \in DOMAIN tail : tail[i] = tail[j] => i = j
  BY <1>4, <1>5
<1> QED BY <1>1, <1>2, <1>3, <1>7, <1>8, <1>9 DEF head, tail

-----------------------------------------------------------------------------
(* What the helpers of the batcher do. *)

LEMMA FutureKinds ==
    /\ Unsent # Waiting
    /\ \A x \in {Empty, Failed, Broken} : x \in Outcomes \ {Unsent, Waiting}
    /\ \A k \in Depths : Answer(k) \in Outcomes \ {Unsent, Waiting}
<1>1. /\ Unsent.kind = "unsent" /\ Waiting.kind = "waiting"
      /\ Empty.kind = "empty" /\ Failed.kind = "failed" /\ Broken.kind = "broken"
      /\ \A k \in Depths : Answer(k).kind = "answer"
  BY DEF Unsent, Waiting, Empty, Failed, Broken, Plain, Answer
<1>2. /\ {Empty, Failed, Broken} \subseteq Outcomes
      /\ \A k \in Depths : Answer(k) \in Outcomes
  BY DEF Outcomes
<1> QED BY <1>1, <1>2

\* The queries of qs are settled, and no other future changes.
SettlesExactly(qs) ==
    /\ future' \in [Queries -> Outcomes]
    /\ \A q \in Queries : IF q \in ToSet(qs) THEN future'[q] \notin {Unsent, Waiting}
                                            ELSE future'[q] = future[q]

\* A search, whether it answers all of its batch, some of it, or throws.
LEMMA SearchSettles ==
    ASSUME BatcherTypeOK, NEW t \in Threads, NEW Other \in {Empty, Broken}, Searched(t, Other)
    PROVE  SettlesExactly(batch[t])
<1> DEFINE qs == batch[t]
           Pos(q) == CHOOSE i \in DOMAIN qs : qs[i] = q
           In(q) == \E i \in DOMAIN qs : qs[i] = q
<1>1. future \in [Queries -> Outcomes] /\ qs \in Seq(Queries)
  BY DEF BatcherTypeOK
<1>2. \A q \in Queries : q \in ToSet(qs) <=> In(q)
  BY DEF ToSet
<1>3. \A q \in Queries : In(q) => DepthOf[qs[1]] \in Depths
  BY <1>1, BatcherAssumption
<1>4. CASE future' = [q \in Queries |-> IF In(q) THEN Broken ELSE future[q]]
  BY <1>1, <1>2, <1>4, FutureKinds DEF SettlesExactly
<1>5. CASE future' = [q \in Queries |-> IF In(q) THEN Failed ELSE future[q]]
  BY <1>1, <1>2, <1>5, FutureKinds DEF SettlesExactly
<1>6. ASSUME NEW m \in 0..Len(qs),
             future' = [q \in Queries |-> IF In(q)
                                          THEN IF Pos(q) <= m THEN Answer(DepthOf[qs[1]]) ELSE Other
                                          ELSE future[q]]
      PROVE  SettlesExactly(qs)
  <2> HIDE DEF Pos, In
  <2>1. \A q \in Queries : In(q) => future'[q] \in Outcomes \ {Unsent, Waiting}
    BY <1>3, <1>6, FutureKinds
  <2>2. \A q \in Queries : ~In(q) => future'[q] = future[q]
    BY <1>6
  <2> QED BY <1>1, <1>2, <1>6, <2>1, <2>2 DEF SettlesExactly
<1> QED BY <1>4, <1>5, <1>6 DEF Searched, Settle

\* The destructor breaks the promises that are still pending.
LEMMA DestructorSettles ==
    ASSUME BatcherTypeOK, Settle(pending, LAMBDA i : Broken)
    PROVE  SettlesExactly(pending)
BY FutureKinds DEF SettlesExactly, Settle, BatcherTypeOK, ToSet

\* Taking the first n queries into an empty batch moves them, in order.
LEMMA TakeMoves ==
    ASSUME BatcherTypeOK, QueriesAreApart, Waiters, NEW t \in Threads, batch[t] = <<>>,
           NEW n \in 0..Len(pending), Take(t, n), future' = future
    PROVE  /\ pending' \in Seq(Queries) /\ taken' \in Seq(Queries)
           /\ batch' \in [Threads -> Seq(Queries)] /\ Len(batch'[t]) = n
           /\ \A u \in Threads : u # t => batch'[u] = batch[u]
           /\ taken' \o pending' = taken \o pending
           /\ QueriesAreApart' /\ Waiters'
<1> DEFINE head == SubSeq(pending, 1, n)
           tail == SubSeq(pending, n + 1, Len(pending))
<1>1. pending \in Seq(Queries) /\ taken \in Seq(Queries) /\ batch \in [Threads -> Seq(Queries)]
  BY DEF BatcherTypeOK
<1>2. batch' = [batch EXCEPT ![t] = head] /\ taken' = taken \o head /\ pending' = tail
  BY DEF Take
<1>3. /\ head \in Seq(Queries) /\ tail \in Seq(Queries) /\ Len(head) = n
      /\ head \o tail = pending
      /\ ToSet(pending) = ToSet(head) \union ToSet(tail)
      /\ ToSet(head) \intersect ToSet(tail) = {}
      /\ \A i, j \in DOMAIN tail : tail[i] = tail[j] => i = j
  BY <1>1, CutInTwo DEF QueriesAreApart
<1> HIDE DEF head, tail
<1>4. batch'[t] = head /\ \A u \in Threads : u # t => batch'[u] = batch[u]
  BY <1>1, <1>2
<1>5. taken' \in Seq(Queries) /\ taken' \o pending' = taken \o pending
  <2>1. taken \o head \in Seq(Queries)
    BY <1>1, <1>3, ConcatProperties
  <2>2. (taken \o head) \o tail = taken \o (head \o tail)
    <3>1. taken \in Seq(Queries) /\ head \in Seq(Queries) /\ tail \in Seq(Queries)
      BY <1>1, <1>3
    <3> QED BY ONLY <3>1, ConcatAssociative
  <2> QED BY <1>2, <1>3, <2>1, <2>2
<1>6. ToSet(batch[t]) = {}
  BY DEF ToSet
<1>7. QueriesAreApart'
  <2>1. \A u \in Threads : ToSet(pending') \intersect ToSet(batch'[u]) = {}
    BY <1>2, <1>3, <1>4 DEF QueriesAreApart
  <2>2. \A u, v \in Threads : u # v => ToSet(batch'[u]) \intersect ToSet(batch'[v]) = {}
    <3> SUFFICES ASSUME NEW u \in Threads, NEW v \in Threads, u # v
                 PROVE  ToSet(batch'[u]) \intersect ToSet(batch'[v]) = {}
      OBVIOUS
    <3>1. \A w \in Threads : ToSet(head) \intersect ToSet(batch[w]) = {}
      BY <1>3 DEF QueriesAreApart
    <3>2. ToSet(batch[u]) \intersect ToSet(batch[v]) = {}
      BY DEF QueriesAreApart
    <3> QED BY <1>4, <3>1, <3>2
  <2> QED BY <1>2, <1>3, <2>1, <2>2 DEF QueriesAreApart
<1>8. Waiters'
  <2> SUFFICES ASSUME NEW q \in Queries
               PROVE  future'[q] = Waiting <=>
                          q \in ToSet(pending') \/ \E u \in Threads : q \in ToSet(batch'[u])
    BY DEF Waiters
  <2>1. (\E u \in Threads : q \in ToSet(batch'[u])) <=>
            q \in ToSet(head) \/ \E u \in Threads : q \in ToSet(batch[u])
    BY <1>4, <1>6
  <2> QED BY <1>2, <1>3, <2>1 DEF Waiters
<1> QED BY <1>1, <1>2, <1>3, <1>4, <1>5, <1>7, <1>8

-----------------------------------------------------------------------------
(* The invariant. *)

\* The search of a thread answers its batch and leaves it empty.
LEMMA SearchKeeps ==
    ASSUME BatcherTypeOK, QueriesAreApart, Waiters, NEW t \in Threads, SettlesExactly(batch[t]),
           batch' = [batch EXCEPT ![t] = <<>>], pending' = pending
    PROVE  QueriesAreApart' /\ Waiters' /\ batch' \in [Threads -> Seq(Queries)]
<1>1. batch'[t] = <<>> /\ \A u \in Threads : u # t => batch'[u] = batch[u]
  BY DEF BatcherTypeOK
<1>2. batch' \in [Threads -> Seq(Queries)] /\ ToSet(batch'[t]) = {}
  BY <1>1 DEF BatcherTypeOK, ToSet
<1>3. QueriesAreApart'
  BY <1>1, <1>2 DEF QueriesAreApart
<1>4. Waiters'
  <2> SUFFICES ASSUME NEW q \in Queries
               PROVE  future'[q] = Waiting <=>
                          q \in ToSet(pending) \/ \E u \in Threads : q \in ToSet(batch'[u])
    BY DEF Waiters
  <2>1. CASE q \in ToSet(batch[t])
    <3>1. q \notin ToSet(pending) /\ \A u \in Threads : q \notin ToSet(batch'[u])
      BY <1>1, <1>2, <2>1 DEF QueriesAreApart
    <3> QED BY <2>1, <3>1 DEF SettlesExactly
  <2>2. CASE q \notin ToSet(batch[t])
    BY <1>1, <1>2, <2>2 DEF SettlesExactly, Waiters
  <2> QED BY <2>1, <2>2
<1> QED BY <1>2, <1>3, <1>4

\* The worker, with the mutex, takes at most a batch, or nothing.
LEMMA ProceedKeeps ==
    ASSUME BatcherInv, Proceed, worker \in {"lock", "asleep"}, UNCHANGED <<future, life, arrived>>
    PROVE  BatcherInv'
<1> USE BatcherAssumption DEF BatcherInv
<1>0. Worker \in Threads /\ batch[Worker] = <<>> /\ Len(pending) \in Nat
  BY DEF Threads, WorkerIsFree, BatcherTypeOK
<1>1. CASE pending = <<>>
  <2>1. /\ worker' \in {"loop", "exited"} /\ UNCHANGED <<pending, batch, taken>>
    BY <1>1 DEF Proceed, GoTo
  <2> QED BY <1>0, <2>1 DEF BatcherTypeOK, QueriesAreApart, Waiters, InOrder, WorkerIsFree, life
<1>2. CASE pending # <<>>
  <2>1. BatchSize \in 0..Len(pending) /\ BatchSize <= MaxBatch
    BY <1>0 DEF BatchSize
  <2>2. Take(Worker, BatchSize) /\ worker' = "search"
    BY <1>2 DEF Proceed, GoTo
  <2>3. /\ pending' \in Seq(Queries) /\ taken' \in Seq(Queries)
        /\ batch' \in [Threads -> Seq(Queries)] /\ Len(batch'[Worker]) = BatchSize
        /\ taken' \o pending' = taken \o pending
        /\ QueriesAreApart' /\ Waiters'
    BY <1>0, <2>1, <2>2, TakeMoves
  <2>4. BatcherTypeOK'
    BY <2>1, <2>2, <2>3 DEF BatcherTypeOK, life
  <2> QED BY <2>2, <2>3, <2>4 DEF InOrder, WorkerIsFree, life
<1> QED BY <1>1, <1>2

LEMMA BatcherKeeps ==
    ASSUME BatcherInv, [BatcherNext]_batcherVars
    PROVE  BatcherInv'
<1> USE BatcherAssumption DEF BatcherInv
<1>0. Worker \in Threads /\ Flushers \subseteq Threads /\ Len(pending) \in Nat
  BY DEF Threads, BatcherTypeOK
<1>1. ASSUME NEW q \in Queries, Enqueue(q)
      PROVE  BatcherInv'
  <2>1. /\ pending' = Append(pending, q) /\ arrived' = Append(arrived, q)
        /\ future[q] = Unsent /\ future' = [future EXCEPT ![q] = Waiting]
        /\ UNCHANGED <<worker, batch, life, taken>> /\ owner # "gone"
    BY <1>1 DEF Enqueue, Usable
  <2>2. /\ pending \in Seq(Queries) /\ arrived \in Seq(Queries) /\ taken \in Seq(Queries)
        /\ future \in [Queries -> Outcomes]
    BY DEF BatcherTypeOK
  <2>3. /\ pending' \in Seq(Queries) /\ arrived' \in Seq(Queries)
        /\ DOMAIN pending' = DOMAIN pending \union {Len(pending) + 1}
        /\ DOMAIN pending = 1..Len(pending)
        /\ pending'[Len(pending) + 1] = q
        /\ \A i \in DOMAIN pending : pending'[i] = pending[i]
    BY <2>1, <2>2, AppendProperties
  <2>4. ToSet(pending') = ToSet(pending) \union {q}
    BY <2>1, <2>2, SetOfAppend
  <2>5. q \notin ToSet(pending) /\ \A t \in Threads : q \notin ToSet(batch[t])
    BY <2>1, FutureKinds DEF Waiters
  <2>6. \A i \in DOMAIN pending : pending[i] # q
    BY <2>5 DEF ToSet
  <2>7. BatcherTypeOK'
    BY <2>1, <2>2, <2>3 DEF BatcherTypeOK, Outcomes, life
  <2>8. QueriesAreApart'
    <3>1. \A i, j \in DOMAIN pending' : pending'[i] = pending'[j] => i = j
      BY <2>3, <2>6 DEF QueriesAreApart
    <3>2. \A t \in Threads : ToSet(pending') \intersect ToSet(batch'[t]) = {}
      BY <2>1, <2>4, <2>5 DEF QueriesAreApart
    <3> QED BY <2>1, <3>1, <3>2 DEF QueriesAreApart
  <2>9. Waiters'
    BY <2>1, <2>2, <2>4, <2>5 DEF Waiters
  <2>10. InOrder'
    <3>1. taken \o Append(pending, q) = Append(taken \o pending, q)
      <4>1. Append(pending, q) = pending \o <<q>> /\ <<q>> \in Seq(Queries)
        BY <2>2, AppendIsConcat
      <4>2. taken \o pending \in Seq(Queries)
        BY <2>2, ConcatProperties
      <4>3. Append(taken \o pending, q) = (taken \o pending) \o <<q>>
        BY ONLY <4>2, AppendIsConcat, q \in Queries
      <4>4. (taken \o pending) \o <<q>> = taken \o (pending \o <<q>>)
        BY ONLY <2>2, <4>1, ConcatAssociative
      <4> QED BY <4>1, <4>3, <4>4
    <3> QED BY <2>1, <3>1 DEF InOrder
  <2> QED BY <2>1, <2>7, <2>8, <2>9, <2>10 DEF WorkerIsFree
<1>2. CASE LoopTest
  <2>1. worker = "loop" /\ worker' \in {"lock", "exited"}
        /\ UNCHANGED <<pending, batch, future, life, arrived, taken>>
    BY <1>2 DEF LoopTest, GoTo
  <2> QED BY <2>1 DEF BatcherTypeOK, QueriesAreApart, Waiters, InOrder, WorkerIsFree, life
<1>3. CASE WaitFor
  <2>1. CASE Due
    BY <1>3, <2>1, ProceedKeeps DEF WaitFor
  <2>2. CASE ~Due
    <3>1. worker = "lock" /\ worker' = "asleep"
          /\ UNCHANGED <<pending, batch, future, life, arrived, taken>>
      BY <1>3, <2>2 DEF WaitFor, GoTo
    <3> QED BY <3>1 DEF BatcherTypeOK, QueriesAreApart, Waiters, InOrder, WorkerIsFree, life
  <2> QED BY <2>1, <2>2
<1>4. CASE WakeUp
  BY <1>4, ProceedKeeps DEF WakeUp
<1>5. CASE Search
  <2>1. SettlesExactly(batch[Worker])
    BY <1>0, <1>5, SearchSettles DEF Search
  <2>2. QueriesAreApart' /\ Waiters' /\ batch' \in [Threads -> Seq(Queries)]
    BY <1>0, <1>5, <2>1, SearchKeeps DEF Search
  <2>3. batch'[Worker] = <<>> /\ worker' = "loop" /\ UNCHANGED <<pending, life, arrived, taken>>
    BY <1>0, <1>5 DEF Search, GoTo, BatcherTypeOK
  <2>4. BatcherTypeOK'
    BY <2>1, <2>2, <2>3 DEF BatcherTypeOK, SettlesExactly, life
  <2> QED BY <2>2, <2>3, <2>4 DEF InOrder, WorkerIsFree, life
<1>6. ASSUME NEW t \in Flushers, Flush(t)
      PROVE  BatcherInv'
  <2>1. Take(t, Len(pending)) /\ batch[t] = <<>> /\ t \in Threads /\ t # Worker
        /\ flushes' = flushes + 1 /\ flushes < MaxFlushes
        /\ UNCHANGED <<running, searching, worker, owner, future, starts, arrived>>
    BY <1>0, <1>6 DEF Flush
  <2>2. /\ pending' \in Seq(Queries) /\ taken' \in Seq(Queries)
        /\ batch' \in [Threads -> Seq(Queries)] /\ batch'[Worker] = batch[Worker]
        /\ taken' \o pending' = taken \o pending
        /\ QueriesAreApart' /\ Waiters'
    <3>1. Len(pending) \in 0..Len(pending) /\ future' = future
      BY <1>0, <2>1
    <3> QED BY <1>0, <2>1, <3>1, TakeMoves
  <2>3. flushes' \in 0..MaxFlushes
    BY <2>1 DEF BatcherTypeOK
  <2>4. BatcherTypeOK'
    BY <2>1, <2>2, <2>3 DEF BatcherTypeOK
  <2> QED BY <2>1, <2>2, <2>4 DEF InOrder, WorkerIsFree
<1>7. ASSUME NEW t \in Flushers, FlushSearch(t)
      PROVE  BatcherInv'
  <2>1. t \in Threads /\ t # Worker /\ UNCHANGED <<pending, worker, life, arrived, taken>>
    BY <1>0, <1>7 DEF FlushSearch
  <2>2. SettlesExactly(batch[t])
    BY <1>7, <2>1, SearchSettles DEF FlushSearch
  <2>3. QueriesAreApart' /\ Waiters' /\ batch' \in [Threads -> Seq(Queries)]
    BY <1>7, <2>1, <2>2, SearchKeeps DEF FlushSearch
  <2>4. batch'[Worker] = batch[Worker]
    BY <1>0, <1>7, <2>1 DEF FlushSearch, BatcherTypeOK
  <2>5. BatcherTypeOK'
    BY <2>1, <2>2, <2>3, <2>4 DEF BatcherTypeOK, SettlesExactly, life
  <2> QED BY <2>1, <2>3, <2>4, <2>5 DEF InOrder, WorkerIsFree, life
<1>8. CASE SetSearchFn \/ Start \/ Stop
  <2>1. /\ UNCHANGED <<pending, batch, future, arrived, taken>>
        /\ owner = "idle" /\ owner' \in {"idle", "stopping", "destroying"}
        /\ worker' = worker \/ (worker = "none" /\ worker' = "loop")
    BY <1>8 DEF SetSearchFn, Start, Stop, GoTo
  <2>2. running' \in BOOLEAN /\ searching' \in BOOLEAN
    BY <1>8 DEF SetSearchFn, Start, Stop, Signal, BatcherTypeOK
  <2>3. starts' \in 0..MaxStarts /\ flushes' \in 0..MaxFlushes
    BY <1>8 DEF SetSearchFn, Start, Stop, BatcherTypeOK
  <2>4. BatcherTypeOK'
    BY <2>1, <2>2, <2>3 DEF BatcherTypeOK
  <2> QED BY <2>1, <2>4 DEF QueriesAreApart, Waiters, InOrder, WorkerIsFree
<1>9. CASE Join
  <2>1. /\ owner \in {"stopping", "destroying"} /\ worker \in {"exited", "none"}
        /\ worker' = "none" /\ UNCHANGED <<running, searching, batch, starts, flushes, arrived, taken>>
    BY <1>9 DEF Join, Joinable, GoTo
  <2>2. CASE owner = "stopping"
    <3>1. owner' = "idle" /\ UNCHANGED <<pending, future>>
      BY <1>9, <2>2 DEF Join
    <3> QED BY <2>1, <2>2, <3>1 DEF BatcherTypeOK, QueriesAreApart, Waiters, InOrder, WorkerIsFree
  <2>3. CASE owner = "destroying"
    <3>1. owner' = "gone" /\ pending' = <<>> /\ SettlesExactly(pending)
      BY <1>9, <2>3, DestructorSettles DEF Join
    <3>2. BatcherTypeOK'
      BY <2>1, <3>1 DEF BatcherTypeOK, SettlesExactly
    <3>3. ToSet(pending') = {} /\ DOMAIN pending' = {}
      BY <3>1 DEF ToSet
    <3>4. QueriesAreApart'
      BY <2>1, <3>3 DEF QueriesAreApart
    <3>5. Waiters'
      BY <2>1, <3>1, <3>3 DEF Waiters, SettlesExactly, QueriesAreApart
    <3> QED BY <2>1, <3>1, <3>2, <3>4, <3>5 DEF InOrder, WorkerIsFree
  <2> QED BY <2>1, <2>2, <2>3
<1>10. CASE UNCHANGED batcherVars
  BY <1>10 DEF batcherVars, life, BatcherTypeOK, QueriesAreApart, Waiters, InOrder, WorkerIsFree
<1> QED
  BY <1>1, <1>2, <1>3, <1>4, <1>5, <1>6, <1>7, <1>8, <1>9, <1>10 DEF BatcherNext, WorkerStep

LEMMA BatcherInitially ==
    ASSUME BatcherInit
    PROVE  BatcherInv
<1> USE BatcherAssumption
<1>1. ToSet(pending) = {} /\ \A t \in Threads : ToSet(batch[t]) = {} /\ batch[t] = <<>>
  BY DEF BatcherInit, ToSet
<1>2. starts \in 0..MaxStarts /\ flushes \in 0..MaxFlushes
  BY DEF BatcherInit
<1>3. pending \in Seq(Queries) /\ arrived \in Seq(Queries) /\ taken \in Seq(Queries)
      /\ batch \in [Threads -> Seq(Queries)] /\ DOMAIN pending = {}
  BY DEF BatcherInit
<1>4. Worker \in Threads /\ Len(batch[Worker]) <= MaxBatch
  BY <1>1 DEF Threads
<1>5. BatcherTypeOK
  BY <1>2, <1>3, <1>4 DEF BatcherInit, BatcherTypeOK, Outcomes
<1>6. QueriesAreApart
  BY <1>1, <1>3 DEF QueriesAreApart
<1>7. Waiters
  BY <1>1, FutureKinds DEF BatcherInit, Waiters
<1>8. taken \o pending = arrived
  BY DEF BatcherInit
<1> QED BY <1>1, <1>4, <1>5, <1>6, <1>7, <1>8 DEF BatcherInv, InOrder, WorkerIsFree

\* Queries, batches and futures belong together in every reachable state.
THEOREM BatchesBelong == BatcherSpec => []BatcherInv
<1>1. BatcherInv /\ [BatcherNext]_batcherVars => BatcherInv'
  BY BatcherKeeps
<1> QED BY <1>1, BatcherInitially, PTL DEF BatcherSpec

\* Queries leave the batcher in the order of their arrival, and a future that is
\* not settled belongs to a query that is pending or in exactly one batch.
THEOREM QueriesAreKept == BatcherSpec => []NoQueryIsLost
<1>1. BatcherInv => NoQueryIsLost
  <2> SUFFICES ASSUME BatcherInv PROVE NoQueryIsLost
    OBVIOUS
  <2>1. ToSet(pending) \subseteq Queries /\ \A t \in Threads : ToSet(batch[t]) \subseteq Queries
    BY SetOfSeq DEF BatcherInv, BatcherTypeOK
  <2> HIDE DEF BatcherInv
  <2>2. {q \in Queries : future[q] = Waiting} =
            ToSet(pending) \union UNION {ToSet(batch[t]) : t \in Threads}
    BY <2>1 DEF BatcherInv, Waiters
  <2> QED BY <2>2 DEF BatcherInv, InOrder, NoQueryIsLost
<1> QED BY <1>1, BatchesBelong, PTL

\* Only what waits is settled.
LEMMA SettledStays ==
    ASSUME BatcherInv, [BatcherNext]_batcherVars, NEW q \in Queries, future[q] \notin {Unsent, Waiting}
    PROVE  future'[q] = future[q]
<1>1. q \notin ToSet(pending) /\ \A t \in Threads : q \notin ToSet(batch[t])
  BY DEF BatcherInv, Waiters
<1>2. ASSUME NEW qs, SettlesExactly(qs), q \notin ToSet(qs)
      PROVE  future'[q] = future[q]
  BY <1>2 DEF SettlesExactly
<1>3. CASE \E p \in Queries : Enqueue(p)
  BY <1>3 DEF Enqueue, BatcherInv, BatcherTypeOK
<1>4. CASE Search
  BY <1>1, <1>2, <1>4, SearchSettles DEF Search, BatcherInv, Threads
<1>5. CASE \E t \in Flushers : FlushSearch(t)
  BY <1>1, <1>2, <1>5, SearchSettles DEF FlushSearch, BatcherInv, Threads
<1>6. CASE Join
  BY <1>1, <1>2, <1>6, DestructorSettles DEF Join, BatcherInv
<1>7. CASE \/ LoopTest \/ WaitFor \/ WakeUp \/ SetSearchFn \/ Start \/ Stop
           \/ \E t \in Flushers : Flush(t)
           \/ UNCHANGED batcherVars
  BY <1>7 DEF LoopTest, WaitFor, WakeUp, SetSearchFn, Start, Stop, Flush, batcherVars
<1> QED BY <1>3, <1>4, <1>5, <1>6, <1>7 DEF BatcherNext, WorkerStep

\* No promise is set twice: not by a flush beside the worker, nor by the search
\* that threw after part of a batch, nor by the destructor.
THEOREM PromisesAreSetOnce == BatcherSpec => AnsweredOnce
<1>1. BatcherInv /\ [BatcherNext]_batcherVars =>
          [\A q \in Queries : future[q] \notin {Unsent, Waiting} => future'[q] = future[q]]_batcherVars
  BY SettledStays
<1> QED BY <1>1, BatchesBelong, PTL DEF BatcherSpec, AnsweredOnce
=============================================================================
