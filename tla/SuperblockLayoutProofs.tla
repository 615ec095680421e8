------------------------- MODULE SuperblockLayoutProofs -------------------------
(***************************************************************************)
(* Proofs about SuperblockLayout: for every size class of a2alloc.c and any  *)
(* number of blocks, a superblock that is accepted has a block to give, and  *)
(* the places given keep what an allocator promises.                         *)
(*                                                                           *)
(* Block k of a superblock is bytes k * size_class .. (k + 1) * size_class - 1. *)
(* The invariant says that every block of the program lies in one of them,   *)
(* that no two lie in the same one, and that the map is exactly these and    *)
(* the reserved ones; or else the header is lost, in one of the classes that *)
(* reserve no block for it.                                                  *)
(***************************************************************************)
EXTENDS SuperblockLayout, FiniteSetTheorems, TLAPS

\* x lies in block k.
InBlock(x, k) == k * size_class <= x.at /\ x.at + x.len <= (k + 1) * size_class

Numbers == 0 .. Capacity - 1

BlocksInv ==
  /\ size_class \in SizeClasses
  /\ block_map \subseteq Numbers /\ Reserved(size_class) \subseteq block_map
  /\ used_blocks = Cardinality(block_map)
  /\ live \subseteq [at : Nat, len : Requests]

LiveInv ==
  /\ \A x \in live : \E k \in block_map \ Reserved(size_class) : InBlock(x, k)
  /\ \A x, y \in live : \A k \in block_map : InBlock(x, k) /\ InBlock(y, k) => x = y

IInv ==
  /\ size_class \in SizeClasses /\ covered \in BOOLEAN
  /\ IF covered THEN size_class >= HEADER * 2 ELSE BlocksInv /\ LiveInv

-----------------------------------------------------------------------------
(* The size classes. *)

\* A superblock is a whole number of blocks, and those reserved cover its header.
LEMMA ClassFacts ==
  ASSUME NEW c \in block_sizes
  PROVE  /\ c \in Nat \ {0} /\ c >= 8 /\ c <= 2048
         /\ SB_SIZE \div c \in Nat /\ SB_SIZE \div c >= 2 /\ (SB_SIZE \div c) * c = SB_SIZE
         /\ c <= 512 => SB_SIZE \div c >= 8
         /\ c \div 2 > 0
         /\ c < HEADER * 2 =>
              /\ (HEADER + c - 1) \div c \in 1 .. (SB_SIZE \div c) - 1
              /\ ((HEADER + c - 1) \div c) * c >= HEADER
         /\ c - HEADER > c \div 2 => c >= HEADER * 2
<1>1. CASE c = 8    BY <1>1 DEF SB_SIZE, HEADER
<1>2. CASE c = 16   BY <1>2 DEF SB_SIZE, HEADER
<1>3. CASE c = 32   BY <1>3 DEF SB_SIZE, HEADER
<1>4. CASE c = 64   BY <1>4 DEF SB_SIZE, HEADER
<1>5. CASE c = 128  BY <1>5 DEF SB_SIZE, HEADER
<1>6. CASE c = 256  BY <1>6 DEF SB_SIZE, HEADER
<1>7. CASE c = 512  BY <1>7 DEF SB_SIZE, HEADER
<1>8. CASE c = 1024 BY <1>8 DEF SB_SIZE, HEADER
<1>9. CASE c = 2048 BY <1>9 DEF SB_SIZE, HEADER
<1> QED  BY <1>1, <1>2, <1>3, <1>4, <1>5, <1>6, <1>7, <1>8, <1>9 DEF block_sizes

\* The quotient of an address in block k is k.
LEMMA NumberOfAddress ==
  ASSUME NEW c \in block_sizes, NEW k \in Nat, NEW a \in Nat, k * c <= a, a < (k + 1) * c
  PROVE  a \div c = k
<1>1. CASE c = 8    BY <1>1
<1>2. CASE c = 16   BY <1>2
<1>3. CASE c = 32   BY <1>3
<1>4. CASE c = 64   BY <1>4
<1>5. CASE c = 128  BY <1>5
<1>6. CASE c = 256  BY <1>6
<1>7. CASE c = 512  BY <1>7
<1>8. CASE c = 1024 BY <1>8
<1>9. CASE c = 2048 BY <1>9
<1> QED  BY <1>1, <1>2, <1>3, <1>4, <1>5, <1>6, <1>7, <1>8, <1>9 DEF block_sizes

\* Multiples of a size class are ordered as the factors are.
LEMMA BlocksApart ==
  ASSUME NEW c \in block_sizes, NEW j \in Nat, NEW k \in Nat, j < k
  PROVE  (j + 1) * c <= k * c /\ k * c \in Nat /\ (k + 1) * c = k * c + c
<1>1. CASE c = 8    BY <1>1
<1>2. CASE c = 16   BY <1>2
<1>3. CASE c = 32   BY <1>3
<1>4. CASE c = 64   BY <1>4
<1>5. CASE c = 128  BY <1>5
<1>6. CASE c = 256  BY <1>6
<1>7. CASE c = 512  BY <1>7
<1>8. CASE c = 1024 BY <1>8
<1>9. CASE c = 2048 BY <1>9
<1> QED  BY <1>1, <1>2, <1>3, <1>4, <1>5, <1>6, <1>7, <1>8, <1>9 DEF block_sizes

LEMMA MultipleFacts ==
  ASSUME NEW c \in block_sizes, NEW k \in Nat
  PROVE  k * c \in Nat /\ (k + 1) * c = k * c + c
<1>1. c \in Nat
  BY ClassFacts
<1> QED  BY <1>1

LEMMA LeastNumber ==
  ASSUME NEW S, S \subseteq Nat, S # {}
  PROVE  \E x \in S : \A y \in S : x <= y
<1> DEFINE Less == {ss \in Nat \X Nat : ss[1] < ss[2]}
<1>1. IsWellFoundedOn(Less, Nat)
  BY NatLessThanWellFounded DEF OpToRel
<1>2. \E x \in S : \A y \in S : ~ (<<y, x>> \in Less)
  <2> HIDE DEF Less
  <2> QED  BY <1>1, WFMin
<1>3. PICK x \in S : \A y \in S : ~ (<<y, x>> \in Less)
  BY <1>2
<1>4. ASSUME NEW y \in S PROVE x <= y
  <2>1. <<y, x>> \in Less <=> y < x
    OBVIOUS
  <2> QED  BY <1>3, <2>1
<1> QED  BY <1>4

-----------------------------------------------------------------------------
(* One superblock. *)

LEMMA LayoutFacts ==
  ASSUME BlocksInv
  PROVE  /\ size_class \in block_sizes /\ size_class \in Nat \ {0} /\ HEADER = 104
         /\ Capacity \in Nat /\ Capacity >= 2 /\ Capacity * size_class = SB_SIZE
         /\ Numbers \subseteq Bits /\ Numbers \subseteq Nat /\ Bits \subseteq Nat
         /\ IsFiniteSet(block_map) /\ used_blocks \in Nat
         /\ Requests \subseteq Nat \ {0} /\ \A sz \in Requests : sz <= size_class
<1>1. size_class \in block_sizes
  BY LayoutAssumption DEF BlocksInv
<1>2. /\ size_class \in Nat \ {0} /\ size_class >= 8
      /\ Capacity \in Nat /\ Capacity >= 2 /\ Capacity * size_class = SB_SIZE
      /\ size_class \div 2 > 0
  BY <1>1, ClassFacts DEF Capacity
<1>3. Numbers \subseteq Bits /\ Numbers \subseteq Nat /\ Bits \subseteq Nat
  BY <1>2 DEF Numbers, Bits
<1>4. IsFiniteSet(block_map) /\ used_blocks \in Nat
  <2>1. IsFiniteSet(Numbers)
    BY <1>2, FS_Interval DEF Numbers
  <2>2. IsFiniteSet(block_map)
    BY <2>1, FS_Subset DEF BlocksInv
  <2> QED  BY <2>2, FS_CardinalityType DEF BlocksInv
<1>5. Requests \subseteq Nat \ {0} /\ \A sz \in Requests : sz <= size_class
  <2> SUFFICES ASSUME NEW sz \in Requests PROVE sz \in Nat \ {0} /\ sz <= size_class
    OBVIOUS
  <2>1. sz \in {size_class, size_class - HEADER} /\ sz > size_class \div 2
    BY DEF Requests
  <2>2. size_class \div 2 \in Int
    BY <1>2
  <2> QED  BY <1>2, <2>1, <2>2 DEF HEADER
<1> QED  BY <1>1, <1>2, <1>3, <1>4, <1>5 DEF HEADER

\* Behind the reserved blocks there is no header.
LEMMA ReservedFacts ==
  ASSUME BlocksInv
  PROVE  /\ Reserved(size_class) \subseteq Numbers
         /\ size_class < HEADER * 2 =>
              0 \in Reserved(size_class) /\
              \A k \in Numbers \ Reserved(size_class) : k * size_class >= HEADER
<1> DEFINE n == (HEADER + size_class - 1) \div size_class
<1>1. /\ size_class \in block_sizes /\ size_class \in Nat \ {0} /\ Capacity \in Nat
      /\ HEADER = 104
  BY LayoutFacts
<1>2. CASE size_class < HEADER * 2
  <2>1. n \in 1 .. Capacity - 1 /\ n * size_class >= HEADER
    BY <1>1, <1>2, ClassFacts DEF Capacity
  <2>2. Reserved(size_class) = 0 .. n - 1
    BY <1>2 DEF Reserved
  <2> HIDE DEF n
  <2>3. Reserved(size_class) \subseteq Numbers /\ 0 \in Reserved(size_class)
    BY <1>1, <2>1, <2>2 DEF Numbers
  <2>4. ASSUME NEW k \in Numbers \ Reserved(size_class) PROVE k * size_class >= HEADER
    <3>1. k \in Nat /\ k >= n /\ n \in Nat
      BY <1>1, <2>1, <2>2 DEF Numbers
    <3>2. CASE k = n
      BY <2>1, <3>2
    <3>3. CASE k > n
      <4>1. (n + 1) * size_class <= k * size_class /\ (n + 1) * size_class = n * size_class + size_class
        BY <1>1, <3>1, <3>3, BlocksApart, MultipleFacts
      <4>2. n * size_class \in Nat /\ k * size_class \in Nat
        BY <1>1, <3>1, MultipleFacts
      <4> QED  BY <1>1, <2>1, <4>1, <4>2
    <3> QED  BY <3>1, <3>2, <3>3
  <2> QED  BY <2>3, <2>4
<1>3. CASE ~ (size_class < HEADER * 2)
  BY <1>3 DEF Reserved
<1> QED  BY <1>2, <1>3

\* The blocks in the map leave one free when the count says so.
LEMMA FreeNumber ==
  ASSUME BlocksInv, used_blocks < Capacity
  PROVE  \E k \in Numbers : k \notin block_map
<1>1. Capacity \in Nat /\ Capacity >= 2
  BY LayoutFacts
<1>2. Cardinality(Numbers) = Capacity
  BY <1>1, FS_Interval DEF Numbers
<1> SUFFICES ASSUME Numbers \subseteq block_map PROVE FALSE
  OBVIOUS
<1>3. block_map = Numbers
  BY DEF BlocksInv
<1> QED  BY <1>1, <1>2, <1>3 DEF BlocksInv

\* The search of mm_malloc ends at a free block of the superblock.
LEMMA FindsFree ==
  ASSUME BlocksInv, NEW sz, ByMap(sz)
  PROVE  find_block \in Numbers /\ find_block \notin block_map /\ find_block # -1
<1>1. /\ Capacity \in Nat /\ Capacity >= 2 /\ Numbers \subseteq Bits /\ Bits \subseteq Nat
      /\ Numbers \subseteq Nat /\ used_blocks \in Nat
  BY LayoutFacts
<1>2. used_blocks < Capacity
  BY <1>1 DEF ByMap, HasSpace
<1>3. PICK f \in Numbers : f \notin block_map
  BY <1>2, FreeNumber
<1>4. CASE size_class > 512 /\ block_map = {}
  <2>1. find_block = 1
    BY <1>4 DEF find_block
  <2> QED  BY <1>1, <1>4, <2>1 DEF Numbers
<1>5. CASE ~ (size_class > 512 /\ block_map = {})
  <2> DEFINE S == Bits \ block_map
             Good(k) == k \notin block_map /\ \A j \in 0 .. k - 1 : j \in block_map
  <2>1. S # {} /\ S \subseteq Nat /\ f \in S
    BY <1>1, <1>3
  <2>2. PICK x \in S : \A y \in S : x <= y
    BY <2>1, LeastNumber
  <2>3. Good(x)
    <3>1. ASSUME NEW j \in 0 .. x - 1 PROVE j \in block_map
      <4>1. j \in Bits /\ j < x
        BY <1>1, <2>2, <3>1 DEF Bits
      <4> QED  BY <1>1, <2>1, <2>2, <4>1
    <3> QED  BY <2>2, <3>1
  <2>4. find_block = CHOOSE k \in Bits : Good(k)
    BY <1>5, <2>1 DEF find_block
  <2>5. find_block \in Bits /\ Good(find_block)
    <3> HIDE DEF Good
    <3> QED  BY <2>2, <2>3, <2>4
  <2>6. find_block <= f
    <3>1. find_block \in Nat /\ f \in Nat
      BY <1>1, <1>3, <2>5
    <3>2. ~ (f \in 0 .. find_block - 1)
      BY <1>3, <2>5
    <3> QED  BY <3>1, <3>2
  <2> QED  BY <1>1, <1>3, <2>5, <2>6 DEF Numbers
<1> QED  BY <1>4, <1>5

-----------------------------------------------------------------------------
(* Places. *)

\* Two stretches of bytes in different blocks do not overlap.
LEMMA DifferentBlocks ==
  ASSUME BlocksInv, NEW x \in [at : Nat, len : Nat], NEW y \in [at : Nat, len : Nat],
         NEW j \in Nat, NEW k \in Nat, j # k, InBlock(x, j), InBlock(y, k)
  PROVE  ~ Malloc!Overlap(x, y)
<1>1. size_class \in block_sizes /\ size_class \in Nat
  BY LayoutFacts
<1>2. /\ j * size_class \in Nat /\ (j + 1) * size_class = j * size_class + size_class
      /\ k * size_class \in Nat /\ (k + 1) * size_class = k * size_class + size_class
  BY <1>1, MultipleFacts
<1>3. x.at \in Nat /\ x.len \in Nat /\ y.at \in Nat /\ y.len \in Nat
  OBVIOUS
<1>4. CASE j < k
  <2>1. (j + 1) * size_class <= k * size_class
    BY <1>1, <1>4, BlocksApart
  <2> QED  BY <1>1, <1>2, <1>3, <2>1 DEF InBlock, Malloc!Overlap
<1>5. CASE k < j
  <2>1. (k + 1) * size_class <= j * size_class
    BY <1>1, <1>5, BlocksApart
  <2> QED  BY <1>1, <1>2, <1>3, <2>1 DEF InBlock, Malloc!Overlap
<1> QED  BY <1>4, <1>5

\* A block of the superblock ends in its page.
LEMMA EndsInPage ==
  ASSUME BlocksInv, NEW k \in Numbers
  PROVE  (k + 1) * size_class <= SB_SIZE
<1>1. /\ size_class \in block_sizes /\ size_class \in Nat /\ Capacity \in Nat
      /\ Capacity * size_class = SB_SIZE /\ k \in Nat
  BY LayoutFacts
<1>2. k + 1 = Capacity \/ k + 1 < Capacity
  BY <1>1 DEF Numbers
<1>3. CASE k + 1 = Capacity
  BY <1>1, <1>3
<1>4. CASE k + 1 < Capacity
  <2>1. (k + 1 + 1) * size_class <= Capacity * size_class
    BY <1>1, <1>4, BlocksApart
  <2>2. (k + 1 + 1) * size_class = (k + 1) * size_class + size_class
    BY <1>1, MultipleFacts
  <2>3. (k + 1) * size_class \in Nat
    BY <1>1, MultipleFacts
  <2> QED  BY <1>1, <2>1, <2>2, <2>3 DEF SB_SIZE
<1> QED  BY <1>2, <1>3, <1>4

\* Whichever way mm_malloc places a block, it is in a free block of the superblock.
LEMMA Placed ==
  ASSUME BlocksInv, NEW sz \in Requests, mm_malloc(sz)
  PROVE  \E k \in Numbers \ block_map, at \in Nat :
           /\ Take(k, at, sz) /\ InBlock([at |-> at, len |-> sz], k)
           /\ at >= HEADER \/ size_class >= HEADER * 2
<1>1. /\ size_class \in block_sizes /\ size_class \in Nat \ {0} /\ Capacity \in Nat
      /\ Capacity >= 2 /\ HEADER = 104 /\ sz \in Nat \ {0} /\ sz <= size_class
      /\ Numbers \subseteq Nat
  BY LayoutFacts
<1>2. CASE FirstIsFree /\ FitsBehindHeader(sz) /\ Take(0, HEADER, sz)
  <2>1. ~ (size_class < HEADER * 2)
    BY <1>2, ReservedFacts DEF FirstIsFree, BlocksInv
  <2>2. InBlock([at |-> HEADER, len |-> sz], 0)
    BY <1>1, <1>2, <2>1 DEF InBlock, FitsBehindHeader
  <2>3. 0 \in Numbers \ block_map /\ HEADER \in Nat
    BY <1>1, <1>2 DEF FirstIsFree, Numbers
  <2> QED  BY <1>1, <1>2, <2>2, <2>3
<1>3. CASE ByMap(sz) /\ Take(find_block, find_block * size_class, sz)
  <2>1. find_block \in Numbers /\ find_block \notin block_map
    BY <1>3, FindsFree
  <2> DEFINE k == find_block
  <2>2. /\ k \in Numbers \ block_map /\ k \in Nat
        /\ Take(k, k * size_class, sz)
    BY <1>1, <1>3, <2>1
  <2> HIDE DEF k
  <2>3. k * size_class \in Nat /\ (k + 1) * size_class = k * size_class + size_class
    BY <1>1, <2>2, MultipleFacts
  <2>4. InBlock([at |-> k * size_class, len |-> sz], k)
    BY <1>1, <2>3 DEF InBlock
  <2>5. k * size_class >= HEADER \/ size_class >= HEADER * 2
    BY <1>1, <2>2, ReservedFacts DEF BlocksInv
  <2> QED  BY <2>2, <2>3, <2>4, <2>5
<1> QED  BY <1>2, <1>3 DEF mm_malloc

-----------------------------------------------------------------------------
(* The invariant. *)

LEMMA InitInv == Init => IInv
<1> SUFFICES ASSUME Init PROVE IInv
  OBVIOUS
<1>1. size_class \in SizeClasses /\ size_class \in block_sizes /\ live = {}
  BY LayoutAssumption DEF Init
<1> DEFINE n == (HEADER + size_class - 1) \div size_class
<1>2. Reserved(size_class) \subseteq Numbers
  <2>1. CASE size_class < HEADER * 2
    <3>1. n \in 1 .. Capacity - 1
      BY <1>1, <2>1, ClassFacts DEF Capacity
    <3>2. Reserved(size_class) = 0 .. n - 1
      BY <2>1 DEF Reserved
    <3>3. Capacity \in Nat
      BY <1>1, ClassFacts DEF Capacity
    <3> HIDE DEF n
    <3> QED  BY <3>1, <3>2, <3>3 DEF Numbers
  <2>2. CASE ~ (size_class < HEADER * 2)
    BY <2>2 DEF Reserved
  <2> QED  BY <2>1, <2>2
<1> QED  BY <1>1, <1>2 DEF Init, IInv, BlocksInv, LiveInv

LEMMA MallocStep ==
  ASSUME IInv, NEW sz \in Requests, mm_malloc(sz)
  PROVE  IInv'
<1>0. BlocksInv /\ LiveInv /\ size_class \in SizeClasses /\ ~ covered
  BY DEF IInv, mm_malloc
<1>1. PICK k \in Numbers \ block_map, at \in Nat :
        /\ Take(k, at, sz) /\ InBlock([at |-> at, len |-> sz], k)
        /\ at >= HEADER \/ size_class >= HEADER * 2
  BY <1>0, Placed
<1> SUFFICES ASSUME ~ covered' PROVE BlocksInv' /\ LiveInv'
  <2>1. /\ size_class' = size_class /\ covered' \in BOOLEAN
        /\ covered' => at < HEADER
    BY <1>0, <1>1 DEF Take, IInv
  <2>2. ~ (at < HEADER) \/ size_class >= HEADER * 2
    BY <1>1 DEF HEADER
  <2> QED  BY <1>0, <2>1, <2>2 DEF IInv
<1> DEFINE x == [at |-> at, len |-> sz]
<1>2. /\ block_map' = block_map \cup {k} /\ used_blocks' = used_blocks + 1
      /\ live' = live \cup {x} /\ size_class' = size_class
  BY <1>1 DEF Take
<1>3. /\ BlocksInv /\ LiveInv /\ IsFiniteSet(block_map) /\ Numbers \subseteq Nat
      /\ Requests \subseteq Nat \ {0}
  BY <1>0, LayoutFacts
<1>4. Capacity' = Capacity /\ Numbers' = Numbers /\ Requests' = Requests
  BY <1>2 DEF Capacity, Numbers, Requests
<1>5. BlocksInv'
  <2>1. Cardinality(block_map \cup {k}) = Cardinality(block_map) + 1
    BY <1>1, <1>3, FS_AddElement
  <2> QED  BY <1>1, <1>2, <1>3, <1>4, <2>1 DEF BlocksInv
<1>6. x \in [at : Nat, len : Nat] /\ InBlock(x, k)
  BY <1>1, <1>3
<1>7. live \subseteq [at : Nat, len : Nat]
  BY <1>3 DEF BlocksInv
<1>8. Reserved(size_class) \subseteq block_map /\ block_map \subseteq Numbers /\ k \in Nat
  BY <1>1, <1>3 DEF BlocksInv
<1> HIDE DEF x
<1>9. ASSUME NEW y \in live PROVE \E j \in block_map \ Reserved(size_class) : InBlock(y, j)
  BY <1>3 DEF LiveInv
<1>10. ASSUME NEW y \in live PROVE ~ InBlock(y, k)
  <2>1. PICK j \in block_map : InBlock(y, j)
    BY <1>9
  <2>2. j # k /\ j \in Nat /\ y \in [at : Nat, len : Nat]
    BY <1>1, <1>3, <1>7, <1>8, <2>1
  <2>3. SUFFICES ASSUME InBlock(y, k) PROVE FALSE
    OBVIOUS
  <2>4. ~ Malloc!Overlap(y, y)
    BY <1>3, <1>8, <2>1, <2>2, <2>3, DifferentBlocks
  <2>5. y.at \in Nat /\ y.len \in Nat \ {0}
    BY <1>3 DEF BlocksInv
  <2> QED  BY <2>4, <2>5 DEF Malloc!Overlap
<1>11. ASSUME NEW j \in block_map PROVE ~ InBlock(x, j)
  <2>1. j # k /\ j \in Nat
    BY <1>1, <1>3, <1>8
  <2>2. SUFFICES ASSUME InBlock(x, j) PROVE FALSE
    OBVIOUS
  <2>3. ~ Malloc!Overlap(x, x)
    BY <1>3, <1>6, <1>8, <2>1, <2>2, DifferentBlocks
  <2>4. x.at \in Nat /\ x.len \in Nat \ {0}
    BY <1>3, <1>6 DEF x
  <2> QED  BY <2>3, <2>4 DEF Malloc!Overlap
<1>12. LiveInv'
  <2>1. ASSUME NEW y \in live'
        PROVE  \E j \in block_map' \ Reserved(size_class') : InBlock(y, j)'
    BY <1>1, <1>2, <1>6, <1>8, <1>9, <2>1 DEF InBlock
  <2>2. ASSUME NEW y \in live', NEW z \in live', NEW j \in block_map',
               InBlock(y, j)', InBlock(z, j)'
        PROVE  y = z
    <3>1. InBlock(y, j) /\ InBlock(z, j)
      BY <1>2, <2>2 DEF InBlock
    <3>2. CASE j = k
      BY <1>2, <1>10, <3>1, <3>2
    <3>3. CASE j # k
      BY <1>2, <1>3, <1>11, <3>1, <3>3 DEF LiveInv
    <3> QED  BY <3>2, <3>3
  <2> QED  BY <2>1, <2>2 DEF LiveInv
<1> QED  BY <1>5, <1>12

LEMMA FreeStep ==
  ASSUME BlocksInv, LiveInv, ~ covered, NEW x \in live, mm_free(x)
  PROVE  BlocksInv' /\ LiveInv'
<1>1. /\ block_map' = block_map \ {x.at \div size_class} /\ used_blocks' = used_blocks - 1
      /\ live' = live \ {x} /\ size_class' = size_class
  BY DEF mm_free
<1>2. /\ BlocksInv /\ LiveInv /\ size_class \in block_sizes /\ IsFiniteSet(block_map)
      /\ Numbers \subseteq Nat /\ Requests \subseteq Nat \ {0}
  BY LayoutFacts
<1>3. PICK k \in block_map \ Reserved(size_class) : InBlock(x, k)
  BY <1>2 DEF LiveInv
<1>4. k \in Nat /\ x.at \in Nat /\ x.len \in Nat \ {0}
  BY <1>2 DEF BlocksInv
<1>5. x.at \div size_class = k
  <2>1. k * size_class <= x.at /\ x.at < (k + 1) * size_class
    <3>1. (k + 1) * size_class \in Nat
      BY <1>2, <1>4, MultipleFacts
    <3> QED  BY <1>3, <1>4, <3>1 DEF InBlock
  <2> QED  BY <1>2, <1>4, <2>1, NumberOfAddress
<1>6. Numbers' = Numbers /\ Requests' = Requests
  BY <1>1 DEF Capacity, Numbers, Requests
<1>7. BlocksInv'
  <2>1. Cardinality(block_map \ {k}) = Cardinality(block_map) - 1
    BY <1>2, <1>3, FS_RemoveElement
  <2> QED  BY <1>1, <1>2, <1>3, <1>5, <1>6, <2>1 DEF BlocksInv
<1>8. LiveInv'
  <2>1. ASSUME NEW y \in live'
        PROVE  \E j \in block_map' \ Reserved(size_class') : InBlock(y, j)'
    <3>1. PICK j \in block_map \ Reserved(size_class) : InBlock(y, j)
      BY <1>1, <1>2, <2>1 DEF LiveInv
    <3>2. j # k
      BY <1>1, <1>2, <1>3, <2>1, <3>1 DEF LiveInv
    <3> QED  BY <1>1, <1>5, <3>1, <3>2 DEF InBlock
  <2>2. ASSUME NEW y \in live', NEW z \in live', NEW j \in block_map',
               InBlock(y, j)', InBlock(z, j)'
        PROVE  y = z
    <3>1. InBlock(y, j) /\ InBlock(z, j) /\ y \in live /\ z \in live /\ j \in block_map
      BY <1>1, <2>2 DEF InBlock
    <3> QED  BY <1>2, <3>1 DEF LiveInv
  <2> QED  BY <2>1, <2>2 DEF LiveInv
<1> QED  BY <1>7, <1>8

LEMMA NextInv == IInv /\ [Next]_vars => IInv'
<1> SUFFICES ASSUME IInv, [Next]_vars PROVE IInv'
  OBVIOUS
<1>1. ASSUME NEW sz \in Requests, mm_malloc(sz) PROVE IInv'
  BY <1>1, MallocStep
<1>2. ASSUME NEW sz \in Requests, WildMalloc(sz) PROVE IInv'
  BY <1>2 DEF WildMalloc, IInv
<1>3. ASSUME NEW x \in live, mm_free(x) PROVE IInv'
  <2>1. size_class' = size_class /\ covered' = covered
    BY <1>3 DEF mm_free
  <2> QED  BY <1>3, <2>1, FreeStep DEF IInv
<1>4. CASE UNCHANGED vars
  BY <1>4 DEF vars, IInv, BlocksInv, LiveInv, InBlock, Numbers, Capacity, Requests
<1> QED  BY <1>1, <1>2, <1>3, <1>4 DEF Next

\* The map is the reserved blocks and those the program holds, one block of it in each,
\* and the count is the map's, or the program was given the header of a superblock of
\* blocks of 256 bytes or more.
THEOREM InvariantHolds == Spec => []IInv
BY InitInv, NextInv, PTL DEF Spec

\* A superblock that mm_malloc accepts has a block to give, which ends in the page and,
\* for the small classes, does not cover the header: find_block's error return, that
\* would leave the heap locked, is never taken.
THEOREM FindsBlockCorrect == Spec => []FindsBlock
<1>1. IInv => FindsBlock
  <2> SUFFICES ASSUME IInv, ~ covered, NEW sz \in Requests, ByMap(sz)
               PROVE  /\ find_block # -1 /\ find_block * size_class + sz <= SB_SIZE
                      /\ size_class < HEADER * 2 => find_block * size_class >= HEADER
    BY DEF FindsBlock
  <2>1. BlocksInv
    BY DEF IInv
  <2> DEFINE k == find_block
  <2>2. k \in Numbers /\ k \notin block_map /\ k # -1
    BY <2>1, FindsFree
  <2> HIDE DEF k
  <2>3. /\ size_class \in block_sizes /\ size_class \in Nat /\ Numbers \subseteq Nat
        /\ sz \in Nat /\ sz <= size_class
    BY <2>1, LayoutFacts
  <2>4. (k + 1) * size_class <= SB_SIZE
    BY <2>1, <2>2, EndsInPage
  <2>5. k * size_class \in Nat /\ (k + 1) * size_class = k * size_class + size_class
    BY <2>2, <2>3, MultipleFacts
  <2>6. k * size_class + sz <= SB_SIZE
    BY <2>3, <2>4, <2>5 DEF SB_SIZE
  <2>7. size_class < HEADER * 2 => k * size_class >= HEADER
    BY <2>1, <2>2, ReservedFacts DEF BlocksInv
  <2> QED  BY <2>2, <2>6, <2>7 DEF k
<1> QED  BY <1>1, InvariantHolds, PTL

\* Every block mm_malloc places lies in the page and overlaps none the program holds, for
\* any number of blocks: always in the classes up to 128, and in those from 256 on until
\* find_block has given out the block that covers the header (a2alloc.c:155-170, 336-338).
THEOREM ImplementsAllocatorCorrect == Spec => ImplementsAllocator
<1>1. Init => Malloc!Init
  BY DEF Init, Malloc!Init
<1>2. IInv /\ [Next]_vars => [Malloc!Next \/ (covered /\ size_class >= HEADER * 2)]_live
  <2> SUFFICES ASSUME IInv, [Next]_vars, ~ covered PROVE [Malloc!Next]_live
    BY DEF IInv
  <2>1. ASSUME NEW sz \in Requests, mm_malloc(sz) PROVE Malloc!Next
    <3>1. /\ BlocksInv /\ LiveInv /\ size_class \in block_sizes /\ size_class \in Nat \ {0}
          /\ Numbers \subseteq Nat /\ Requests \subseteq Nat \ {0} /\ size_class \in SizeClasses
      BY LayoutFacts DEF IInv, BlocksInv
    <3>2. PICK k \in Numbers \ block_map, at \in Nat :
            Take(k, at, sz) /\ InBlock([at |-> at, len |-> sz], k)
      BY <2>1, <3>1, Placed
    <3> DEFINE x == [at |-> at, len |-> sz]
    <3>3. x.at = at /\ x.len = sz /\ x \in [at : Nat, len : Nat] /\ InBlock(x, k)
      BY <3>1, <3>2
    <3>4. live' = live \cup {x}
      BY <3>2 DEF Take
    <3> HIDE DEF x
    <3>5. sz \in UNION {{c, c - HEADER} : c \in SizeClasses}
      <4>1. sz \in {size_class, size_class - HEADER}
        BY DEF Requests
      <4> QED  BY <3>1, <4>1
    <3>6. at \in 0 .. SB_SIZE - 1 /\ at + sz - 1 \in 0 .. SB_SIZE - 1
      <4>1. at + sz <= (k + 1) * size_class /\ (k + 1) * size_class <= SB_SIZE
        BY <3>1, <3>2, <3>3, EndsInPage DEF InBlock
      <4>2. (k + 1) * size_class \in Nat /\ sz \in Nat \ {0}
        BY <3>1, <3>2, MultipleFacts
      <4> QED  BY <4>1, <4>2 DEF SB_SIZE
    <3>7. ASSUME NEW y \in live PROVE ~ Malloc!Overlap(x, y)
      <4>1. PICK j \in block_map : InBlock(y, j)
        BY <3>1 DEF LiveInv
      <4>2. j # k /\ j \in Nat /\ k \in Nat /\ y \in [at : Nat, len : Nat]
        BY <3>1, <3>2 DEF BlocksInv
      <4> QED  BY <3>1, <3>3, <4>1, <4>2, DifferentBlocks
    <3>8. Malloc!Malloc(x)
      BY <3>3, <3>4, <3>5, <3>6, <3>7 DEF Malloc!Malloc
    <3> QED  BY <3>4, <3>8 DEF Malloc!Next
  <2>2. ASSUME NEW x \in live, mm_free(x) PROVE Malloc!Next
    <3>1. live' = live \ {x}
      BY <2>2 DEF mm_free
    <3> QED  BY <3>1 DEF Malloc!Next, Malloc!Free
  <2>3. CASE UNCHANGED vars
    BY <2>3 DEF vars
  <2> QED  BY <2>1, <2>2, <2>3 DEF Next, WildMalloc
<1> QED  BY <1>1, <1>2, InvariantHolds, PTL DEF Spec, ImplementsAllocator
=============================================================================
