---------------------------- MODULE SuperblockLayout ----------------------------
(***************************************************************************)
(* Where in a superblock mm_malloc places a block (a2alloc.c: new_superblock,*)
(* find_block and the tests on the first block in mm_malloc), with the real  *)
(* sizes.  One superblock; Hoard says how it moves between heaps.            *)
(***************************************************************************)
EXTENDS Integers, FiniteSets

CONSTANTS
  SizeClasses,        \* of block_sizes, those to look at
  MAX_LIVE,           \* bound: blocks allocated at a time
  MAX_WILD            \* bound: the same, once the header is lost

SB_SIZE == 4096
HEADER == 104         \* sizeof(superblock)

block_sizes == {8, 16, 32, 64, 128, 256, 512, 1024, 2048}

ASSUME LayoutAssumption ==
  SizeClasses \subseteq block_sizes /\ MAX_LIVE \in Nat /\ MAX_WILD \in Nat

VARIABLES
  size_class, block_map, used_blocks,
  covered,            \* a block over the header was given to the program
  live                \* blocks the program holds: offset in the page, length asked for

vars == <<size_class, block_map, used_blocks, covered, live>>

Capacity == SB_SIZE \div size_class

\* Mutant: the last block of the header is left out.
ReservedTooFew(c) ==
  IF c < HEADER * 2 THEN 0 .. ((HEADER + c - 1) \div c) - 2 ELSE {}

\* new_superblock marks the blocks under the header, "for small block size".
Reserved(c) ==
  IF c < HEADER * 2 THEN 0 .. ((HEADER + c - 1) \div c) - 1 ELSE {}

Init ==
  /\ size_class \in SizeClasses
  /\ block_map = Reserved(size_class)
  /\ used_blocks = Cardinality(Reserved(size_class))
  /\ covered = FALSE /\ live = {}

\* Lengths of the class: the largest, and the largest that fits behind the header.
Requests == {c \in {size_class, size_class - HEADER} : c > size_class \div 2}

\* Bits find_block looks at: whole bytes, even when the page has fewer blocks.
Bits == 0 .. (IF Capacity < 8 THEN 8 ELSE Capacity) - 1

\* Mutant: as many blocks from the front as are in use.
find_block_after_used == used_blocks

\* Blocks of more than 512 bytes have a loop of their own; "!map % (1 << k)" is
\* true for k = 1 when no bit is set and never otherwise.
find_block ==
  IF size_class > 512 /\ block_map = {} THEN 1
  ELSE IF Bits \subseteq block_map THEN -1
  ELSE CHOOSE k \in Bits : k \notin block_map /\ \A j \in 0 .. k - 1 : j \in block_map

FirstIsFree == 0 \notin block_map

\* The subtraction is unsigned.
FitsBehindHeader(sz) == size_class < HEADER \/ sz <= size_class - HEADER

\* Mutant: one block more than there is.
HasSpaceOffByOne(sz) == used_blocks + (IF FirstIsFree THEN 1 ELSE 0) <= Capacity

HasSpace(sz) == used_blocks + (IF FirstIsFree THEN 1 ELSE 0) < Capacity

\* What the search of mm_malloc accepts, but for the first block; a superblock
\* fetched from the global heap, less than a quarter full, is not searched.
ByMap(sz) ==
  \/ ~ (FirstIsFree /\ FitsBehindHeader(sz)) /\ HasSpace(sz)
  \/ used_blocks * 4 < Capacity

\* A block that begins before the end of the header covers it.  What the program
\* writes there replaces the map and the count: {} and 0 stand for what they are then.
Take(k, at, sz) ==
  /\ live' = live \cup {[at |-> at, len |-> sz]}
  /\ IF at < HEADER
     THEN covered' = TRUE /\ block_map' = {} /\ used_blocks' = 0
     ELSE /\ block_map' = block_map \cup {k} /\ used_blocks' = used_blocks + 1
          /\ UNCHANGED covered
  /\ UNCHANGED size_class

mm_malloc(sz) ==
  /\ ~ covered /\ Cardinality(live) < MAX_LIVE
  /\ \/ FirstIsFree /\ FitsBehindHeader(sz) /\ Take(0, HEADER, sz)
     \/ ByMap(sz) /\ Take(find_block, find_block * size_class, sz)

\* By a map that the program wrote: any block, in use or not.
WildMalloc(sz) ==
  /\ covered /\ Cardinality(live) < MAX_WILD
  /\ \E at \in {HEADER} \cup {k * size_class : k \in Bits} :
       live' = live \cup {[at |-> at, len |-> sz]}
  /\ UNCHANGED <<size_class, block_map, used_blocks, covered>>

mm_free(x) ==
  /\ live' = live \ {x}
  /\ \/ /\ ~ covered
        /\ block_map' = block_map \ {x.at \div size_class}
        /\ used_blocks' = used_blocks - 1
     \/ covered /\ UNCHANGED <<block_map, used_blocks>>
  /\ UNCHANGED <<size_class, covered>>

Next ==
  \/ \E sz \in Requests : mm_malloc(sz) \/ WildMalloc(sz)
  \/ \E x \in live : mm_free(x)

Spec == Init /\ [][Next]_vars

-----------------------------------------------------------------------------
(* Properties. *)

Malloc == INSTANCE Allocator WITH
  Segment <- 0 .. SB_SIZE - 1,
  Requests <- UNION {{c, c - HEADER} : c \in SizeClasses}

\* The program's blocks never overlap one another and end in the page, whichever way
\* they were placed (use_first and find_block of mm_malloc), but in the classes from 256
\* on, and there only once the program was given the block that covers the header.
\* mm_malloc means to "consider the block as unusable" (a2alloc.c:336-338), but
\* find_block returns it when it is the lowest that is free.
ImplementsAllocator ==
  Malloc!Init /\ [][Malloc!Next \/ (covered /\ size_class >= HEADER * 2)]_live

\* A superblock the search accepts has a block, and it lies in the page: the error
\* return of find_block, which would leave the heap locked, is never taken.  "For small
\* block size, first blocks are pre-reserved for metadata" (a2alloc.c:89): no block of
\* such a class covers the header.
FindsBlock ==
  \A sz \in Requests :
    ~ covered /\ ByMap(sz) =>
      /\ find_block # -1 /\ find_block * size_class + sz <= SB_SIZE
      /\ size_class < HEADER * 2 => find_block * size_class >= HEADER
=============================================================================
