---------------------------------- MODULE Hoard ----------------------------------
(***************************************************************************)
(* The small-block part of A2/allocators/a2alloc/a2alloc.c: threads allocate *)
(* blocks from superblocks, pages that belong to the heap of a CPU or to     *)
(* heap 0, the global one.  In its heap a superblock is in a list, one per   *)
(* block size and fullness.  Each heap has a lock.                           *)
(*                                                                           *)
(* One action is what a thread does between taking a lock and the next one   *)
(* or giving it up; the reads and writes done without the lock they need     *)
(* are actions of their own: mm_free reads a block's heap without that       *)
(* heap's lock, and reads and then writes the global heap's lists and        *)
(* counters without the global heap's lock.  Sizes are those for which the first blocks of  *)
(* a superblock are reserved for its header (see SuperblockLayout for the    *)
(* others); malloc_large is left to LargeBlocks.                             *)
(***************************************************************************)
EXTENDS LinkedLists, Integers, FiniteSets

CONSTANTS
  Threads,
  NoThread,               \* nobody holds the lock
  NumProcessors,
  block_sizes,            \* the set of size classes, in bytes
  SB_SIZE,                \* bytes of a superblock, a page
  HEADER,                 \* sizeof(superblock)
  FULLNESS_DENOMINATOR,
  K,                      \* superblocks of slack a heap may keep
  PAGES,                  \* superblocks mem_sbrk can hand out
  MAX_LIVE                \* bound: blocks allocated at a time

ASSUME HoardAssumption ==
  /\ NoThread \notin Threads
  /\ NumProcessors \in Nat \ {0} /\ FULLNESS_DENOMINATOR \in Nat \ {0}
  /\ K \in Nat /\ PAGES \in Nat /\ MAX_LIVE \in Nat /\ HEADER \in Nat \ {0}
  /\ NULL \notin 1 .. PAGES /\ SB_SIZE \in Nat \ {0}
  /\ \A b \in block_sizes :
       /\ b \in Nat \ {0} /\ SB_SIZE % b = 0 /\ b < HEADER * 2
       \* A new superblock belongs in bin 1, where mm_malloc puts it.
       /\ ((HEADER + b - 1) \div b) * FULLNESS_DENOMINATOR < SB_SIZE \div b

VARIABLES
  cpu,                    \* the CPU a thread is bound to, from its affinity mask
  pc,                     \* "idle"; "fetch", "take": in mm_malloc; "free", "shed", "give": in mm_free
  lock,                   \* of each heap: the thread that holds it
  request,                \* mm_malloc: size class asked for
  target, old_fullness,   \* mm_malloc: the superblock found, and its bin
  freed, HID,             \* mm_free: the block, and its heap as read without the lock
  seen,                   \* mm_free: what it read of the global heap without the lock
  brk,                    \* superblocks handed out by mem_sbrk: 1 .. brk
  block_size, block_map, used_blocks, heap_id, prev, next,   \* of a superblock
  bin_first,              \* by heap, size and fullness: first of the list
  allocated, used,        \* of a heap, in bytes
  live                    \* blocks the program holds: <<superblock, block id>>

callVars == <<request, target, old_fullness, freed, HID, seen>>
blockVars == <<block_map, used_blocks>>
listVars == <<prev, next, bin_first>>
vars == <<cpu, pc, lock, callVars, brk, block_size, blockVars, heap_id, listVars,
          allocated, used, live>>

\* The local variables of a call that is over are forgotten.
Returns(t) ==
  /\ pc' = [pc EXCEPT ![t] = "idle"]
  /\ request' = [request EXCEPT ![t] = 0]
  /\ target' = [target EXCEPT ![t] = NULL]
  /\ old_fullness' = [old_fullness EXCEPT ![t] = 0]
  /\ freed' = [freed EXCEPT ![t] = NULL]
  /\ HID' = [HID EXCEPT ![t] = 0]
  /\ seen' = [seen EXCEPT ![t] = NULL]

Heaps == 0 .. NumProcessors
Bins == 0 .. FULLNESS_DENOMINATOR + 1
Superblocks == 1 .. brk
BinIds == Heaps \X block_sizes \X Bins

Init ==
  /\ cpu \in [Threads -> 0 .. NumProcessors - 1]
  /\ pc = [t \in Threads |-> "idle"]
  /\ lock = [h \in Heaps |-> NoThread]
  /\ request = [t \in Threads |-> 0]
  /\ target = [t \in Threads |-> NULL] /\ old_fullness = [t \in Threads |-> 0]
  /\ freed = [t \in Threads |-> NULL] /\ HID = [t \in Threads |-> 0]
  /\ seen = [t \in Threads |-> NULL]
  /\ brk = 0
  /\ block_size = [s \in 1 .. PAGES |-> 0]
  /\ block_map = [s \in 1 .. PAGES |-> {}] /\ used_blocks = [s \in 1 .. PAGES |-> 0]
  /\ heap_id = [s \in 1 .. PAGES |-> 0]
  /\ prev = [s \in 1 .. PAGES |-> NULL] /\ next = [s \in 1 .. PAGES |-> NULL]
  /\ bin_first = [x \in BinIds |-> NULL]
  /\ allocated = [h \in Heaps |-> 0] /\ used = [h \in Heaps |-> 0]
  /\ live = {}

-----------------------------------------------------------------------------
(* Superblocks. *)

Capacity(b) == SB_SIZE \div b

\* Mutant: the header's last block is left unreserved.
ReservedTooFew(b) == 0 .. ((HEADER + b - 1) \div b) - 2

\* The first blocks hold the header and are marked from the start.
Reserved(b) == 0 .. ((HEADER + b - 1) \div b) - 1

\* Mutant: fullness is rounded up.
fullness_up(n, b) == (n * FULLNESS_DENOMINATOR + Capacity(b) - 1) \div Capacity(b) + 1

\* The bin of a superblock with n blocks in use.
fullness(n, b) == (n * FULLNESS_DENOMINATOR) \div Capacity(b) + 1

\* Mutant: a block is taken off the map although it is marked.
find_block_first(s) == Cardinality(Reserved(block_size[s]))

\* The first block that is not marked.
find_block(s) ==
  CHOOSE k \in 0 .. Capacity(block_size[s]) - 1 :
    /\ k \notin block_map[s]
    /\ \A j \in 0 .. k - 1 : j \in block_map[s]

\* Mutant: the former first superblock's prev pointer is not set.
RelinkedPrevForgets(s, first) == [UnlinkedPrev(next, prev, s) EXCEPT ![s] = NULL]

\* The prev pointers, when s is unlinked and put in front of a list headed by first.
RelinkedPrev(s, first) ==
  LET unlinked == [UnlinkedPrev(next, prev, s) EXCEPT ![s] = NULL]
  IN  IF first = NULL THEN unlinked ELSE [unlinked EXCEPT ![first] = s]

\* s goes from the list orig to the front of the list dest, of which first is the head.
Relinked(s, orig, dest, first) ==
  /\ bin_first' = [[bin_first EXCEPT ![orig] = UnlinkedHead(@, next, prev, s)]
                     EXCEPT ![dest] = s]
  /\ next' = [UnlinkedNext(next, prev, s) EXCEPT ![s] = first]
  /\ prev' = RelinkedPrev(s, first)

\* Under the locks of both heaps, or within one.
transfer_bins(s, orig, dest) == Relinked(s, orig, dest, bin_first[dest])

\* Mutant: the blocks reserved for the header are left out.
BytesMovedNet(s) == (used_blocks[s] - Cardinality(Reserved(block_size[s]))) * block_size[s]

\* Mutant: a superblock counts as used throughout.
BytesMovedWhole(s) == SB_SIZE

BytesMoved(s) == used_blocks[s] * block_size[s]

\* transfer_bins, when s changes heaps.
Rehomed(s, from, to) ==
  /\ heap_id' = [heap_id EXCEPT ![s] = to]
  /\ used' = [used EXCEPT ![from] = @ - BytesMoved(s), ![to] = @ + BytesMoved(s)]
  /\ allocated' = [allocated EXCEPT ![from] = @ - SB_SIZE, ![to] = @ + SB_SIZE]

-----------------------------------------------------------------------------
(* mm_malloc. *)

Heap(t) == cpu[t] + 1

HasSpace(s, b) == used_blocks[s] < Capacity(b)

\* Superblocks with space, in bins short of the full one.
WithSpace(h, b, i) == {s \in Walk(bin_first[<<h, b, i>>], next) : HasSpace(s, b)}

\* The first one in the fullest bin that has one.
Fullest(h, b, i, s) ==
  /\ s \in WithSpace(h, b, i)
  /\ WithSpace(h, b, i) \subseteq Walk(s, next)
  /\ \A j \in i + 1 .. FULLNESS_DENOMINATOR : WithSpace(h, b, j) = {}

mm_malloc(t, b) ==
  /\ pc[t] = "idle"
  /\ Cardinality(live) < MAX_LIVE
  /\ lock[Heap(t)] = NoThread
  /\ lock' = [lock EXCEPT ![Heap(t)] = t]
  /\ request' = [request EXCEPT ![t] = b]
  /\ \/ \E i \in 0 .. FULLNESS_DENOMINATOR, s \in Superblocks :
          /\ Fullest(Heap(t), b, i, s)
          /\ target' = [target EXCEPT ![t] = s]
          /\ old_fullness' = [old_fullness EXCEPT ![t] = i]
          /\ pc' = [pc EXCEPT ![t] = "take"]
     \/ /\ \A i \in 0 .. FULLNESS_DENOMINATOR : WithSpace(Heap(t), b, i) = {}
        /\ pc' = [pc EXCEPT ![t] = "fetch"]
        /\ UNCHANGED <<target, old_fullness>>
  /\ UNCHANGED <<cpu, freed, HID, seen, brk, block_size, blockVars, heap_id, listVars,
                 allocated, used, live>>

\* Under the lock of heap 0.  Its bins 0 are empty whenever the lock is free, so
\* the search for an empty superblock of any size finds none (BinsOK).
Fetch(t) ==
  /\ pc[t] = "fetch"
  /\ lock[0] = NoThread
  /\ pc' = [pc EXCEPT ![t] = "take"]
  /\ old_fullness' = [old_fullness EXCEPT ![t] = 1]
  /\ UNCHANGED <<cpu, lock, request, freed, HID, seen, live>>

\* The first of the nearly empty superblocks of the global heap.
FetchGlobal(t) ==
  LET b == request[t]
      s == bin_first[<<0, b, 1>>]
  IN  /\ Fetch(t)
      /\ s # NULL
      /\ target' = [target EXCEPT ![t] = s]
      /\ transfer_bins(s, <<0, b, 1>>, <<Heap(t), b, 1>>)
      /\ Rehomed(s, 0, Heap(t))
      /\ UNCHANGED <<brk, block_size, blockVars>>

\* A new superblock passes through bin 0 of the global heap.
FetchNew(t) ==
  LET b == request[t]
      s == brk + 1
      dest == <<Heap(t), b, 1>>
  IN  /\ Fetch(t)
      /\ bin_first[<<0, b, 1>>] = NULL
      /\ brk < PAGES
      /\ brk' = s
      /\ target' = [target EXCEPT ![t] = s]
      /\ block_size' = [block_size EXCEPT ![s] = b]
      /\ block_map' = [block_map EXCEPT ![s] = Reserved(b)]
      /\ used_blocks' = [used_blocks EXCEPT ![s] = Cardinality(Reserved(b))]
      /\ heap_id' = [heap_id EXCEPT ![s] = Heap(t)]
      /\ used' = [used EXCEPT ![Heap(t)] = @ + Cardinality(Reserved(b)) * b]
      /\ allocated' = [allocated EXCEPT ![Heap(t)] = @ + SB_SIZE]
      /\ transfer_bins(s, <<0, b, 0>>, dest)

\* mem_sbrk has no page left: NULL is returned, with both locks still held.
FetchFails(t) ==
  /\ pc[t] = "fetch"
  /\ lock[0] = NoThread
  /\ bin_first[<<0, request[t], 1>>] = NULL
  /\ brk = PAGES
  /\ lock' = [lock EXCEPT ![0] = t]
  /\ Returns(t)
  /\ UNCHANGED <<cpu, brk, block_size, blockVars, heap_id, listVars,
                 allocated, used, live>>

TakeBlock(t) ==
  LET b == request[t]
      s == target[t]
      k == find_block(s)
      new_fullness == fullness(used_blocks[s] + 1, b)
  IN  /\ pc[t] = "take"
      /\ block_map' = [block_map EXCEPT ![s] = @ \cup {k}]
      /\ used_blocks' = [used_blocks EXCEPT ![s] = @ + 1]
      /\ used' = [used EXCEPT ![Heap(t)] = @ + b]
      /\ \/ /\ new_fullness = old_fullness[t]
            /\ UNCHANGED listVars
         \/ /\ new_fullness # old_fullness[t]
            /\ transfer_bins(s, <<Heap(t), b, old_fullness[t]>>, <<Heap(t), b, new_fullness>>)
      /\ live' = live \cup {<<s, k>>}
      /\ lock' = [lock EXCEPT ![Heap(t)] = NoThread]
      /\ Returns(t)
      /\ UNCHANGED <<cpu, brk, block_size, heap_id, allocated>>

-----------------------------------------------------------------------------
(* mm_free: any thread may free a block, whichever allocated it. *)

mm_free(t, x) ==
  /\ pc[t] = "idle"
  /\ x \in live
  /\ live' = live \ {x}
  /\ freed' = [freed EXCEPT ![t] = x]
  /\ HID' = [HID EXCEPT ![t] = heap_id[x[1]]]
  /\ pc' = [pc EXCEPT ![t] = "free"]
  /\ UNCHANGED <<cpu, lock, request, target, old_fullness, seen, brk, block_size, blockVars,
                 heap_id, listVars, allocated, used>>

\* Mutant: either condition is enough.
HasSlackEither(h, u) ==
  u < allocated[h] \div FULLNESS_DENOMINATOR \/ u < allocated[h] - K * SB_SIZE

\* The heap is mostly empty and has more than K superblocks' worth of free space.
HasSlack(h, u) ==
  u < allocated[h] \div FULLNESS_DENOMINATOR /\ u < allocated[h] - K * SB_SIZE

FreeBlock(t) ==
  LET s == freed[t][1]
      h == HID[t]
      b == block_size[s]
      was == fullness(used_blocks[s], b)
      is == fullness(used_blocks[s] - 1, b)
  IN  /\ pc[t] = "free"
      /\ lock[h] = NoThread
      /\ block_map' = [block_map EXCEPT ![s] = @ \ {freed[t][2]}]
      /\ used_blocks' = [used_blocks EXCEPT ![s] = @ - 1]
      /\ used' = [used EXCEPT ![h] = @ - b]
      /\ \/ was = is /\ UNCHANGED listVars
         \/ was # is /\ transfer_bins(s, <<h, b, was>>, <<h, b, is>>)
      /\ \/ /\ h = 0 \/ ~ HasSlack(h, used'[h])
            /\ Returns(t)
            /\ UNCHANGED lock
         \/ /\ h # 0 /\ HasSlack(h, used'[h])
            /\ pc' = [pc EXCEPT ![t] = "shed"]
            /\ lock' = [lock EXCEPT ![h] = t]
            /\ UNCHANGED callVars
      /\ UNCHANGED <<cpu, brk, block_size, heap_id, allocated, live>>

\* Superblocks the heap can give away: the first of an emptiest bin, of the
\* smallest size.
Sheddable(h) ==
  {x \in {h} \X block_sizes \X {0, 1} :
     /\ bin_first[x] # NULL
     /\ \A y \in {h} \X block_sizes \X {0, 1} :
          y[3] < x[3] \/ (y[3] = x[3] /\ y[2] < x[2]) => bin_first[y] = NULL}

\* What transfer_bins reads of the global heap to move the first superblock of bin x.
Reading(x) ==
  [bin |-> x, first |-> bin_first[<<0, x[2], x[3]>>],
   used |-> used[0], allocated |-> allocated[0]]

\* The lists and counters of the global heap are read without its lock ...
ShedReads(t) ==
  /\ pc[t] = "shed"
  /\ \E x \in Sheddable(HID[t]) : seen' = [seen EXCEPT ![t] = Reading(x)]
  /\ pc' = [pc EXCEPT ![t] = "give"]
  /\ UNCHANGED <<cpu, lock, request, target, old_fullness, freed, HID, brk, block_size,
                 blockVars, heap_id, listVars, allocated, used, live>>

\* ... and written without it, from what was read.
ShedWrites(t) ==
  LET x == seen[t].bin
      s == bin_first[x]
      from == HID[t]
  IN  /\ pc[t] = "give"
      /\ Relinked(s, x, <<0, x[2], x[3]>>, seen[t].first)
      /\ heap_id' = [heap_id EXCEPT ![s] = 0]
      /\ used' = [used EXCEPT ![from] = @ - BytesMoved(s), ![0] = seen[t].used + BytesMoved(s)]
      /\ allocated' = [allocated EXCEPT ![from] = @ - SB_SIZE,
                                        ![0] = seen[t].allocated + SB_SIZE]
      /\ lock' = [lock EXCEPT ![from] = NoThread]
      /\ Returns(t)
      /\ UNCHANGED <<cpu, brk, block_size, blockVars, live>>

-----------------------------------------------------------------------------
Next ==
  \E t \in Threads :
    \/ \E b \in block_sizes : mm_malloc(t, b)
    \/ FetchGlobal(t) \/ FetchNew(t) \/ FetchFails(t) \/ TakeBlock(t)
    \/ \E x \in live : mm_free(t, x)
    \/ FreeBlock(t) \/ ShedReads(t) \/ ShedWrites(t)

Spec == Init /\ [][Next]_vars

-----------------------------------------------------------------------------
(* Properties. *)

TypeOK ==
  /\ cpu \in [Threads -> 0 .. NumProcessors - 1]
  /\ pc \in [Threads -> {"idle", "fetch", "take", "free", "shed", "give"}]
  /\ lock \in [Heaps -> Threads \cup {NoThread}]
  /\ brk \in 0 .. PAGES
  /\ block_size \in [1 .. PAGES -> block_sizes \cup {0}]
  /\ block_map \in [1 .. PAGES -> SUBSET (0 .. SB_SIZE - 1)]
  /\ used_blocks \in [1 .. PAGES -> 0 .. SB_SIZE]
  /\ heap_id \in [1 .. PAGES -> Heaps]
  /\ prev \in [1 .. PAGES -> 1 .. PAGES \cup {NULL}]
  /\ next \in [1 .. PAGES -> 1 .. PAGES \cup {NULL}]
  /\ bin_first \in [BinIds -> 1 .. PAGES \cup {NULL}]
  /\ allocated \in [Heaps -> Nat] /\ used \in [Heaps -> Nat]
  /\ live \subseteq Superblocks \X (0 .. SB_SIZE - 1)

\* Blocks being freed: the program no longer holds them, the map still does.
Leaving == {freed[t] : t \in {u \in Threads : pc[u] = "free"}}

\* A superblock's map is the reserved blocks and the ones in the program's hands,
\* and its count is the map's: no block is handed out twice, none is lost
\* (find_block, the updates of block_map and used_blocks).
MapOK ==
  \A s \in Superblocks :
    /\ block_map[s] = Reserved(block_size[s])
                      \cup {k \in 0 .. SB_SIZE - 1 : <<s, k>> \in live \cup Leaving}
    /\ used_blocks[s] = Cardinality(block_map[s])

\* No block in the program's hands lies over the header of its superblock or
\* beyond its end (new_superblock).
HeaderIntact ==
  \A x \in live : LET b == block_size[x[1]]
                  IN  x[2] * b >= HEADER /\ (x[2] + 1) * b <= SB_SIZE

InBin(x) ==
  {s \in Superblocks : heap_id[s] = x[1] /\ block_size[s] = x[2]
                       /\ fullness(used_blocks[s], x[2]) = x[3]}

\* Every list is exactly the superblocks of its heap, size and fullness, doubly
\* linked: one that a transfer lost could never be used or freed into again
\* (transfer_bins, wherever mm_malloc and mm_free call it).
BinsOK ==
  \A x \in BinIds : IsDoublyLinked(InBin(x), bin_first[x], next, prev)

Owned(h) == {s \in Superblocks : heap_id[s] = h}

\* As many bytes of each superblock as it has in blocks that are marked.
UsedBytes(h) ==
  {x \in Owned(h) \X (0 .. SB_SIZE - 1) : x[2] < used_blocks[x[1]] * block_size[x[1]]}

\* The counters the emptiness test relies on are those of the heap's superblocks:
\* "Space allocated to the heap in bytes", "Space used within the heap in bytes"
\* (a2alloc.c:60-61).
CountersExact ==
  \A h \in Heaps :
    /\ allocated[h] = SB_SIZE * Cardinality(Owned(h))
    /\ used[h] = Cardinality(UsedBytes(h))

\* A heap that is to give a superblock away has one to give: the test on its
\* counters never leaves transfer_bins without a superblock (mm_free).
ShedFindsOne == \A t \in Threads : pc[t] = "shed" => Sheddable(HID[t]) # {}
=============================================================================
