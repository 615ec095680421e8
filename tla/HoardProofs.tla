------------------------------ MODULE HoardProofs ------------------------------
(***************************************************************************)
(* Proofs about Hoard.  Two things are read without the lock that protects   *)
(* them: mm_free reads the heap of a superblock, which may have moved by the *)
(* time it has that heap's lock, and it reads and then writes the global     *)
(* heap, which others may change in between.  HIDFresh and SeenFresh say     *)
(* that what was read is still true.  While they are, a step keeps every     *)
(* block, list and counter right; and they are for ever, with a single       *)
(* thread or when no heap can ever have a superblock to shed, for every      *)
(* number of CPUs, pages and size classes.                                   *)
(***************************************************************************)
EXTENDS Hoard, LinkedListsProofs, FiniteSetTheorems, FunctionTheorems,
        WellFoundedInduction, TLAPS

USE DEF Heaps, Bins, Superblocks, BinIds

-----------------------------------------------------------------------------
(* Sizes and fullness. *)

\* What the assumption says of the constants.
LEMMA ConstantFacts ==
  /\ NoThread \notin Threads /\ NumProcessors \in Nat \ {0}
  /\ FULLNESS_DENOMINATOR \in Nat \ {0} /\ HEADER \in Nat \ {0}
  /\ SB_SIZE \in Nat \ {0} /\ K \in Nat /\ PAGES \in Nat /\ NULL \notin 1 .. PAGES
BY HoardAssumption

\* The number of blocks the header takes.
HeaderBlocks(b) == (HEADER + b - 1) \div b

\* Products and quotients of numbers, stated apart so that the leaves stay linear.
LEMMA Products ==
  ASSUME NEW a \in Nat, NEW b \in Nat
  PROVE  a * b \in Nat
OBVIOUS

\* A product grows with its first factor ...
LEMMA ProductMono ==
  ASSUME NEW a \in Nat, NEW b \in Nat, NEW c \in Nat, a <= b
  PROVE  a * c <= b * c
OBVIOUS

\* ... and only with it.
LEMMA ProductMonoConverse ==
  ASSUME NEW a \in Nat, NEW b \in Nat, NEW c \in Nat, a * c < b * c
  PROVE  a < b
BY ProductMono

\* Quotient and remainder.
LEMMA Division ==
  ASSUME NEW a \in Nat, NEW d \in Nat \ {0}
  PROVE  /\ a \div d \in Nat /\ a % d \in 0 .. d - 1
         /\ a = (a \div d) * d + (a % d)
OBVIOUS

\* A size class divides its superblock; the header takes some of its first blocks.
LEMMA SizeFacts ==
  ASSUME NEW b \in block_sizes
  PROVE  /\ b \in Nat \ {0} /\ Capacity(b) \in Nat \ {0}
         /\ Capacity(b) * b = SB_SIZE /\ Capacity(b) <= SB_SIZE
         /\ HeaderBlocks(b) \in Nat \ {0} /\ HeaderBlocks(b) * b >= HEADER
         /\ HeaderBlocks(b) * FULLNESS_DENOMINATOR < Capacity(b)
         /\ HeaderBlocks(b) < Capacity(b)
         /\ Reserved(b) = 0 .. HeaderBlocks(b) - 1
         /\ IsFiniteSet(Reserved(b)) /\ Cardinality(Reserved(b)) = HeaderBlocks(b)
<1>1. b \in Nat \ {0} /\ SB_SIZE % b = 0
      /\ HeaderBlocks(b) * FULLNESS_DENOMINATOR < Capacity(b)
  BY HoardAssumption DEF HeaderBlocks, Capacity
<1>2. Capacity(b) \in Nat /\ Capacity(b) * b = SB_SIZE
  <2>1. SB_SIZE \in Nat /\ b \in Nat \ {0}
    BY <1>1, ConstantFacts
  <2>2. SB_SIZE \div b \in Nat /\ SB_SIZE = (SB_SIZE \div b) * b + (SB_SIZE % b)
    BY <2>1, Division
  <2>3. (SB_SIZE \div b) * b \in Nat
    BY <1>1, <2>2, Products
  <2> QED  BY <1>1, <2>2, <2>3 DEF Capacity
<1>3. Capacity(b) # 0
  BY <1>1, <1>2, ConstantFacts
<1>4. Capacity(b) <= SB_SIZE
  <2>1. 1 * Capacity(b) <= b * Capacity(b)
    BY <1>1, <1>2, ProductMono
  <2> QED  BY <1>1, <1>2, <2>1
<1>5. /\ HeaderBlocks(b) \in Nat
      /\ HeaderBlocks(b) * b >= HEADER
  <2> DEFINE n == HEADER + b - 1
  <2>1. n \in Nat
    BY <1>1, ConstantFacts
  <2> HIDE DEF n
  <2>2. /\ n \div b \in Nat /\ n % b \in 0 .. b - 1
        /\ n = (n \div b) * b + (n % b)
    BY <1>1, <2>1, Division
  <2>3. HeaderBlocks(b) = n \div b
    BY DEF HeaderBlocks, n
  <2>4. HeaderBlocks(b) * b \in Nat
    BY <1>1, <2>2, <2>3, Products
  <2> QED  BY <1>1, <2>2, <2>3, <2>4, ConstantFacts DEF n
<1>6. HeaderBlocks(b) # 0
  BY <1>1, <1>5, ConstantFacts
<1>7. HeaderBlocks(b) < Capacity(b)
  <2>1. 1 * HeaderBlocks(b) <= FULLNESS_DENOMINATOR * HeaderBlocks(b)
    BY <1>5, ConstantFacts, ProductMono
  <2> QED  BY <1>1, <1>2, <1>5, <2>1, ConstantFacts
<1>8. Reserved(b) = 0 .. HeaderBlocks(b) - 1
  BY DEF Reserved, HeaderBlocks
<1>9. IsFiniteSet(Reserved(b)) /\ Cardinality(Reserved(b)) = HeaderBlocks(b)
  <2>1. HeaderBlocks(b) - 1 \in Int /\ 0 <= HeaderBlocks(b) - 1
    BY <1>5, <1>6
  <2>2. IsFiniteSet(0 .. HeaderBlocks(b) - 1)
        /\ Cardinality(0 .. HeaderBlocks(b) - 1) = (HeaderBlocks(b) - 1) - 0 + 1
    BY <2>1, FS_Interval
  <2> QED  BY <1>5, <1>8, <2>2
<1> QED  BY <1>1, <1>2, <1>3, <1>4, <1>5, <1>6, <1>7, <1>8, <1>9

\* A superblock is in the full bin when it is full, in bin 1 while it is nearly empty.
LEMMA FullnessFacts ==
  ASSUME NEW b \in block_sizes, NEW n \in 0 .. Capacity(b)
  PROVE  /\ fullness(n, b) \in 1 .. FULLNESS_DENOMINATOR + 1
         /\ n < Capacity(b) <=> fullness(n, b) <= FULLNESS_DENOMINATOR
         /\ n * FULLNESS_DENOMINATOR < Capacity(b) <=> fullness(n, b) = 1
<1> DEFINE c == Capacity(b)
           F == FULLNESS_DENOMINATOR
           q == (n * F) \div c
<1>1. c \in Nat \ {0} /\ F \in Nat \ {0} /\ n \in Nat /\ n <= c /\ n * F \in Nat
  BY SizeFacts, Products, ConstantFacts
<1>2. fullness(n, b) = q + 1
  BY DEF fullness
<1> HIDE DEF c
<1>3. q \in Nat /\ q * c <= n * F /\ n * F < (q + 1) * c
  <2>1. n * F = q * c + ((n * F) % c) /\ q \in Nat /\ (n * F) % c \in 0 .. c - 1
    BY <1>1, Division
  <2>2. q * c \in Nat /\ (q + 1) * c = q * c + c
    BY <1>1, <2>1, Products
  <2> QED  BY <1>1, <2>1, <2>2
<1> HIDE DEF q, F
<1>4. n * F <= F * c /\ q <= F
  <2>1. n * F <= F * c
    BY <1>1, ProductMono
  <2>2. q * c < (F + 1) * c
    BY <1>1, <1>3, <2>1
  <2> QED  BY <1>1, <1>3, <2>1, <2>2, ProductMonoConverse
<1>5. n < c <=> q < F
  <2>1. ASSUME n < c PROVE q < F
    <3>1. n * F < F * c
      BY <1>1, <2>1
    <3>2. q * c < F * c /\ F \in Nat
      BY <1>1, <1>3, <3>1
    <3> QED  BY <1>1, <1>3, <3>2, ProductMonoConverse
  <2>2. ASSUME q < F PROVE n < c
    <3>1. (q + 1) * c <= F * c /\ q + 1 \in Nat /\ F \in Nat
      BY <1>1, <1>3, <2>2, ProductMono
    <3>2. n * F < c * F
      BY <1>1, <1>3, <3>1
    <3> QED  BY <1>1, <3>2, ProductMonoConverse
  <2> QED  BY <2>1, <2>2
<1>6. n * F < c <=> q = 0
  <2>1. q = 0 => n * F < c
    BY <1>1, <1>3
  <2>2. ASSUME n * F < c PROVE q = 0
    <3>1. q * c < 1 * c
      BY <1>1, <1>3, <2>2
    <3>2. q < 1
      BY <1>1, <1>3, <3>1, ProductMonoConverse
    <3> QED  BY <1>3, <3>2
  <2> QED  BY <2>1, <2>2
<1>7. /\ fullness(n, b) \in 1 .. F + 1 /\ (n < c <=> fullness(n, b) <= F)
      /\ (n * F < c <=> fullness(n, b) = 1)
  BY <1>1, <1>2, <1>3, <1>4, <1>5, <1>6
<1> QED  BY <1>7 DEF c, F

\* A set of numbers has a least one.
LEMMA LeastNumber ==
  ASSUME NEW S, S \subseteq Nat, S # {}
  PROVE  \E x \in S : \A y \in S : x <= y
<1> DEFINE Less == {ss \in Nat \X Nat : ss[1] < ss[2]}
<1>1. IsWellFoundedOn(Less, Nat)
  BY NatLessThanWellFounded DEF OpToRel
<1>2. \E x \in S : \A y \in S : ~ (<<y, x>> \in Less)
  <2> HIDE DEF Less
  <2> QED  BY <1>1, WFMin
<1>3. PICK x \in S : \A y \in S : ~ (<<y, x>> \in Less)
  BY <1>2
<1>4. ASSUME NEW y \in S PROVE x <= y
  <2>1. <<y, x>> \in Less <=> y < x
    OBVIOUS
  <2> QED  BY <1>3, <2>1
<1> QED  BY <1>4

-----------------------------------------------------------------------------
(* Counting bytes. *)

\* The marked bytes of the superblocks O, u blocks of bs bytes in each of them.
Bytes(O, u, bs) == {x \in O \X (0 .. SB_SIZE - 1) : x[2] < u[x[1]] * bs[x[1]]}

\* The marked bytes of one superblock.
Row(s, n) == {s} \X (0 .. n - 1)

\* A row holds as many elements as it is long.
LEMMA RowSize ==
  ASSUME NEW s, NEW n \in Nat
  PROVE  IsFiniteSet(Row(s, n)) /\ Cardinality(Row(s, n)) = n
<1>1. IsFiniteSet(0 .. n - 1) /\ Cardinality(0 .. n - 1) = n
  <2>1. 0 \in Int /\ n - 1 \in Int
    OBVIOUS
  <2>2. /\ IsFiniteSet(0 .. n - 1)
        /\ Cardinality(0 .. n - 1) = IF 0 > n - 1 THEN 0 ELSE (n - 1) - 0 + 1
    BY <2>1, FS_Interval
  <2> QED  BY <2>2
<1>2. IsFiniteSet({s}) /\ Cardinality({s}) = 1
  BY FS_Singleton
<1> DEFINE P == {s}
           Q == 0 .. n - 1
<1>3. IsFiniteSet(P) /\ IsFiniteSet(Q) /\ Cardinality(P) = 1 /\ Cardinality(Q) = n
  BY <1>1, <1>2
<1> HIDE DEF P, Q
<1>4. IsFiniteSet(P \X Q) /\ Cardinality(P \X Q) = Cardinality(P) * Cardinality(Q)
  BY <1>3, FS_Product
<1>5. Row(s, n) = P \X Q
  BY DEF Row, P, Q
<1> QED  BY <1>3, <1>4, <1>5

\* The bytes of a heap are those of one of its superblocks and those of the others.
LEMMA BytesSplit ==
  ASSUME NEW O, IsFiniteSet(O), NEW u, NEW bs, NEW s \in O,
         u[s] * bs[s] \in Nat, u[s] * bs[s] <= SB_SIZE
  PROVE  /\ IsFiniteSet(Bytes(O, u, bs)) /\ IsFiniteSet(Bytes(O \ {s}, u, bs))
         /\ Cardinality(Bytes(O \ {s}, u, bs)) \in Nat
         /\ Cardinality(Bytes(O, u, bs))
              = Cardinality(Bytes(O \ {s}, u, bs)) + u[s] * bs[s]
<1> DEFINE n == u[s] * bs[s]
           C == 0 .. SB_SIZE - 1
           R == Row(s, n)
           T == Bytes(O \ {s}, u, bs)
<1>1. IsFiniteSet(O \X C)
  <2>1. SB_SIZE - 1 \in Int /\ 0 \in Int
    BY ConstantFacts
  <2>2. IsFiniteSet(C)
    BY <2>1, FS_Interval
  <2> HIDE DEF C
  <2> QED  BY <2>2, FS_Product
<1>2. IsFiniteSet(Bytes(O, u, bs))
  <2>1. Bytes(O, u, bs) \in SUBSET (O \X C)
    BY DEF Bytes
  <2> HIDE DEF C
  <2> QED  BY <1>1, <2>1, FS_Subset
<1>3. Bytes(O, u, bs) = T \cup R
  <2>1. ASSUME NEW x \in Bytes(O, u, bs) PROVE x \in T \cup R
    <3>1. x \in O \X C /\ x[2] < u[x[1]] * bs[x[1]]
      BY <2>1 DEF Bytes
    <3>2. CASE x[1] = s
      BY <3>1, <3>2, ConstantFacts DEF Row
    <3>3. CASE x[1] # s
      BY <3>1, <3>3 DEF Bytes
    <3> QED  BY <3>2, <3>3
  <2>2. T \subseteq Bytes(O, u, bs)
    BY DEF Bytes
  <2>3. ASSUME NEW x \in R PROVE x \in Bytes(O, u, bs)
    <3>1. x \in O \X C /\ x[1] = s /\ x[2] < n
      BY <2>3, ConstantFacts DEF Row
    <3> QED  BY <3>1 DEF Bytes
  <2> QED  BY <2>1, <2>2, <2>3
<1>4. T \cap R = {}
  BY DEF Bytes, Row
<1>5. IsFiniteSet(R) /\ Cardinality(R) = n /\ n \in Nat
  BY RowSize
<1>6. T \subseteq Bytes(O, u, bs)
  BY <1>3
<1> DEFINE B == Bytes(O, u, bs)
<1> HIDE DEF n, C, R, T, B
<1>7. IsFiniteSet(T)
  BY <1>2, <1>6, FS_Subset DEF B
<1>8. Cardinality(T) \in Nat
  BY <1>7, FS_CardinalityType
<1>9. Cardinality(T \cup R)
        = Cardinality(T) + Cardinality(R) - Cardinality(T \cap R)
  BY <1>5, <1>7, FS_Union
<1>10. Cardinality(T \cap R) = 0
  BY <1>4, FS_EmptySet
<1>11. Cardinality(B) = Cardinality(T) + n
  BY <1>3, <1>5, <1>8, <1>9, <1>10 DEF B
<1> QED  BY <1>2, <1>7, <1>8, <1>11 DEF B, T, n

\* Only counts and sizes of the superblocks counted matter.
LEMMA BytesFrame ==
  ASSUME NEW O, NEW u1, NEW u2, NEW bs1, NEW bs2,
         \A s \in O : u2[s] = u1[s] /\ bs2[s] = bs1[s]
  PROVE  Bytes(O, u2, bs2) = Bytes(O, u1, bs1)
BY DEF Bytes

\* Superblocks that are each used to at least one part in FULLNESS_DENOMINATOR have at
\* least that share of their bytes in use together: byte a of the superblock s is paired
\* with the used byte a \div FULLNESS_DENOMINATOR of s.
LEMMA ManyBytes ==
  ASSUME NEW O, IsFiniteSet(O), NEW u, NEW bs,
         \A s \in O : u[s] * bs[s] \in Nat
                      /\ SB_SIZE <= (u[s] * bs[s]) * FULLNESS_DENOMINATOR
  PROVE  /\ Cardinality(O) \in Nat /\ Cardinality(Bytes(O, u, bs)) \in Nat
         /\ SB_SIZE * Cardinality(O)
              <= Cardinality(Bytes(O, u, bs)) * FULLNESS_DENOMINATOR
<1> DEFINE F == FULLNESS_DENOMINATOR
           C == 0 .. SB_SIZE - 1
           D == 0 .. F - 1
           B == Bytes(O, u, bs)
           P == O \X C
           Q == B \X D
           pair == [x \in P |-> <<<<x[1], x[2] \div F>>, x[2] % F>>]
<1>1. F \in Nat \ {0} /\ SB_SIZE \in Nat \ {0}
  BY ConstantFacts
<1>2. IsFiniteSet(C) /\ IsFiniteSet(D) /\ Cardinality(C) = SB_SIZE /\ Cardinality(D) = F
  <2>1. /\ IsFiniteSet(C) /\ Cardinality(C) = IF 0 > SB_SIZE - 1 THEN 0
                                              ELSE (SB_SIZE - 1) - 0 + 1
        /\ IsFiniteSet(D) /\ Cardinality(D) = IF 0 > F - 1 THEN 0 ELSE (F - 1) - 0 + 1
    BY <1>1, FS_Interval
  <2> HIDE DEF C, D, F
  <2> QED  BY <1>1, <2>1
<1>3. \A a \in C : /\ a \in Nat /\ a \div F \in C /\ a % F \in D
                   /\ a = (a \div F) * F + (a % F)
  <2> SUFFICES ASSUME NEW a \in C
               PROVE  /\ a \in Nat /\ a \div F \in C /\ a % F \in D
                      /\ a = (a \div F) * F + (a % F)
    OBVIOUS
  <2>1. a \in Nat /\ a < SB_SIZE
    BY <1>1
  <2>2. a \div F \in Nat /\ a % F \in D /\ a = (a \div F) * F + (a % F)
    BY <1>1, <2>1, Division
  <2> HIDE DEF F
  <2>3. 1 * (a \div F) <= F * (a \div F)
    BY <1>1, <2>2, ProductMono
  <2>4. a % F \in Nat
    BY <1>1, <2>2
  <2>5. a \div F <= a
    BY <1>1, <2>1, <2>2, <2>3, <2>4
  <2> QED  BY <1>1, <2>1, <2>2, <2>5
<1>4. ASSUME NEW x \in P PROVE pair[x] \in Q
  <2>1. x[1] \in O /\ x[2] \in C
    OBVIOUS
  <2> DEFINE n == u[x[1]] * bs[x[1]]
             q == x[2] \div F
  <2>2. n \in Nat /\ SB_SIZE <= n * F
    BY <2>1
  <2>3. q \in C /\ x[2] % F \in D /\ x[2] \in Nat /\ x[2] = q * F + (x[2] % F)
    BY <1>3, <2>1
  <2>4. q < n
    <3> HIDE DEF n, q, F
    <3>1. x[2] < SB_SIZE /\ q \in Nat /\ x[2] % F \in Nat
      BY <1>1, <2>1, <2>3
    <3>2. q * F < n * F
      BY <1>1, <2>2, <2>3, <3>1
    <3> QED  BY <1>1, <2>2, <3>1, <3>2, ProductMonoConverse
  <2>5. <<x[1], q>> \in B
    BY <2>1, <2>3, <2>4 DEF Bytes
  <2> QED  BY <2>3, <2>5
<1>5. ASSUME NEW x \in P, NEW y \in P, pair[x] = pair[y] PROVE x = y
  <2>1. x[1] = y[1] /\ x[2] \div F = y[2] \div F /\ x[2] % F = y[2] % F
    BY <1>5
  <2>2. x[2] = y[2]
    <3>1. x[2] \in C /\ y[2] \in C
      OBVIOUS
    <3> QED  BY <1>3, <2>1, <3>1
  <2> QED  BY <2>1, <2>2
<1>6. pair \in Injection(P, Q)
  <2>1. pair \in [P -> Q]
    <3>1. \A x \in P : pair[x] \in Q
      BY <1>4
    <3> HIDE DEF P, Q
    <3> QED  BY <3>1
  <2> HIDE DEF pair, P, Q
  <2> QED  BY <1>5, <2>1 DEF Injection, IsInjective
<1> HIDE DEF F, C, D
<1>7. IsFiniteSet(P) /\ Cardinality(P) = Cardinality(O) * SB_SIZE
  BY <1>2, FS_Product
<1>8. IsFiniteSet(B)
  <2>1. B \in SUBSET P
    BY DEF Bytes, C
  <2> HIDE DEF B, P
  <2> QED  BY <1>7, <2>1, FS_Subset
<1> HIDE DEF B, pair, P
<1>9. IsFiniteSet(Q) /\ Cardinality(Q) = Cardinality(B) * F
  BY <1>2, <1>8, FS_Product
<1> HIDE DEF Q
<1>10. Cardinality(P) <= Cardinality(Q)
  BY <1>6, <1>9, FS_Injection
<1>11. Cardinality(O) \in Nat /\ Cardinality(B) \in Nat
  BY <1>8, FS_CardinalityType
<1>12. SB_SIZE * Cardinality(O) <= Cardinality(B) * F
  BY <1>1, <1>7, <1>9, <1>10, <1>11
<1> QED  BY <1>11, <1>12 DEF B, F

-----------------------------------------------------------------------------
(* The invariant. *)

\* The heap that mm_free read without a lock is still the superblock's.
HIDFresh == \A t \in Threads : pc[t] = "free" => heap_id[freed[t][1]] = HID[t]

\* What mm_free read of the global heap without its lock is still the case.
SeenFresh ==
  \A t \in Threads : pc[t] = "give" => \E x \in Sheddable(HID[t]) : seen[t] = Reading(x)

Readings == [bin : BinIds, first : 1 .. PAGES \cup {NULL}, used : Nat, allocated : Nat]

LocalsOK ==
  /\ request \in [Threads -> block_sizes \cup {0}]
  /\ target \in [Threads -> 1 .. PAGES \cup {NULL}]
  /\ old_fullness \in [Threads -> Bins]
  /\ freed \in [Threads -> ((1 .. PAGES) \X (0 .. SB_SIZE - 1)) \cup {NULL}]
  /\ HID \in [Threads -> Heaps]
  /\ seen \in [Threads -> Readings \cup {NULL}]

\* mm_malloc works on its own heap and holds its lock; mm_free goes on to shed with the
\* lock of the heap that has slack; a block is freed once.
ThreadOK(t) ==
  /\ pc[t] \in {"fetch", "take"} => lock[Heap(t)] = t /\ request[t] \in block_sizes
  /\ pc[t] = "take" =>
       /\ target[t] \in Superblocks
       /\ heap_id[target[t]] = Heap(t) /\ block_size[target[t]] = request[t]
       /\ used_blocks[target[t]] < Capacity(request[t])
       /\ old_fullness[t] = fullness(used_blocks[target[t]], request[t])
  /\ pc[t] = "free" =>
       /\ freed[t] \in Superblocks \X (0 .. SB_SIZE - 1) /\ freed[t] \notin live
       /\ \A u \in Threads \ {t} : pc[u] = "free" => freed[u] # freed[t]
  /\ pc[t] \in {"shed", "give"} =>
       HID[t] # 0 /\ lock[HID[t]] = t /\ HasSlack(HID[t], used[HID[t]])

ThreadsOK == \A t \in Threads : ThreadOK(t)

\* Superblocks have a size, marks within their page, and header blocks no call gets.
BlocksOK ==
  /\ \A s \in Superblocks : /\ block_size[s] \in block_sizes
                            /\ block_map[s] \subseteq 0 .. Capacity(block_size[s]) - 1
  /\ \A x \in live \cup Leaving : x[2] \notin Reserved(block_size[x[1]])

\* Nothing points from a page that is not handed out yet.
PagesOK == \A s \in (1 .. PAGES) \ Superblocks : prev[s] = NULL /\ next[s] = NULL

IInv == TypeOK /\ LocalsOK /\ ThreadsOK /\ BlocksOK /\ MapOK /\ PagesOK /\ BinsOK
        /\ CountersExact

-----------------------------------------------------------------------------
(* What the invariant says of a superblock, a list, a counter. *)

\* A superblock in the lists.
LEMMA SuperblockFacts ==
  ASSUME TypeOK, BlocksOK, MapOK, NEW s \in Superblocks
  PROVE  /\ s \in 1 .. PAGES /\ heap_id[s] \in Heaps /\ block_size[s] \in block_sizes
         /\ IsFiniteSet(block_map[s]) /\ used_blocks[s] = Cardinality(block_map[s])
         /\ used_blocks[s] \in 0 .. Capacity(block_size[s])
         /\ fullness(used_blocks[s], block_size[s]) \in 1 .. FULLNESS_DENOMINATOR + 1
<1>1. s \in 1 .. PAGES /\ heap_id[s] \in Heaps /\ block_size[s] \in block_sizes
  BY ConstantFacts DEF TypeOK, BlocksOK
<1> DEFINE b == block_size[s]
           M == block_map[s]
           C == 0 .. Capacity(b) - 1
<1>2. used_blocks[s] = Cardinality(M) /\ M \in SUBSET C /\ Capacity(b) \in Nat \ {0}
  BY <1>1, SizeFacts DEF MapOK, BlocksOK
<1>3. IsFiniteSet(C) /\ Cardinality(C) = Capacity(b)
  <2>1. 0 \in Int /\ Capacity(b) - 1 \in Int
    BY <1>2
  <2>2. IsFiniteSet(C) /\ Cardinality(C) = IF 0 > Capacity(b) - 1 THEN 0
                                            ELSE (Capacity(b) - 1) - 0 + 1
    BY <2>1, FS_Interval
  <2> HIDE DEF C
  <2> QED  BY <1>2, <2>2
<1>4. IsFiniteSet(M) /\ Cardinality(M) <= Capacity(b) /\ Cardinality(M) \in Nat
  <2> HIDE DEF C, M
  <2> QED  BY <1>2, <1>3, FS_Subset, FS_CardinalityType
<1>5. used_blocks[s] \in 0 .. Capacity(b)
  BY <1>2, <1>4
<1>6. fullness(used_blocks[s], b) \in 1 .. FULLNESS_DENOMINATOR + 1
  BY <1>1, <1>5, FullnessFacts
<1> QED  BY <1>1, <1>2, <1>4, <1>5, <1>6

\* The bytes of a superblock that are marked.
LEMMA BytesMovedFacts ==
  ASSUME TypeOK, BlocksOK, MapOK, NEW s \in Superblocks
  PROVE  BytesMoved(s) \in Nat /\ BytesMoved(s) <= SB_SIZE
<1> DEFINE b == block_size[s]
           n == used_blocks[s]
<1>1. /\ b \in Nat /\ Capacity(b) \in Nat /\ n \in Nat /\ n <= Capacity(b)
      /\ Capacity(b) * b = SB_SIZE
  BY SuperblockFacts, SizeFacts
<1> HIDE DEF b, n
<1>2. n * b \in Nat /\ n * b <= SB_SIZE
  BY <1>1, Products, ProductMono
<1> QED  BY <1>2 DEF BytesMoved, b, n

\* A heap's superblocks are finitely many; its bytes in use, in the words of Bytes.
LEMMA OwnedFacts ==
  ASSUME TypeOK, NEW h
  PROVE  /\ IsFiniteSet(Owned(h)) /\ Cardinality(Owned(h)) \in Nat
         /\ Owned(h) \subseteq Superblocks
         /\ UsedBytes(h) = Bytes(Owned(h), used_blocks, block_size)
<1>1. brk \in Nat /\ 1 \in Int /\ brk \in Int
  BY ConstantFacts DEF TypeOK
<1>2. IsFiniteSet(1 .. brk)
  BY <1>1, FS_Interval
<1>3. Owned(h) \in SUBSET (1 .. brk)
  BY DEF Owned
<1>4. IsFiniteSet(Owned(h)) /\ Cardinality(Owned(h)) \in Nat
  BY <1>2, <1>3, FS_Subset, FS_CardinalityType
<1>5. UsedBytes(h) = Bytes(Owned(h), used_blocks, block_size)
  BY DEF UsedBytes, Bytes
<1> QED  BY <1>3, <1>4, <1>5

\* The lists of a heap are disjoint, and a superblock is in the one of its size and fullness.
LEMMA BinFacts ==
  ASSUME TypeOK, BlocksOK, MapOK
  PROVE  /\ \A x \in BinIds : InBin(x) \in SUBSET (1 .. PAGES)
         /\ \A x \in BinIds : \A y \in BinIds : x # y => InBin(x) \cap InBin(y) = {}
         /\ \A h \in Heaps, b \in block_sizes : InBin(<<h, b, 0>>) = {}
<1>1. \A x \in BinIds : InBin(x) \in SUBSET (1 .. PAGES)
  BY ConstantFacts DEF TypeOK, InBin
<1>2. ASSUME NEW x \in BinIds, NEW y \in BinIds, NEW s \in InBin(x), s \in InBin(y)
      PROVE  x = y
  BY <1>2 DEF InBin
<1>3. ASSUME NEW h \in Heaps, NEW b \in block_sizes, NEW s \in InBin(<<h, b, 0>>)
      PROVE  FALSE
  <2>1. s \in Superblocks /\ block_size[s] = b /\ fullness(used_blocks[s], b) = 0
    BY DEF InBin
  <2>2. fullness(used_blocks[s], b) \in 1 .. FULLNESS_DENOMINATOR + 1
    BY <2>1, SuperblockFacts
  <2> QED  BY <2>1, <2>2, ConstantFacts
<1> QED  BY <1>1, <1>2, <1>3

\* A list is walked to its end, and every superblock found is one of it.
LEMMA WalkFacts ==
  ASSUME TypeOK, BlocksOK, MapOK, BinsOK, NEW x \in BinIds
  PROVE  /\ Walk(bin_first[x], next) = InBin(x)
         /\ bin_first[x] \in InBin(x) \cup {NULL} /\ (bin_first[x] = NULL <=> InBin(x) = {})
<1> DEFINE A == 1 .. PAGES
           S == InBin(x)
           h == bin_first[x]
<1>1. /\ S \in SUBSET A /\ IsChain(S, h, next) /\ next \in [A -> A \cup {NULL}]
  BY BinFacts DEF BinsOK, IsDoublyLinked, TypeOK
<1> HIDE DEF A, S, h
<1>2. Walk(h, next) = S
  BY <1>1, WalkVisitsChain
<1>3. h \in S \cup {NULL} /\ (h = NULL <=> S = {})
  BY <1>1 DEF IsChain
<1> QED  BY <1>2, <1>3 DEF S, h

-----------------------------------------------------------------------------
(* What the operations on lists and counters do. *)

\* A superblock moves to the bin it belongs in now: every list is again its bin.
LEMMA TransferKeepsBins ==
  ASSUME TypeOK, BlocksOK, MapOK, PagesOK, BinsOK,
         NEW s \in 1 .. PAGES, NEW orig \in BinIds, NEW dest \in BinIds, orig # dest,
         s \in InBin(orig) \/ (s \notin Superblocks /\ bin_first[orig] = NULL),
         transfer_bins(s, orig, dest),
         \A p \in (1 .. PAGES) \ Superblocks' : p # s /\ p \notin Superblocks,
         \A x \in BinIds :
           InBin(x)' = IF x = dest THEN InBin(x) \cup {s} ELSE InBin(x) \ {s}
  PROVE  /\ bin_first' \in [BinIds -> 1 .. PAGES \cup {NULL}]
         /\ next' \in [1 .. PAGES -> 1 .. PAGES \cup {NULL}]
         /\ prev' \in [1 .. PAGES -> 1 .. PAGES \cup {NULL}]
         /\ BinsOK' /\ PagesOK'
<1> DEFINE A == 1 .. PAGES
           I == BinIds
           B == [x \in I |-> InBin(x)]
           first == bin_first
           g == UnlinkedHead(first[orig], next, prev, s)
           n1 == UnlinkedNext(next, prev, s)
           p1 == UnlinkedPrev(next, prev, s)
<1>1. /\ NULL \notin A /\ B \in [I -> SUBSET A] /\ first \in [I -> A \cup {NULL}]
      /\ next \in [A -> A \cup {NULL}] /\ prev \in [A -> A \cup {NULL}]
      /\ orig \in I /\ dest \in I /\ s \in A
  BY BinFacts, ConstantFacts DEF TypeOK
<1>2. ListFamily(A, I, B, first, next, prev)
  <2>1. \A i \in I : \A j \in I : i # j => B[i] \cap B[j] = {}
    BY BinFacts
  <2>2. \A i \in I : IsDoublyLinked(B[i], first[i], next, prev)
    BY DEF BinsOK
  <2> HIDE DEF A, I, B, first
  <2> QED  BY <1>1, <2>1, <2>2 DEF ListFamily
<1>4. Removable(I, B, first, next, prev, orig, s)
  <2>1. CASE s \in InBin(orig)
    BY <2>1 DEF Removable
  <2>2. CASE s \notin Superblocks /\ bin_first[orig] = NULL
    <3>1. \A i \in I : s \notin B[i]
      BY <2>2 DEF InBin
    <3> QED  BY <2>2, <3>1 DEF PagesOK, Removable
  <2> QED  BY <2>1, <2>2
<1>5. AfterUnlink(first[orig], next, prev, s, g, n1, p1)
  BY DEF AfterUnlink
<1>6. /\ AfterPush(first[dest], n1, p1, s, next', prev')
      /\ bin_first' = [[bin_first EXCEPT ![orig] = g] EXCEPT ![dest] = s]
  <2>1. [bin_first EXCEPT ![orig] = g][dest] = bin_first[dest]
    BY <1>1
  <2>2. /\ next' = [n1 EXCEPT ![s] = [bin_first EXCEPT ![orig] = g][dest]]
        /\ bin_first' = [[bin_first EXCEPT ![orig] = g] EXCEPT ![dest] = s]
        /\ prev' = RelinkedPrev(s, bin_first[dest])
    BY <2>1 DEF transfer_bins, Relinked
  <2> QED  BY <2>1, <2>2 DEF AfterPush, RelinkedPrev
<1>7. /\ g \in A \cup {NULL}
      /\ next' \in [A -> A \cup {NULL}] /\ prev' \in [A -> A \cup {NULL}]
      /\ \A x \in A : x # s /\ (\A i \in I : x \notin B[i])
                        => next'[x] = next[x] /\ prev'[x] = prev[x]
      /\ IsDoublyLinked(B[orig] \ {s}, g, next', prev')
      /\ IsDoublyLinked(B[dest] \cup {s}, s, next', prev')
      /\ \A i \in I \ {orig, dest} : IsDoublyLinked(B[i] \ {s}, first[i], next', prev')
  <2>1. /\ AfterUnlink(first[orig], next, prev, s, g, n1, p1)
        /\ AfterPush(first[dest], n1, p1, s, next', prev') /\ orig # dest
        /\ NULL \notin A /\ orig \in I /\ dest \in I /\ s \in A
    BY <1>1, <1>5, <1>6
  <2> HIDE DEF A, I, B, first, g, n1, p1
  <2>2. Moved(A, I, B, first, next, prev, orig, dest, s, g, next', prev')
    BY <1>2, <1>4, <2>1, DoublyMove
  <2> QED  BY <2>2 DEF Moved
<1>8. /\ bin_first' \in [I -> A \cup {NULL}]
      /\ bin_first'[orig] = g /\ bin_first'[dest] = s
      /\ \A i \in I \ {orig, dest} : bin_first'[i] = first[i]
  <2> HIDE DEF A, I, g
  <2> QED  BY <1>1, <1>6, <1>7
<1>9. BinsOK'
  <2>1. ASSUME NEW x \in I
        PROVE  IsDoublyLinked(InBin(x)', bin_first'[x], next', prev')
    <3> HIDE DEF g, A
    <3>1. CASE x = orig
      <4>1. InBin(x)' = B[orig] \ {s}
        BY <3>1
      <4> QED  BY <1>7, <1>8, <3>1, <4>1
    <3>2. CASE x = dest
      <4>1. InBin(x)' = B[dest] \cup {s}
        BY <3>2
      <4> QED  BY <1>7, <1>8, <3>2, <4>1
    <3>3. CASE x \notin {orig, dest}
      <4>1. x \in I \ {orig, dest}
        BY <3>3
      <4>2. InBin(x)' = B[x] \ {s}
        BY <3>3
      <4>3. bin_first'[x] = first[x]
        BY <1>8, <4>1
      <4>4. IsDoublyLinked(B[x] \ {s}, first[x], next', prev')
        BY <1>7, <4>1
      <4> QED  BY <4>2, <4>3, <4>4
    <3> QED  BY <3>1, <3>2, <3>3
  <2> QED  BY <2>1 DEF BinsOK
<1>10. PagesOK'
  <2>1. ASSUME NEW p \in A \ Superblocks' PROVE prev'[p] = NULL /\ next'[p] = NULL
    <3>1. p # s /\ p \in A \ Superblocks /\ \A i \in I : p \notin B[i]
      BY DEF InBin
    <3>2. next'[p] = next[p] /\ prev'[p] = prev[p]
      BY <1>7, <3>1
    <3> QED  BY <3>1, <3>2 DEF PagesOK
  <2> QED  BY <2>1 DEF PagesOK
<1> QED  BY <1>7, <1>8, <1>9, <1>10

\* A heap's bytes in use, one of its superblocks apart.
LEMMA UsedSplit ==
  ASSUME TypeOK, BlocksOK, MapOK, NEW s \in Superblocks, NEW h, heap_id[s] = h
  PROVE  LET rest == Cardinality(Bytes(Owned(h) \ {s}, used_blocks, block_size))
         IN  rest \in Nat /\ Cardinality(UsedBytes(h)) = rest + BytesMoved(s)
<1> DEFINE O == Owned(h)
<1>1. IsFiniteSet(O) /\ s \in O /\ UsedBytes(h) = Bytes(O, used_blocks, block_size)
  BY OwnedFacts DEF Owned
<1>2. used_blocks[s] * block_size[s] \in Nat /\ used_blocks[s] * block_size[s] <= SB_SIZE
  BY BytesMovedFacts DEF BytesMoved
<1> HIDE DEF O
<1>3. /\ Cardinality(Bytes(O \ {s}, used_blocks, block_size)) \in Nat
      /\ Cardinality(Bytes(O, used_blocks, block_size))
           = Cardinality(Bytes(O \ {s}, used_blocks, block_size))
             + used_blocks[s] * block_size[s]
  BY <1>1, <1>2, BytesSplit
<1> QED  BY <1>1, <1>3 DEF O, BytesMoved

\* The same when the superblock s joins the heap h.
LEMMA UsedJoin ==
  ASSUME TypeOK, NEW h, NEW s, s \notin Owned(h), NEW u, NEW bs,
         \A p \in Owned(h) : u[p] = used_blocks[p] /\ bs[p] = block_size[p],
         u[s] * bs[s] \in Nat, u[s] * bs[s] <= SB_SIZE
  PROVE  Cardinality(Bytes(Owned(h) \cup {s}, u, bs))
           = Cardinality(UsedBytes(h)) + u[s] * bs[s]
<1> DEFINE O == Owned(h)
           P == O \cup {s}
<1>1. IsFiniteSet(O) /\ UsedBytes(h) = Bytes(O, used_blocks, block_size)
  BY OwnedFacts
<1>2. P \ {s} = O /\ s \in P
  OBVIOUS
<1>3. Bytes(O, u, bs) = Bytes(O, used_blocks, block_size)
  BY BytesFrame
<1>4. IsFiniteSet(P)
  <2> HIDE DEF O
  <2> QED  BY <1>1, FS_AddElement
<1> HIDE DEF O, P
<1>5. Cardinality(Bytes(P, u, bs)) = Cardinality(Bytes(P \ {s}, u, bs)) + u[s] * bs[s]
  BY <1>2, <1>4, BytesSplit
<1>6. Cardinality(Bytes(P, u, bs)) = Cardinality(UsedBytes(h)) + u[s] * bs[s]
  BY <1>1, <1>2, <1>3, <1>5
<1> QED  BY <1>6 DEF O, P

\* transfer_bins takes the superblock's pages and marked bytes from one heap's counters
\* to the other's.
LEMMA RehomedKeepsCounters ==
  ASSUME TypeOK, BlocksOK, MapOK, CountersExact, NEW s \in Superblocks,
         NEW from \in Heaps, NEW to \in Heaps, from # to, heap_id[s] = from,
         Rehomed(s, from, to), UNCHANGED <<brk, block_size, used_blocks>>
  PROVE  /\ heap_id' \in [1 .. PAGES -> Heaps]
         /\ allocated' \in [Heaps -> Nat] /\ used' \in [Heaps -> Nat]
         /\ CountersExact'
<1> DEFINE m == BytesMoved(s)
<1>1. /\ s \in 1 .. PAGES /\ SB_SIZE \in Nat /\ m \in Nat /\ m <= SB_SIZE
      /\ heap_id \in [1 .. PAGES -> Heaps]
      /\ allocated \in [Heaps -> Nat] /\ used \in [Heaps -> Nat]
  BY SuperblockFacts, BytesMovedFacts, ConstantFacts DEF TypeOK
<1>2. /\ heap_id' = [heap_id EXCEPT ![s] = to]
      /\ used' = [used EXCEPT ![from] = @ - m, ![to] = @ + m]
      /\ allocated' = [allocated EXCEPT ![from] = @ - SB_SIZE, ![to] = @ + SB_SIZE]
  BY DEF Rehomed
<1>3. heap_id' \in [1 .. PAGES -> Heaps] /\ heap_id'[s] = to
      /\ \A p \in 1 .. PAGES : p # s => heap_id'[p] = heap_id[p]
  BY <1>1, <1>2
<1>4. Superblocks' = Superblocks /\ Superblocks \subseteq 1 .. PAGES
  BY ConstantFacts DEF TypeOK
<1>5. /\ Owned(from)' = Owned(from) \ {s} /\ s \in Owned(from)
      /\ Owned(to)' = Owned(to) \cup {s} /\ s \notin Owned(to)
      /\ \A h \in Heaps \ {from, to} : Owned(h)' = Owned(h)
  BY <1>3, <1>4 DEF Owned
<1>6. \A h \in Heaps : UsedBytes(h)' = Bytes(Owned(h)', used_blocks, block_size)
  <2>1. UsedBytes(from)' = UsedBytes(from)'
    OBVIOUS
  <2> QED  BY DEF UsedBytes, Bytes
<1>7. \A h \in Heaps : IsFiniteSet(Owned(h)) /\ Cardinality(Owned(h)) \in Nat
                       /\ UsedBytes(h) = Bytes(Owned(h), used_blocks, block_size)
  BY OwnedFacts
<1>8. \A h \in Heaps : /\ allocated[h] = SB_SIZE * Cardinality(Owned(h))
                       /\ used[h] = Cardinality(UsedBytes(h))
  BY DEF CountersExact
<1>9. /\ Cardinality(Owned(from) \ {s}) = Cardinality(Owned(from)) - 1
      /\ Cardinality(Owned(from) \ {s}) \in Nat
      /\ Cardinality(Owned(to) \cup {s}) = Cardinality(Owned(to)) + 1
  BY <1>5, <1>7, FS_AddElement, FS_RemoveElement, FS_CardinalityType
<1>10. /\ Cardinality(Bytes(Owned(from) \ {s}, used_blocks, block_size)) \in Nat
       /\ Cardinality(UsedBytes(from))
            = Cardinality(Bytes(Owned(from) \ {s}, used_blocks, block_size)) + m
  BY UsedSplit
<1>11. Cardinality(Bytes(Owned(to) \cup {s}, used_blocks, block_size))
         = Cardinality(UsedBytes(to)) + m
  <2>1. used_blocks[s] * block_size[s] \in Nat /\ used_blocks[s] * block_size[s] <= SB_SIZE
    BY <1>1 DEF BytesMoved
  <2> QED  BY <1>5, <2>1, UsedJoin DEF BytesMoved
<1> HIDE DEF m
<1>12. /\ \A h \in Heaps \ {from, to} : used'[h] = used[h] /\ allocated'[h] = allocated[h]
       /\ used'[from] = used[from] - m /\ used'[to] = used[to] + m
       /\ allocated'[from] = allocated[from] - SB_SIZE
       /\ allocated'[to] = allocated[to] + SB_SIZE
  BY <1>1, <1>2
<1>13. ASSUME NEW h \in Heaps
       PROVE  /\ allocated'[h] = SB_SIZE * Cardinality(Owned(h)')
              /\ used'[h] = Cardinality(UsedBytes(h)')
              /\ allocated'[h] \in Nat /\ used'[h] \in Nat
  <2>1. CASE h = from
    <3>1. used'[h] = Cardinality(UsedBytes(h)') /\ used'[h] \in Nat
      <4> DEFINE r == Cardinality(Bytes(Owned(from) \ {s}, used_blocks, block_size))
      <4>1. Cardinality(UsedBytes(h)') = r
        BY <1>5, <1>6, <2>1
      <4>2. r \in Nat /\ used[from] = r + m /\ used'[h] = used[from] - m
        BY <1>8, <1>10, <1>12, <2>1
      <4> HIDE DEF r
      <4>3. used'[h] = r
        BY <1>1, <4>2
      <4> QED  BY <4>1, <4>2, <4>3
    <3> DEFINE c == Cardinality(Owned(from))
    <3>2. /\ c \in Nat /\ c - 1 \in Nat /\ Cardinality(Owned(h)') = c - 1
          /\ allocated'[h] = SB_SIZE * c - SB_SIZE
      BY <1>5, <1>7, <1>8, <1>9, <1>12, <2>1
    <3> HIDE DEF c
    <3>3. allocated'[h] = SB_SIZE * (c - 1) /\ SB_SIZE * (c - 1) \in Nat
      BY <1>1, <3>2
    <3> QED  BY <3>1, <3>2, <3>3
  <2>2. CASE h = to
    <3>1. used'[h] = Cardinality(UsedBytes(h)') /\ used'[h] \in Nat
      <4> DEFINE r == Cardinality(Bytes(Owned(to) \cup {s}, used_blocks, block_size))
      <4>1. Cardinality(UsedBytes(h)') = r
        BY <1>5, <1>6, <2>2
      <4>2. r = used[to] + m /\ used'[h] = used[to] + m /\ used[to] \in Nat
        BY <1>1, <1>8, <1>11, <1>12, <2>2
      <4> HIDE DEF r
      <4>3. used'[h] = r /\ r \in Nat
        BY <1>1, <4>2
      <4> QED  BY <4>1, <4>3
    <3> DEFINE c == Cardinality(Owned(to))
    <3>2. /\ c \in Nat /\ Cardinality(Owned(h)') = c + 1
          /\ allocated'[h] = SB_SIZE * c + SB_SIZE
      BY <1>5, <1>7, <1>8, <1>9, <1>12, <2>2
    <3> HIDE DEF c
    <3>3. allocated'[h] = SB_SIZE * (c + 1) /\ SB_SIZE * (c + 1) \in Nat
      BY <1>1, <3>2
    <3> QED  BY <3>1, <3>2, <3>3
  <2>3. CASE h \notin {from, to}
    <3>1. Owned(h)' = Owned(h) /\ UsedBytes(h)' = UsedBytes(h)
      BY <1>5, <1>6, <1>7, <2>3
    <3> QED  BY <1>1, <1>8, <1>12, <2>3, <3>1
  <2> QED  BY <2>1, <2>2, <2>3
<1>14. allocated' \in [Heaps -> Nat] /\ used' \in [Heaps -> Nat]
  <2>1. DOMAIN used' = Heaps /\ DOMAIN allocated' = Heaps
        /\ used' = [h \in Heaps |-> used'[h]] /\ allocated' = [h \in Heaps |-> allocated'[h]]
    BY <1>1, <1>2
  <2> QED  BY <1>13, <2>1
<1> QED  BY <1>3, <1>13, <1>14 DEF CountersExact

\* One superblock has n blocks in use now, and its heap's counter follows.
LEMMA RecountedKeepsCounters ==
  ASSUME TypeOK, BlocksOK, MapOK, CountersExact, NEW s \in Superblocks, NEW n \in Nat,
         NEW h, h = heap_id[s], n * block_size[s] <= SB_SIZE,
         used_blocks' = [used_blocks EXCEPT ![s] = n],
         used' = [used EXCEPT ![h] = (used[h] - BytesMoved(s)) + n * block_size[s]],
         UNCHANGED <<brk, block_size, heap_id, allocated>>
  PROVE  used' \in [Heaps -> Nat] /\ CountersExact'
<1> DEFINE b == block_size[s]
           m == BytesMoved(s)
           rest == Cardinality(Bytes(Owned(h) \ {s}, used_blocks, block_size))
<1>1. /\ s \in 1 .. PAGES /\ h \in Heaps /\ b \in Nat /\ n * b \in Nat
      /\ used_blocks \in [1 .. PAGES -> 0 .. SB_SIZE] /\ used \in [Heaps -> Nat]
      /\ m \in Nat
  <2>1. b \in Nat
    BY SuperblockFacts, SizeFacts
  <2>2. n * b \in Nat
    <3> HIDE DEF b
    <3> QED  BY <2>1, Products
  <2> QED  BY <2>1, <2>2, SuperblockFacts, BytesMovedFacts DEF TypeOK
<1>2. used_blocks'[s] = n /\ \A p \in 1 .. PAGES : p # s => used_blocks'[p] = used_blocks[p]
  BY <1>1
<1>3. \A g \in Heaps : /\ Owned(g)' = Owned(g) /\ Owned(g) \subseteq 1 .. PAGES
                       /\ g # h => s \notin Owned(g)
  <2>1. \A g \in Heaps : Owned(g)' = Owned(g) /\ Owned(g) \subseteq Superblocks
    BY DEF Owned
  <2>2. \A g \in Heaps : g # h => s \notin Owned(g)
    BY DEF Owned
  <2>3. Superblocks \subseteq 1 .. PAGES
    BY ConstantFacts DEF TypeOK
  <2> QED  BY <2>1, <2>2, <2>3
<1>4. \A g \in Heaps : UsedBytes(g)' = Bytes(Owned(g), used_blocks', block_size)
  BY <1>3 DEF UsedBytes, Bytes
<1>5. \A g \in Heaps : /\ UsedBytes(g) = Bytes(Owned(g), used_blocks, block_size)
                       /\ used[g] = Cardinality(UsedBytes(g))
  BY OwnedFacts DEF CountersExact
<1>6. rest \in Nat /\ used[h] = rest + m
  BY <1>1, <1>5, UsedSplit
<1>7. Cardinality(UsedBytes(h)') = rest + n * b
  <2> DEFINE O == Owned(h)
  <2>1. IsFiniteSet(O) /\ s \in O
    BY OwnedFacts DEF Owned
  <2>2. used_blocks'[s] * block_size[s] \in Nat /\ used_blocks'[s] * block_size[s] <= SB_SIZE
    BY <1>1, <1>2
  <2>3. Bytes(O \ {s}, used_blocks', block_size) = Bytes(O \ {s}, used_blocks, block_size)
    <3>1. \A p \in O \ {s} : used_blocks'[p] = used_blocks[p]
                              /\ block_size[p] = block_size[p]
      BY <1>1, <1>2, <1>3
    <3> QED  BY <3>1 DEF Bytes
  <2> DEFINE u == used_blocks'
             bs == block_size
  <2> HIDE DEF O, u, bs
  <2>4. u[s] * bs[s] \in Nat /\ u[s] * bs[s] <= SB_SIZE
    BY <2>2 DEF u, bs
  <2>5. Cardinality(Bytes(O, u, bs)) = Cardinality(Bytes(O \ {s}, u, bs)) + u[s] * bs[s]
    BY <2>1, <2>4, BytesSplit
  <2> QED  BY <1>1, <1>2, <1>4, <2>3, <2>5 DEF O, u, bs
<1> HIDE DEF b, m, rest
<1>8. used' = [used EXCEPT ![h] = (used[h] - m) + n * b]
  BY DEF b, m
<1>9. (used[h] - m) + n * b = rest + n * b /\ rest + n * b \in Nat
  BY <1>1, <1>6
<1>10. /\ used' \in [Heaps -> Nat] /\ used'[h] = rest + n * b
       /\ \A g \in Heaps \ {h} : used'[g] = used[g]
  BY <1>1, <1>8, <1>9
<1>11. ASSUME NEW g \in Heaps PROVE used'[g] = Cardinality(UsedBytes(g)')
  <2>1. CASE g = h
    BY <1>7, <1>10, <2>1
  <2>2. CASE g # h
    <3>1. UsedBytes(g)' = UsedBytes(g)
      <4>1. \A p \in Owned(g) : used_blocks'[p] = used_blocks[p]
        BY <1>2, <1>3, <2>2
      <4>2. Bytes(Owned(g), used_blocks', block_size)
              = Bytes(Owned(g), used_blocks, block_size)
        BY <4>1 DEF Bytes
      <4> QED  BY <1>4, <1>5, <4>2
    <3> QED  BY <1>5, <1>10, <2>2, <3>1
  <2> QED  BY <2>1, <2>2
<1>12. \A g \in Heaps : allocated'[g] = SB_SIZE * Cardinality(Owned(g)')
  BY <1>3 DEF CountersExact
<1> QED  BY <1>10, <1>11, <1>12 DEF CountersExact

\* A new superblock joins the heap h with n blocks in use.
LEMMA NewKeepsCounters ==
  ASSUME TypeOK, BlocksOK, MapOK, CountersExact, brk < PAGES, NEW s, s = brk + 1,
         NEW h \in Heaps, NEW n \in Nat, NEW b \in Nat, n * b <= SB_SIZE,
         brk' = s, heap_id' = [heap_id EXCEPT ![s] = h],
         block_size' = [block_size EXCEPT ![s] = b],
         used_blocks' = [used_blocks EXCEPT ![s] = n],
         used' = [used EXCEPT ![h] = @ + n * b],
         allocated' = [allocated EXCEPT ![h] = @ + SB_SIZE]
  PROVE  used' \in [Heaps -> Nat] /\ allocated' \in [Heaps -> Nat] /\ CountersExact'
<1>0. n * b \in Nat
  BY Products
<1>1. /\ brk \in Nat /\ s \in 1 .. PAGES /\ s \notin Superblocks
      /\ Superblocks \subseteq 1 .. PAGES /\ Superblocks' = Superblocks \cup {s}
      /\ used \in [Heaps -> Nat] /\ allocated \in [Heaps -> Nat]
      /\ SB_SIZE \in Nat /\ n * b \in Nat
  <2>1. brk \in Nat /\ PAGES \in Nat /\ brk < PAGES /\ brk' = brk + 1 /\ SB_SIZE \in Nat
    BY ConstantFacts DEF TypeOK
  <2>2. /\ s \in 1 .. PAGES /\ s \notin Superblocks /\ Superblocks \subseteq 1 .. PAGES
        /\ Superblocks' = Superblocks \cup {s}
    BY <2>1
  <2>3. used \in [Heaps -> Nat] /\ allocated \in [Heaps -> Nat]
    BY DEF TypeOK
  <2> QED  BY <1>0, <2>1, <2>2, <2>3
<1>2. /\ heap_id'[s] = h /\ block_size'[s] = b /\ used_blocks'[s] = n
      /\ \A p \in Superblocks : /\ heap_id'[p] = heap_id[p] /\ block_size'[p] = block_size[p]
                                /\ used_blocks'[p] = used_blocks[p]
  BY <1>1 DEF TypeOK
<1>3. /\ Owned(h)' = Owned(h) \cup {s} /\ s \notin Owned(h)
      /\ \A g \in Heaps : g # h => Owned(g)' = Owned(g)
  BY <1>1, <1>2 DEF Owned
<1>4. \A g \in Heaps : UsedBytes(g)' = Bytes(Owned(g)', used_blocks', block_size')
  BY DEF UsedBytes, Bytes
<1>5. \A g \in Heaps : /\ UsedBytes(g) = Bytes(Owned(g), used_blocks, block_size)
                       /\ IsFiniteSet(Owned(g)) /\ Cardinality(Owned(g)) \in Nat
                       /\ used[g] = Cardinality(UsedBytes(g))
                       /\ allocated[g] = SB_SIZE * Cardinality(Owned(g))
  BY OwnedFacts DEF CountersExact
<1>6. Cardinality(Owned(h) \cup {s}) = Cardinality(Owned(h)) + 1
  BY <1>3, <1>5, FS_AddElement
<1>7. Cardinality(UsedBytes(h)') = Cardinality(UsedBytes(h)) + n * b
  <2>1. /\ used_blocks'[s] * block_size'[s] = n * b
        /\ \A p \in Owned(h) : used_blocks'[p] = used_blocks[p]
                               /\ block_size'[p] = block_size[p]
    BY <1>2 DEF Owned
  <2> DEFINE u == used_blocks'
             bs == block_size'
  <2>2. /\ u[s] * bs[s] \in Nat /\ u[s] * bs[s] <= SB_SIZE /\ s \notin Owned(h)
        /\ \A p \in Owned(h) : u[p] = used_blocks[p] /\ bs[p] = block_size[p]
    BY <1>1, <1>3, <2>1
  <2> HIDE DEF u, bs
  <2>3. Cardinality(Bytes(Owned(h) \cup {s}, u, bs))
          = Cardinality(UsedBytes(h)) + u[s] * bs[s]
    BY <2>2, UsedJoin
  <2> QED  BY <1>3, <1>4, <2>1, <2>3 DEF u, bs
<1>8. /\ used' \in [Heaps -> Nat] /\ used'[h] = used[h] + n * b
      /\ allocated' \in [Heaps -> Nat] /\ allocated'[h] = allocated[h] + SB_SIZE
      /\ \A g \in Heaps : g # h => used'[g] = used[g] /\ allocated'[g] = allocated[g]
  <2> DEFINE m == n * b
  <2>1. m \in Nat /\ used' = [used EXCEPT ![h] = @ + m]
    BY <1>1
  <2> HIDE DEF m
  <2>2. /\ used' \in [Heaps -> Nat] /\ used'[h] = used[h] + m
        /\ allocated' \in [Heaps -> Nat] /\ allocated'[h] = allocated[h] + SB_SIZE
        /\ \A g \in Heaps : g # h => used'[g] = used[g] /\ allocated'[g] = allocated[g]
    BY <1>1, <2>1
  <2> QED  BY <2>2 DEF m
<1>9. ASSUME NEW g \in Heaps
      PROVE  /\ allocated'[g] = SB_SIZE * Cardinality(Owned(g)')
             /\ used'[g] = Cardinality(UsedBytes(g)')
  <2>1. CASE g = h
    <3> DEFINE c == Cardinality(Owned(h))
    <3>1. c \in Nat /\ allocated'[g] = SB_SIZE * c + SB_SIZE /\ Cardinality(Owned(g)') = c + 1
      BY <1>3, <1>5, <1>6, <1>8, <2>1
    <3> HIDE DEF c
    <3>2. allocated'[g] = SB_SIZE * (c + 1)
      BY <1>1, <3>1
    <3>3. used'[g] = Cardinality(UsedBytes(g)')
      BY <1>5, <1>7, <1>8, <2>1
    <3> QED  BY <3>1, <3>2, <3>3
  <2>2. CASE g # h
    <3>1. Owned(g)' = Owned(g)
      BY <1>3, <2>2
    <3>2. \A p \in Owned(g) : used_blocks'[p] = used_blocks[p]
                              /\ block_size'[p] = block_size[p]
      BY <1>2 DEF Owned
    <3>3. UsedBytes(g)' = UsedBytes(g)
      <4>1. Bytes(Owned(g), used_blocks', block_size')
              = Bytes(Owned(g), used_blocks, block_size)
        BY <3>2 DEF Bytes
      <4> QED  BY <1>4, <1>5, <3>1, <4>1
    <3> QED  BY <1>5, <1>8, <2>2, <3>1, <3>3
  <2> QED  BY <2>1, <2>2
<1> QED  BY <1>8, <1>9 DEF CountersExact

-----------------------------------------------------------------------------
(* What a step leaves alone. *)

\* A thread that is not freeing before or after its step takes nothing from Leaving.
LEMMA LeavingSame ==
  ASSUME NEW t \in Threads, pc[t] # "free", pc'[t] # "free",
         \A u \in Threads \ {t} : pc'[u] = pc[u] /\ freed'[u] = freed[u]
  PROVE  Leaving' = Leaving
<1>1. \A u \in Threads : (pc'[u] = "free") <=> (pc[u] = "free")
  OBVIOUS
<1>2. \A u \in Threads : pc[u] = "free" => freed'[u] = freed[u]
  OBVIOUS
<1> QED  BY <1>1, <1>2 DEF Leaving

\* A thread's own heap is never the global one.
LEMMA HeapOfThread ==
  ASSUME TypeOK, NEW t \in Threads
  PROVE  Heap(t) \in Heaps /\ Heap(t) # 0
<1>1. cpu[t] \in 0 .. NumProcessors - 1 /\ NumProcessors \in Nat \ {0}
  BY ConstantFacts DEF TypeOK
<1> QED  BY <1>1 DEF Heap

\* A step of t that respects the locks of the others leaves them as they were.
LEMMA OthersKept ==
  ASSUME ThreadsOK, NEW t \in Threads, ThreadOK(t)',
         TypeOK, LocalsOK, cpu' = cpu,
         \A u \in Threads \ {t} :
           /\ pc'[u] = pc[u] /\ request'[u] = request[u] /\ target'[u] = target[u]
           /\ old_fullness'[u] = old_fullness[u]
           /\ freed'[u] = freed[u] /\ HID'[u] = HID[u],
         \A h \in Heaps : lock[h] \in Threads \ {t} => lock'[h] = lock[h],
         \A s \in Superblocks :
           /\ s \in Superblocks'
           /\ lock[heap_id[s]] \in Threads \ {t}
                => /\ heap_id'[s] = heap_id[s] /\ block_size'[s] = block_size[s]
                   /\ used_blocks'[s] = used_blocks[s],
         \A h \in Heaps \ {0} : lock[h] \in Threads \ {t}
                                  => used'[h] = used[h] /\ allocated'[h] = allocated[h],
         \A u \in Threads \ {t} :
           pc[u] = "free" => /\ freed[u] \notin live'
                             /\ pc'[t] = "free" => freed'[t] # freed[u]
  PROVE  ThreadsOK'
<1> SUFFICES ASSUME NEW u \in Threads \ {t} PROVE ThreadOK(u)'
  BY DEF ThreadsOK
<1>1. ThreadOK(u)
  BY DEF ThreadsOK
<1>2. /\ pc'[u] = pc[u] /\ request'[u] = request[u] /\ target'[u] = target[u]
      /\ old_fullness'[u] = old_fullness[u] /\ freed'[u] = freed[u] /\ HID'[u] = HID[u]
      /\ Heap(u)' = Heap(u)
  BY DEF Heap
<1>3. Heap(u) \in Heaps /\ HID[u] \in Heaps
  BY HeapOfThread DEF LocalsOK
<1>4. pc[u] \in {"fetch", "take"} => lock'[Heap(u)] = u /\ request[u] \in block_sizes
  BY <1>1, <1>3 DEF ThreadOK
<1>5. ASSUME pc[u] = "take"
      PROVE  LET s == target[u]
             IN  /\ s \in Superblocks' /\ heap_id'[s] = Heap(u)
                 /\ block_size'[s] = request[u] /\ used_blocks'[s] < Capacity(request[u])
                 /\ old_fullness[u] = fullness(used_blocks'[s], request[u])
  <2>1. /\ target[u] \in Superblocks /\ heap_id[target[u]] = Heap(u)
        /\ block_size[target[u]] = request[u]
        /\ used_blocks[target[u]] < Capacity(request[u])
        /\ old_fullness[u] = fullness(used_blocks[target[u]], request[u])
        /\ lock[Heap(u)] = u
    BY <1>1, <1>5 DEF ThreadOK
  <2>2. /\ target[u] \in Superblocks' /\ heap_id'[target[u]] = heap_id[target[u]]
        /\ block_size'[target[u]] = block_size[target[u]]
        /\ used_blocks'[target[u]] = used_blocks[target[u]]
    BY <2>1
  <2> QED  BY <2>1, <2>2
<1>6. ASSUME pc[u] = "free"
      PROVE  /\ freed[u] \in Superblocks' \X (0 .. SB_SIZE - 1) /\ freed[u] \notin live'
             /\ \A v \in Threads \ {u} : pc'[v] = "free" => freed'[v] # freed[u]
  <2>1. /\ freed[u] \in Superblocks \X (0 .. SB_SIZE - 1)
        /\ \A v \in Threads \ {u} : pc[v] = "free" => freed[v] # freed[u]
    BY <1>1, <1>6 DEF ThreadOK
  <2>2. \A s \in Superblocks : s \in Superblocks'
    OBVIOUS
  <2>3. freed[u] \in Superblocks' \X (0 .. SB_SIZE - 1)
    BY <2>1, <2>2
  <2>4. freed[u] \notin live' /\ (pc'[t] = "free" => freed'[t] # freed[u])
    BY <1>6
  <2>5. \A v \in Threads \ {u} : pc'[v] = "free" => freed'[v] # freed[u]
    BY <2>1, <2>4
  <2> QED  BY <2>3, <2>4, <2>5
<1>7. ASSUME pc[u] \in {"shed", "give"}
      PROVE  HID[u] # 0 /\ lock'[HID[u]] = u /\ HasSlack(HID[u], used[HID[u]])'
  <2>1. HID[u] \in Heaps \ {0} /\ lock[HID[u]] = u /\ HasSlack(HID[u], used[HID[u]])
    BY <1>1, <1>3, <1>7 DEF ThreadOK
  <2>2. lock'[HID[u]] = u /\ used'[HID[u]] = used[HID[u]] /\ allocated'[HID[u]] = allocated[HID[u]]
    BY <2>1
  <2> QED  BY <1>2, <2>1, <2>2 DEF HasSlack
<1> QED  BY <1>2, <1>4, <1>5, <1>6, <1>7 DEF ThreadOK

\* The heaps do not change when calls only begin, fail or wait.
LEMMA HeapsKept ==
  ASSUME IInv, live' \cup Leaving' = live \cup Leaving, live' \subseteq live,
         UNCHANGED <<brk, block_size, blockVars, heap_id, listVars, allocated, used>>
  PROVE  BlocksOK' /\ MapOK' /\ PagesOK' /\ BinsOK' /\ CountersExact'
<1> USE DEF IInv, blockVars, listVars
<1>1. Superblocks' = Superblocks
  OBVIOUS
<1>2. BlocksOK'
  BY <1>1 DEF BlocksOK
<1>3. MapOK'
  BY <1>1 DEF MapOK
<1>4. PagesOK'
  BY <1>1 DEF PagesOK
<1>5. \A x \in BinIds : InBin(x)' = InBin(x)
  BY <1>1 DEF InBin
<1>6. BinsOK'
  BY <1>5 DEF BinsOK
<1>7. \A h \in Heaps : Owned(h)' = Owned(h) /\ UsedBytes(h)' = UsedBytes(h)
  BY <1>1 DEF Owned, UsedBytes
<1>8. CountersExact'
  BY <1>7 DEF CountersExact
<1> QED  BY <1>2, <1>3, <1>4, <1>6, <1>8

-----------------------------------------------------------------------------
(* The steps that begin or give up a call. *)

\* mm_malloc takes its lock and finds a superblock, or none.
LEMMA MallocStep ==
  ASSUME IInv, NEW t \in Threads, NEW b \in block_sizes, mm_malloc(t, b)
  PROVE  IInv'
<1> USE DEF IInv
<1>1. /\ pc[t] = "idle" /\ lock[Heap(t)] = NoThread
      /\ lock' = [lock EXCEPT ![Heap(t)] = t] /\ request' = [request EXCEPT ![t] = b]
      /\ UNCHANGED <<cpu, freed, HID, seen, brk, block_size, blockVars, heap_id, listVars,
                     allocated, used, live>>
  BY DEF mm_malloc
<1>2. /\ pc \in [Threads -> {"idle", "fetch", "take", "free", "shed", "give"}]
      /\ lock \in [Heaps -> Threads \cup {NoThread}] /\ Heap(t) \in Heaps
      /\ request \in [Threads -> block_sizes \cup {0}]
      /\ target \in [Threads -> 1 .. PAGES \cup {NULL}]
      /\ old_fullness \in [Threads -> Bins]
  BY HeapOfThread DEF TypeOK, LocalsOK
<1>3. \/ /\ pc' = [pc EXCEPT ![t] = "fetch"] /\ UNCHANGED <<target, old_fullness>>
      \/ \E i \in 0 .. FULLNESS_DENOMINATOR, s \in Superblocks :
           /\ s \in WithSpace(Heap(t), b, i)
           /\ target' = [target EXCEPT ![t] = s]
           /\ old_fullness' = [old_fullness EXCEPT ![t] = i]
           /\ pc' = [pc EXCEPT ![t] = "take"]
  BY DEF mm_malloc, Fullest
<1>4. ASSUME NEW i \in 0 .. FULLNESS_DENOMINATOR, NEW s \in Superblocks,
             s \in WithSpace(Heap(t), b, i)
      PROVE  /\ s \in 1 .. PAGES /\ i \in Bins
             /\ heap_id[s] = Heap(t) /\ block_size[s] = b
             /\ used_blocks[s] < Capacity(b) /\ i = fullness(used_blocks[s], b)
  <2>1. i \in Bins /\ <<Heap(t), b, i>> \in BinIds
    BY <1>2, ConstantFacts
  <2>2. s \in InBin(<<Heap(t), b, i>>) /\ used_blocks[s] < Capacity(b)
    BY <1>4, <2>1, WalkFacts DEF WithSpace, HasSpace
  <2> QED  BY <2>1, <2>2, SuperblockFacts DEF InBin
<1>5. /\ pc' \in [Threads -> {"idle", "fetch", "take", "free", "shed", "give"}]
      /\ pc'[t] \in {"fetch", "take"}
      /\ target' \in [Threads -> 1 .. PAGES \cup {NULL}]
      /\ old_fullness' \in [Threads -> Bins]
      /\ \A u \in Threads \ {t} : pc'[u] = pc[u] /\ target'[u] = target[u]
                                  /\ old_fullness'[u] = old_fullness[u]
  BY <1>2, <1>3, <1>4
<1>6. /\ lock' \in [Heaps -> Threads \cup {NoThread}] /\ lock'[Heap(t)] = t
      /\ \A h \in Heaps : lock[h] \in Threads \ {t} => lock'[h] = lock[h]
  BY <1>1, <1>2, ConstantFacts
<1>7. /\ request' \in [Threads -> block_sizes \cup {0}] /\ request'[t] = b
      /\ \A u \in Threads \ {t} : request'[u] = request[u]
  BY <1>1, <1>2
<1>8. TypeOK' /\ LocalsOK'
  BY <1>1, <1>5, <1>6, <1>7 DEF TypeOK, LocalsOK, blockVars, listVars
<1>9. Leaving' = Leaving
  BY <1>1, <1>5, LeavingSame
<1>10. BlocksOK' /\ MapOK' /\ PagesOK' /\ BinsOK' /\ CountersExact'
  BY <1>1, <1>9, HeapsKept
<1>11. ThreadOK(t)'
  <2>1. Heap(t)' = Heap(t) /\ Superblocks' = Superblocks
    BY <1>1 DEF Heap
  <2>2. CASE pc'[t] = "fetch"
    BY <1>6, <1>7, <2>1, <2>2 DEF ThreadOK
  <2>3. CASE pc'[t] = "take"
    <3>1. /\ target'[t] \in Superblocks /\ heap_id[target'[t]] = Heap(t)
          /\ block_size[target'[t]] = b /\ used_blocks[target'[t]] < Capacity(b)
          /\ old_fullness'[t] = fullness(used_blocks[target'[t]], b)
      BY <1>2, <1>3, <1>4, <2>3
    <3> QED  BY <1>1, <1>6, <1>7, <2>1, <2>3, <3>1 DEF ThreadOK, blockVars
  <2> QED  BY <1>5, <2>2, <2>3
<1>12. ThreadsOK'
  <2>1. \A u \in Threads \ {t} :
          /\ pc'[u] = pc[u] /\ request'[u] = request[u] /\ target'[u] = target[u]
          /\ old_fullness'[u] = old_fullness[u]
          /\ freed'[u] = freed[u] /\ HID'[u] = HID[u]
    BY <1>1, <1>5, <1>7
  <2>2. \A u \in Threads \ {t} : pc[u] = "free" => freed[u] \notin live'
                                                   /\ pc'[t] # "free"
    BY <1>1, <1>5 DEF ThreadsOK, ThreadOK
  <2> QED  BY <1>1, <1>6, <1>11, <2>1, <2>2, OthersKept DEF blockVars
<1> QED  BY <1>8, <1>10, <1>12

\* The fields that a call's end resets.
LEMMA ReturnsFacts ==
  ASSUME TypeOK, LocalsOK, NEW t \in Threads, Returns(t)
  PROVE  /\ pc' \in [Threads -> {"idle", "fetch", "take", "free", "shed", "give"}]
         /\ pc'[t] = "idle" /\ ThreadOK(t)' /\ LocalsOK'
         /\ \A u \in Threads \ {t} :
              /\ pc'[u] = pc[u] /\ request'[u] = request[u] /\ target'[u] = target[u]
              /\ old_fullness'[u] = old_fullness[u]
              /\ freed'[u] = freed[u] /\ HID'[u] = HID[u]
<1>1. 0 \in Heaps /\ 0 \in Bins
  BY ConstantFacts
<1>2. /\ pc' \in [Threads -> {"idle", "fetch", "take", "free", "shed", "give"}]
      /\ pc'[t] = "idle" /\ \A u \in Threads \ {t} : pc'[u] = pc[u]
  BY DEF TypeOK, Returns
<1>3. /\ request' \in [Threads -> block_sizes \cup {0}]
      /\ target' \in [Threads -> 1 .. PAGES \cup {NULL}]
      /\ \A u \in Threads \ {t} : request'[u] = request[u] /\ target'[u] = target[u]
  BY DEF LocalsOK, Returns
<1>4. /\ old_fullness' \in [Threads -> Bins] /\ HID' \in [Threads -> Heaps]
      /\ \A u \in Threads \ {t} : old_fullness'[u] = old_fullness[u] /\ HID'[u] = HID[u]
  BY <1>1 DEF LocalsOK, Returns
<1>5. /\ freed' \in [Threads -> ((1 .. PAGES) \X (0 .. SB_SIZE - 1)) \cup {NULL}]
      /\ \A u \in Threads \ {t} : freed'[u] = freed[u]
  BY DEF LocalsOK, Returns
<1>6. ThreadOK(t)'
  BY <1>2 DEF ThreadOK
<1>7. seen' \in [Threads -> Readings \cup {NULL}]
  BY DEF LocalsOK, Returns
<1> QED  BY <1>2, <1>3, <1>4, <1>5, <1>6, <1>7 DEF LocalsOK

\* mm_malloc gives up.
LEMMA FetchFailsStep ==
  ASSUME IInv, NEW t \in Threads, FetchFails(t)
  PROVE  IInv'
<1> USE DEF IInv
<1>1. /\ pc[t] = "fetch" /\ lock[0] = NoThread /\ lock' = [lock EXCEPT ![0] = t]
      /\ Returns(t)
      /\ UNCHANGED <<cpu, brk, block_size, blockVars, heap_id, listVars,
                     allocated, used, live>>
  BY DEF FetchFails
<1>2. /\ lock' \in [Heaps -> Threads \cup {NoThread}]
      /\ \A h \in Heaps : lock[h] \in Threads \ {t} => lock'[h] = lock[h]
  BY <1>1, ConstantFacts DEF TypeOK
<1>3. /\ pc' \in [Threads -> {"idle", "fetch", "take", "free", "shed", "give"}]
      /\ pc'[t] = "idle" /\ ThreadOK(t)' /\ LocalsOK'
      /\ \A u \in Threads \ {t} :
           /\ pc'[u] = pc[u] /\ request'[u] = request[u] /\ target'[u] = target[u]
           /\ old_fullness'[u] = old_fullness[u]
           /\ freed'[u] = freed[u] /\ HID'[u] = HID[u]
  BY <1>1, ReturnsFacts
<1>4. TypeOK'
  BY <1>1, <1>2, <1>3 DEF TypeOK, blockVars, listVars
<1>5. Leaving' = Leaving
  BY <1>1, <1>3, LeavingSame
<1>6. BlocksOK' /\ MapOK' /\ PagesOK' /\ BinsOK' /\ CountersExact'
  BY <1>1, <1>5, HeapsKept
<1>7. ThreadsOK'
  <2>1. \A u \in Threads \ {t} : pc[u] = "free" => freed[u] \notin live' /\ pc'[t] # "free"
    BY <1>1, <1>3 DEF ThreadsOK, ThreadOK
  <2> QED  BY <1>1, <1>2, <1>3, <2>1, OthersKept DEF blockVars
<1> QED  BY <1>3, <1>4, <1>6, <1>7

\* mm_free begins.
LEMMA FreeStep ==
  ASSUME IInv, NEW t \in Threads, NEW x \in live, mm_free(t, x)
  PROVE  IInv'
<1> USE DEF IInv
<1>1. /\ pc[t] = "idle" /\ live' = live \ {x} /\ freed' = [freed EXCEPT ![t] = x]
      /\ HID' = [HID EXCEPT ![t] = heap_id[x[1]]] /\ pc' = [pc EXCEPT ![t] = "free"]
      /\ UNCHANGED <<cpu, lock, request, target, old_fullness, seen, brk, block_size, blockVars,
                     heap_id, listVars, allocated, used>>
  BY DEF mm_free
<1>2. x \in Superblocks \X (0 .. SB_SIZE - 1) /\ x[1] \in 1 .. PAGES
      /\ heap_id[x[1]] \in Heaps
  BY SuperblockFacts DEF TypeOK
<1>3. /\ pc' \in [Threads -> {"idle", "fetch", "take", "free", "shed", "give"}] /\ pc'[t] = "free"
      /\ freed' \in [Threads -> ((1 .. PAGES) \X (0 .. SB_SIZE - 1)) \cup {NULL}]
      /\ freed'[t] = x /\ HID' \in [Threads -> Heaps]
      /\ \A u \in Threads \ {t} : pc'[u] = pc[u] /\ freed'[u] = freed[u] /\ HID'[u] = HID[u]
  <2>1. pc' \in [Threads -> {"idle", "fetch", "take", "free", "shed", "give"}] /\ pc'[t] = "free"
        /\ \A u \in Threads \ {t} : pc'[u] = pc[u]
    BY <1>1 DEF TypeOK
  <2>2. /\ freed' \in [Threads -> ((1 .. PAGES) \X (0 .. SB_SIZE - 1)) \cup {NULL}]
        /\ freed'[t] = x /\ \A u \in Threads \ {t} : freed'[u] = freed[u]
    <3>1. x \in (1 .. PAGES) \X (0 .. SB_SIZE - 1)
      BY <1>2
    <3> QED  BY <1>1, <3>1 DEF LocalsOK
  <2>3. HID' \in [Threads -> Heaps] /\ \A u \in Threads \ {t} : HID'[u] = HID[u]
    BY <1>1, <1>2 DEF LocalsOK
  <2> QED  BY <2>1, <2>2, <2>3
<1>4. TypeOK' /\ LocalsOK'
  BY <1>1, <1>3 DEF TypeOK, LocalsOK, blockVars, listVars
<1>5. Leaving' = Leaving \cup {x}
  <2>1. \A u \in Threads : pc'[u] = "free" <=> pc[u] = "free" \/ u = t
    BY <1>1, <1>3
  <2>2. \A u \in Threads : pc[u] = "free" => freed'[u] = freed[u]
    BY <1>1, <1>3
  <2> QED  BY <1>3, <2>1, <2>2 DEF Leaving
<1>6. BlocksOK' /\ MapOK' /\ PagesOK' /\ BinsOK' /\ CountersExact'
  <2>1. live' \cup Leaving' = live \cup Leaving /\ live' \subseteq live
    BY <1>1, <1>5
  <2> QED  BY <1>1, <2>1, HeapsKept
<1>7. \A u \in Threads \ {t} : pc[u] = "free" => freed[u] \notin live /\ freed[u] # x
  BY DEF ThreadsOK, ThreadOK
<1>8. ThreadOK(t)'
  <2>1. freed'[t] \in Superblocks' \X (0 .. SB_SIZE - 1) /\ freed'[t] \notin live'
    BY <1>1, <1>2, <1>3
  <2>2. \A u \in Threads \ {t} : pc'[u] = "free" => freed'[u] # freed'[t]
    BY <1>3, <1>7
  <2> QED  BY <1>3, <2>1, <2>2 DEF ThreadOK
<1>9. ThreadsOK'
  <2>1. \A u \in Threads \ {t} : pc[u] = "free" => freed[u] \notin live' /\ freed'[t] # freed[u]
    BY <1>1, <1>3, <1>7
  <2> QED  BY <1>1, <1>3, <1>8, <2>1, OthersKept DEF blockVars
<1> QED  BY <1>4, <1>6, <1>9

-----------------------------------------------------------------------------
(* The steps that move a superblock to another heap. *)

\* Only s belongs elsewhere now.
LEMMA InBinMoved ==
  ASSUME NEW s, s \in Superblocks', NEW dest \in BinIds,
         dest = <<heap_id'[s], block_size'[s], fullness(used_blocks'[s], block_size'[s])>>,
         Superblocks' = Superblocks \cup {s},
         \A p \in Superblocks \ {s} :
           heap_id'[p] = heap_id[p] /\ block_size'[p] = block_size[p]
           /\ used_blocks'[p] = used_blocks[p]
  PROVE  \A x \in BinIds :
           InBin(x)' = IF x = dest THEN InBin(x) \cup {s} ELSE InBin(x) \ {s}
<1> SUFFICES ASSUME NEW x \in BinIds
             PROVE  InBin(x)' = IF x = dest THEN InBin(x) \cup {s} ELSE InBin(x) \ {s}
  OBVIOUS
<1>1. x = <<x[1], x[2], x[3]>>
  OBVIOUS
<1>2. s \in InBin(x)' <=> x = dest
  <2>1. s \in InBin(x)' <=> /\ heap_id'[s] = x[1] /\ block_size'[s] = x[2]
                            /\ fullness(used_blocks'[s], x[2]) = x[3]
    BY DEF InBin
  <2>2. s \in InBin(x)' => x = dest
    BY <1>1, <2>1
  <2>3. x = dest => /\ heap_id'[s] = x[1] /\ block_size'[s] = x[2]
                    /\ fullness(used_blocks'[s], block_size'[s]) = x[3]
    OBVIOUS
  <2> QED  BY <2>1, <2>2, <2>3
<1>3. \A p \in Superblocks \ {s} : p \in InBin(x)' <=> p \in InBin(x)
  BY DEF InBin
<1>4. InBin(x) \subseteq Superblocks /\ InBin(x)' \subseteq Superblocks \cup {s}
  BY DEF InBin
<1> QED  BY <1>2, <1>3, <1>4

\* Blocks stay marked when superblocks only move.
LEMMA BlocksKept ==
  ASSUME BlocksOK, MapOK, live' = live, Leaving' = Leaving,
         UNCHANGED <<brk, block_size, blockVars>>
  PROVE  BlocksOK' /\ MapOK'
<1>1. /\ Superblocks' = Superblocks /\ live' \cup Leaving' = live \cup Leaving
      /\ block_map' = block_map /\ used_blocks' = used_blocks /\ block_size' = block_size
  BY DEF blockVars
<1>2. BlocksOK'
  BY <1>1 DEF BlocksOK
<1>3. MapOK'
  BY <1>1 DEF MapOK
<1> QED  BY <1>2, <1>3

\* What is known after s has changed heaps.
RehomedWell(s, from, to) ==
  /\ heap_id' \in [1 .. PAGES -> Heaps]
  /\ allocated' \in [Heaps -> Nat] /\ used' \in [Heaps -> Nat]
  /\ bin_first' \in [BinIds -> 1 .. PAGES \cup {NULL}]
  /\ next' \in [1 .. PAGES -> 1 .. PAGES \cup {NULL}]
  /\ prev' \in [1 .. PAGES -> 1 .. PAGES \cup {NULL}]
  /\ PagesOK' /\ BinsOK' /\ CountersExact'
  /\ heap_id'[s] = to
  /\ \A p \in Superblocks : p # s => heap_id'[p] = heap_id[p]
  /\ \A h \in Heaps \ {from, to} : used'[h] = used[h] /\ allocated'[h] = allocated[h]

\* The superblock s of one heap, in the list of its size and fullness there, moves to
\* the list of the same size and fullness of another.
LEMMA RehomedStep ==
  ASSUME IInv, NEW s \in Superblocks, NEW from \in Heaps, NEW to \in Heaps, from # to,
         NEW b, NEW i, s \in InBin(<<from, b, i>>), <<from, b, i>> \in BinIds,
         transfer_bins(s, <<from, b, i>>, <<to, b, i>>), Rehomed(s, from, to),
         UNCHANGED <<brk, block_size, blockVars>>
  PROVE  RehomedWell(s, from, to)
<1> USE DEF IInv
<1> DEFINE orig == <<from, b, i>>
           dest == <<to, b, i>>
<1>1. /\ heap_id[s] = from /\ block_size[s] = b /\ fullness(used_blocks[s], b) = i
      /\ s \in 1 .. PAGES /\ dest \in BinIds /\ orig \in BinIds /\ orig # dest
  BY SuperblockFacts DEF InBin
<1>2. UNCHANGED <<brk, block_size, used_blocks>> /\ Superblocks' = Superblocks
  BY DEF blockVars
<1>3. /\ heap_id' \in [1 .. PAGES -> Heaps]
      /\ allocated' \in [Heaps -> Nat] /\ used' \in [Heaps -> Nat] /\ CountersExact'
  BY <1>1, <1>2, RehomedKeepsCounters
<1>4. /\ heap_id'[s] = to /\ \A p \in Superblocks : p # s => heap_id'[p] = heap_id[p]
      /\ \A h \in Heaps \ {from, to} : used'[h] = used[h] /\ allocated'[h] = allocated[h]
  <2>1. /\ heap_id \in [1 .. PAGES -> Heaps] /\ used \in [Heaps -> Nat]
        /\ allocated \in [Heaps -> Nat]
    BY DEF TypeOK
  <2>0. Superblocks \subseteq 1 .. PAGES
    BY ConstantFacts DEF TypeOK
  <2>2. heap_id'[s] = to /\ \A p \in Superblocks : p # s => heap_id'[p] = heap_id[p]
    BY <1>1, <2>0, <2>1 DEF Rehomed
  <2>3. \A h \in Heaps \ {from, to} : used'[h] = used[h] /\ allocated'[h] = allocated[h]
    BY <2>1 DEF Rehomed
  <2> QED  BY <2>2, <2>3
<1> HIDE DEF orig, dest
<1>5. \A x \in BinIds :
        InBin(x)' = IF x = dest THEN InBin(x) \cup {s} ELSE InBin(x) \ {s}
  <2>1. dest = <<heap_id'[s], block_size'[s], fullness(used_blocks'[s], block_size'[s])>>
    BY <1>1, <1>2, <1>4 DEF dest
  <2>2. s \in Superblocks' /\ Superblocks' = Superblocks \cup {s}
    BY <1>2
  <2>3. \A p \in Superblocks \ {s} :
          heap_id'[p] = heap_id[p] /\ block_size'[p] = block_size[p]
          /\ used_blocks'[p] = used_blocks[p]
    BY <1>2, <1>4
  <2> QED  BY <1>1, <2>1, <2>2, <2>3, InBinMoved
<1>6. /\ bin_first' \in [BinIds -> 1 .. PAGES \cup {NULL}]
      /\ next' \in [1 .. PAGES -> 1 .. PAGES \cup {NULL}]
      /\ prev' \in [1 .. PAGES -> 1 .. PAGES \cup {NULL}]
      /\ BinsOK' /\ PagesOK'
  <2>1. s \in InBin(orig) /\ transfer_bins(s, orig, dest)
    BY DEF orig, dest
  <2>2. \A p \in (1 .. PAGES) \ Superblocks' : p # s /\ p \notin Superblocks
    BY <1>2
  <2> QED  BY <1>1, <1>5, <2>1, <2>2, TransferKeepsBins
<1> QED  BY <1>3, <1>4, <1>6 DEF RehomedWell

\* What a step in "fetch" that finds a superblock does to the thread.
LEMMA FetchFacts ==
  ASSUME IInv, NEW t \in Threads, Fetch(t), NEW s \in 1 .. PAGES,
         target' = [target EXCEPT ![t] = s]
  PROVE  /\ pc[t] = "fetch" /\ lock[Heap(t)] = t /\ lock[0] = NoThread
         /\ request[t] \in block_sizes
         /\ pc' \in [Threads -> {"idle", "fetch", "take", "free", "shed", "give"}]
         /\ pc'[t] = "take" /\ LocalsOK' /\ target'[t] = s /\ old_fullness'[t] = 1
         /\ Leaving' = Leaving /\ UNCHANGED <<cpu, lock, request, live>>
         /\ \A u \in Threads \ {t} :
              /\ pc'[u] = pc[u] /\ request'[u] = request[u] /\ target'[u] = target[u]
              /\ old_fullness'[u] = old_fullness[u]
              /\ freed'[u] = freed[u] /\ HID'[u] = HID[u]
<1> USE DEF IInv
<1>1. /\ pc[t] = "fetch" /\ lock[0] = NoThread /\ pc' = [pc EXCEPT ![t] = "take"]
      /\ old_fullness' = [old_fullness EXCEPT ![t] = 1]
      /\ UNCHANGED <<cpu, lock, request, freed, HID, seen, live>>
  BY DEF Fetch
<1>2. lock[Heap(t)] = t /\ request[t] \in block_sizes
  BY <1>1 DEF ThreadsOK, ThreadOK
<1>3. /\ pc' \in [Threads -> {"idle", "fetch", "take", "free", "shed", "give"}]
      /\ pc'[t] = "take" /\ \A u \in Threads \ {t} : pc'[u] = pc[u]
  BY <1>1 DEF TypeOK
<1>4. /\ old_fullness' \in [Threads -> Bins] /\ old_fullness'[t] = 1
      /\ \A u \in Threads \ {t} : old_fullness'[u] = old_fullness[u]
  <2>1. 1 \in Bins
    BY ConstantFacts
  <2> QED  BY <1>1, <2>1 DEF LocalsOK
<1>5. /\ target' \in [Threads -> 1 .. PAGES \cup {NULL}] /\ target'[t] = s
      /\ \A u \in Threads \ {t} : target'[u] = target[u]
  BY DEF LocalsOK
<1>6. LocalsOK'
  BY <1>1, <1>4, <1>5 DEF LocalsOK
<1>7. Leaving' = Leaving
  BY <1>1, <1>3, LeavingSame
<1> QED  BY <1>1, <1>2, <1>3, <1>4, <1>5, <1>6, <1>7

\* mm_malloc takes a superblock from the global heap.
LEMMA FetchGlobalStep ==
  ASSUME IInv, NEW t \in Threads, FetchGlobal(t)
  PROVE  IInv'
<1> USE DEF IInv
<1> DEFINE b == request[t]
           s == bin_first[<<0, b, 1>>]
<1>1. /\ Fetch(t) /\ s # NULL /\ target' = [target EXCEPT ![t] = s]
      /\ transfer_bins(s, <<0, b, 1>>, <<Heap(t), b, 1>>)
      /\ Rehomed(s, 0, Heap(t)) /\ UNCHANGED <<brk, block_size, blockVars>>
  BY DEF FetchGlobal
<1>2. b \in block_sizes /\ 0 \in Heaps /\ <<0, b, 1>> \in BinIds
      /\ Heap(t) \in Heaps /\ Heap(t) # 0
  <2>1. b \in block_sizes
    BY <1>1 DEF Fetch, ThreadsOK, ThreadOK
  <2>2. 0 \in Heaps /\ 1 \in Bins
    BY ConstantFacts
  <2> QED  BY <2>1, <2>2, HeapOfThread
<1>3. s \in InBin(<<0, b, 1>>)
  BY <1>1, <1>2, WalkFacts
<1>4. /\ s \in Superblocks /\ s \in 1 .. PAGES /\ heap_id[s] = 0 /\ block_size[s] = b
      /\ fullness(used_blocks[s], b) = 1 /\ used_blocks[s] < Capacity(b)
  <2>1. s \in Superblocks /\ heap_id[s] = 0 /\ block_size[s] = b
        /\ fullness(used_blocks[s], b) = 1
    BY <1>3 DEF InBin
  <2>2. s \in 1 .. PAGES /\ used_blocks[s] \in 0 .. Capacity(b)
    BY <2>1, SuperblockFacts
  <2>3. used_blocks[s] < Capacity(b)
    BY <1>2, <2>1, <2>2, FullnessFacts, ConstantFacts
  <2> QED  BY <2>1, <2>2, <2>3
<1>5. /\ pc[t] = "fetch" /\ lock[Heap(t)] = t /\ lock[0] = NoThread
      /\ pc' \in [Threads -> {"idle", "fetch", "take", "free", "shed", "give"}]
      /\ pc'[t] = "take" /\ LocalsOK' /\ target'[t] = s /\ old_fullness'[t] = 1
      /\ Leaving' = Leaving /\ UNCHANGED <<cpu, lock, request, live>>
      /\ \A u \in Threads \ {t} :
           /\ pc'[u] = pc[u] /\ request'[u] = request[u] /\ target'[u] = target[u]
           /\ old_fullness'[u] = old_fullness[u]
           /\ freed'[u] = freed[u] /\ HID'[u] = HID[u]
  <2> HIDE DEF s
  <2> QED  BY <1>1, <1>4, FetchFacts
<1>6. /\ heap_id' \in [1 .. PAGES -> Heaps]
      /\ allocated' \in [Heaps -> Nat] /\ used' \in [Heaps -> Nat]
      /\ bin_first' \in [BinIds -> 1 .. PAGES \cup {NULL}]
      /\ next' \in [1 .. PAGES -> 1 .. PAGES \cup {NULL}]
      /\ prev' \in [1 .. PAGES -> 1 .. PAGES \cup {NULL}]
      /\ PagesOK' /\ BinsOK' /\ CountersExact'
      /\ heap_id'[s] = Heap(t)
      /\ \A p \in Superblocks : p # s => heap_id'[p] = heap_id[p]
      /\ \A h \in Heaps \ {0, Heap(t)} : used'[h] = used[h] /\ allocated'[h] = allocated[h]
  <2> DEFINE to == Heap(t)
             from == 0
  <2>1. /\ s \in InBin(<<from, b, 1>>) /\ <<from, b, 1>> \in BinIds
        /\ from \in Heaps /\ to \in Heaps /\ from # to
        /\ transfer_bins(s, <<from, b, 1>>, <<to, b, 1>>) /\ Rehomed(s, from, to)
    BY <1>1, <1>2, <1>3
  <2> HIDE DEF s, b, to, from
  <2>2. RehomedWell(s, from, to)
    BY <1>1, <1>4, <2>1, RehomedStep
  <2> QED  BY <2>2 DEF RehomedWell, to, from
<1> HIDE DEF s, b
<1>7. TypeOK'
  BY <1>1, <1>5, <1>6 DEF TypeOK, blockVars
<1>8. BlocksOK' /\ MapOK'
  BY <1>1, <1>5, BlocksKept
<1>9. ThreadOK(t)'
  <2>1. Heap(t)' = Heap(t) /\ Superblocks' = Superblocks
    BY <1>1, <1>5 DEF Heap
  <2>2. /\ lock'[Heap(t)] = t /\ request'[t] = b
        /\ block_size' = block_size /\ used_blocks' = used_blocks
    BY <1>1, <1>5 DEF b, blockVars
  <2> QED  BY <1>2, <1>4, <1>5, <1>6, <2>1, <2>2 DEF ThreadOK
<1>10. ThreadsOK'
  <2>1. \A u \in Threads \ {t} : pc[u] = "free" => freed[u] \notin live' /\ pc'[t] # "free"
    BY <1>5 DEF ThreadsOK, ThreadOK
  <2>2. \A p \in Superblocks :
          /\ p \in Superblocks'
          /\ lock[heap_id[p]] \in Threads \ {t}
               => /\ heap_id'[p] = heap_id[p] /\ block_size'[p] = block_size[p]
                  /\ used_blocks'[p] = used_blocks[p]
    BY <1>1, <1>4, <1>5, <1>6, ConstantFacts DEF blockVars
  <2>3. \A h \in Heaps \ {0} : lock[h] \in Threads \ {t}
                                 => used'[h] = used[h] /\ allocated'[h] = allocated[h]
    BY <1>5, <1>6
  <2>4. \A h \in Heaps : lock[h] \in Threads \ {t} => lock'[h] = lock[h]
    BY <1>5
  <2> QED  BY <1>5, <1>9, <2>1, <2>2, <2>3, <2>4, OthersKept
<1> QED  BY <1>5, <1>6, <1>7, <1>8, <1>10

\* mm_malloc takes a new page.
LEMMA FetchNewStep ==
  ASSUME IInv, NEW t \in Threads, FetchNew(t)
  PROVE  IInv'
<1> USE DEF IInv
<1> DEFINE b == request[t]
           s == brk + 1
           h == Heap(t)
           n == HeaderBlocks(b)
<1>1. /\ Fetch(t) /\ brk < PAGES /\ brk' = s /\ target' = [target EXCEPT ![t] = s]
      /\ block_size' = [block_size EXCEPT ![s] = b]
      /\ block_map' = [block_map EXCEPT ![s] = Reserved(b)]
      /\ used_blocks' = [used_blocks EXCEPT ![s] = Cardinality(Reserved(b))]
      /\ heap_id' = [heap_id EXCEPT ![s] = h]
      /\ used' = [used EXCEPT ![h] = @ + Cardinality(Reserved(b)) * b]
      /\ allocated' = [allocated EXCEPT ![h] = @ + SB_SIZE]
      /\ transfer_bins(s, <<0, b, 0>>, <<h, b, 1>>)
  BY DEF FetchNew
<1>2. /\ b \in block_sizes /\ h \in Heaps /\ h # 0
      /\ <<0, b, 0>> \in BinIds /\ <<h, b, 1>> \in BinIds
  <2>1. b \in block_sizes
    BY <1>1 DEF Fetch, ThreadsOK, ThreadOK
  <2>2. 0 \in Heaps /\ 0 \in Bins /\ 1 \in Bins
    BY ConstantFacts
  <2> QED  BY <2>1, <2>2, HeapOfThread
<1>3. /\ b \in Nat /\ n \in Nat /\ n <= SB_SIZE /\ n * b <= SB_SIZE
      /\ Reserved(b) \subseteq 0 .. Capacity(b) - 1
      /\ Reserved(b) \subseteq 0 .. SB_SIZE - 1
      /\ Cardinality(Reserved(b)) = n /\ n < Capacity(b) /\ fullness(n, b) = 1
  <2>1. /\ b \in Nat \ {0} /\ Capacity(b) \in Nat \ {0} /\ SB_SIZE \in Nat
        /\ Capacity(b) * b = SB_SIZE /\ Capacity(b) <= SB_SIZE
        /\ n \in Nat /\ n * FULLNESS_DENOMINATOR < Capacity(b) /\ n < Capacity(b)
        /\ Reserved(b) = 0 .. n - 1 /\ Cardinality(Reserved(b)) = n
    BY <1>2, SizeFacts, ConstantFacts
  <2>2. fullness(n, b) = 1
    <3>1. n \in 0 .. Capacity(b)
      BY <2>1
    <3> QED  BY <1>2, <2>1, <3>1, FullnessFacts
  <2> HIDE DEF n, b
  <2>3. n * b <= SB_SIZE
    BY <2>1, ProductMono
  <2>4. /\ Reserved(b) \subseteq 0 .. Capacity(b) - 1
        /\ Reserved(b) \subseteq 0 .. SB_SIZE - 1 /\ n <= SB_SIZE
    BY <2>1
  <2> QED  BY <2>1, <2>2, <2>3, <2>4
<1>4. /\ brk \in Nat /\ s \in 1 .. PAGES /\ s \notin Superblocks
      /\ Superblocks \subseteq 1 .. PAGES /\ Superblocks' = Superblocks \cup {s}
  <2>1. brk \in Nat /\ PAGES \in Nat /\ brk < PAGES /\ brk' = brk + 1
    BY <1>1, ConstantFacts DEF TypeOK
  <2> QED  BY <2>1
<1>5. /\ pc[t] = "fetch" /\ lock[Heap(t)] = t /\ lock[0] = NoThread
      /\ pc' \in [Threads -> {"idle", "fetch", "take", "free", "shed", "give"}]
      /\ pc'[t] = "take" /\ LocalsOK' /\ target'[t] = s /\ old_fullness'[t] = 1
      /\ Leaving' = Leaving /\ UNCHANGED <<cpu, lock, request, live>>
      /\ \A u \in Threads \ {t} :
           /\ pc'[u] = pc[u] /\ request'[u] = request[u] /\ target'[u] = target[u]
           /\ old_fullness'[u] = old_fullness[u]
           /\ freed'[u] = freed[u] /\ HID'[u] = HID[u]
  <2> HIDE DEF s
  <2> QED  BY <1>1, <1>4, FetchFacts
<1> HIDE DEF b, s, h, n
<1>6. /\ block_size' \in [1 .. PAGES -> block_sizes \cup {0}]
      /\ block_map' \in [1 .. PAGES -> SUBSET (0 .. SB_SIZE - 1)]
      /\ used_blocks' \in [1 .. PAGES -> 0 .. SB_SIZE]
      /\ heap_id' \in [1 .. PAGES -> Heaps]
      /\ block_size'[s] = b /\ block_map'[s] = Reserved(b) /\ used_blocks'[s] = n
      /\ heap_id'[s] = h
      /\ \A p \in Superblocks : /\ block_size'[p] = block_size[p] /\ block_map'[p] = block_map[p]
                                /\ used_blocks'[p] = used_blocks[p] /\ heap_id'[p] = heap_id[p]
  <2>0. n \in 0 .. SB_SIZE /\ used_blocks' = [used_blocks EXCEPT ![s] = n]
    BY <1>1, <1>3, ConstantFacts
  <2>1. /\ block_size' \in [1 .. PAGES -> block_sizes \cup {0}] /\ block_size'[s] = b
        /\ \A p \in Superblocks : block_size'[p] = block_size[p]
    BY <1>1, <1>2, <1>4 DEF TypeOK
  <2>2. /\ block_map' \in [1 .. PAGES -> SUBSET (0 .. SB_SIZE - 1)]
        /\ block_map'[s] = Reserved(b) /\ \A p \in Superblocks : block_map'[p] = block_map[p]
    BY <1>1, <1>3, <1>4 DEF TypeOK
  <2>3. /\ used_blocks' \in [1 .. PAGES -> 0 .. SB_SIZE] /\ used_blocks'[s] = n
        /\ \A p \in Superblocks : used_blocks'[p] = used_blocks[p]
    BY <2>0, <1>4 DEF TypeOK
  <2>4. /\ heap_id' \in [1 .. PAGES -> Heaps] /\ heap_id'[s] = h
        /\ \A p \in Superblocks : heap_id'[p] = heap_id[p]
    BY <1>1, <1>2, <1>4 DEF TypeOK
  <2> QED  BY <2>1, <2>2, <2>3, <2>4
<1>7. used' \in [Heaps -> Nat] /\ allocated' \in [Heaps -> Nat] /\ CountersExact'
  <2>1. /\ used_blocks' = [used_blocks EXCEPT ![s] = n]
        /\ used' = [used EXCEPT ![h] = @ + n * b] /\ s = brk + 1
    BY <1>1, <1>3 DEF s
  <2> QED  BY <1>1, <1>2, <1>3, <2>1, NewKeepsCounters
<1>8. \A x \in live \cup Leaving : x[1] \in Superblocks
  <2>1. \A x \in live : x[1] \in Superblocks
    BY DEF TypeOK
  <2>2. \A x \in Leaving : x[1] \in Superblocks
    BY DEF Leaving, ThreadsOK, ThreadOK
  <2> QED  BY <2>1, <2>2
<1>9. BlocksOK'
  <2>1. \A p \in Superblocks' : /\ block_size'[p] \in block_sizes
                                /\ block_map'[p] \subseteq 0 .. Capacity(block_size'[p]) - 1
    <3>1. ASSUME NEW p \in Superblocks
          PROVE  /\ block_size'[p] \in block_sizes
                 /\ block_map'[p] \subseteq 0 .. Capacity(block_size'[p]) - 1
      <4>1. block_size'[p] = block_size[p] /\ block_map'[p] = block_map[p]
        BY <1>6
      <4> QED  BY <4>1 DEF BlocksOK
    <3>2. /\ block_size'[s] \in block_sizes
          /\ block_map'[s] \subseteq 0 .. Capacity(block_size'[s]) - 1
      BY <1>2, <1>3, <1>6
    <3> QED  BY <1>4, <3>1, <3>2
  <2>2. \A x \in live \cup Leaving : x[2] \notin Reserved(block_size'[x[1]])
    BY <1>6, <1>8 DEF BlocksOK
  <2> QED  BY <1>5, <2>1, <2>2 DEF BlocksOK
<1>10. MapOK'
  <2>1. ASSUME NEW p \in Superblocks
        PROVE  /\ block_map'[p] = Reserved(block_size'[p])
                     \cup {k \in 0 .. SB_SIZE - 1 : <<p, k>> \in live \cup Leaving}
               /\ used_blocks'[p] = Cardinality(block_map'[p])
    BY <1>6 DEF MapOK
  <2>2. /\ block_map'[s] = Reserved(block_size'[s])
              \cup {k \in 0 .. SB_SIZE - 1 : <<s, k>> \in live \cup Leaving}
        /\ used_blocks'[s] = Cardinality(block_map'[s])
    <3>1. {k \in 0 .. SB_SIZE - 1 : <<s, k>> \in live \cup Leaving} = {}
      BY <1>4, <1>8
    <3>2. block_map'[s] = Reserved(block_size'[s])
      BY <1>3, <1>6
    <3>3. used_blocks'[s] = Cardinality(block_map'[s])
      BY <1>3, <1>6
    <3> QED  BY <3>1, <3>2, <3>3
  <2>3. \A p \in Superblocks' :
          /\ block_map'[p] = Reserved(block_size'[p])
               \cup {k \in 0 .. SB_SIZE - 1 : <<p, k>> \in live \cup Leaving}
          /\ used_blocks'[p] = Cardinality(block_map'[p])
    BY <1>4, <2>1, <2>2
  <2> QED  BY <1>5, <2>3 DEF MapOK
<1>11. /\ bin_first' \in [BinIds -> 1 .. PAGES \cup {NULL}]
       /\ next' \in [1 .. PAGES -> 1 .. PAGES \cup {NULL}]
       /\ prev' \in [1 .. PAGES -> 1 .. PAGES \cup {NULL}]
       /\ BinsOK' /\ PagesOK'
  <2> DEFINE orig == <<0, b, 0>>
             dest == <<h, b, 1>>
  <2>1. /\ orig \in BinIds /\ dest \in BinIds /\ orig # dest
        /\ s \notin Superblocks /\ bin_first[orig] = NULL /\ transfer_bins(s, orig, dest)
    <3>1. InBin(orig) = {}
      BY <1>2, BinFacts, ConstantFacts
    <3>2. bin_first[orig] = NULL
      BY <1>2, <3>1, WalkFacts
    <3> QED  BY <1>1, <1>2, <1>4, <3>2
  <2>2. dest = <<heap_id'[s], block_size'[s], fullness(used_blocks'[s], block_size'[s])>>
    BY <1>3, <1>6
  <2>3. s \in Superblocks'
    BY <1>4
  <2>4. \A p \in Superblocks \ {s} :
          heap_id'[p] = heap_id[p] /\ block_size'[p] = block_size[p]
          /\ used_blocks'[p] = used_blocks[p]
    BY <1>6
  <2> HIDE DEF orig, dest
  <2>5. \A x \in BinIds :
          InBin(x)' = IF x = dest THEN InBin(x) \cup {s} ELSE InBin(x) \ {s}
    BY <1>4, <2>1, <2>2, <2>3, <2>4, InBinMoved
  <2>6. \A p \in (1 .. PAGES) \ Superblocks' : p # s /\ p \notin Superblocks
    BY <1>4
  <2> QED  BY <1>4, <2>1, <2>5, <2>6, TransferKeepsBins
<1>12. TypeOK'
  <2>1. brk' \in 0 .. PAGES
    BY <1>1, <1>4 DEF s
  <2>2. live' \subseteq Superblocks' \X (0 .. SB_SIZE - 1)
    BY <1>4, <1>5 DEF TypeOK
  <2>3. cpu' \in [Threads -> 0 .. NumProcessors - 1]
        /\ lock' \in [Heaps -> Threads \cup {NoThread}]
    BY <1>5 DEF TypeOK
  <2> QED  BY <1>5, <1>6, <1>7, <1>11, <2>1, <2>2, <2>3 DEF TypeOK
<1>13. ThreadOK(t)'
  <2>1. Heap(t)' = h /\ s \in Superblocks' /\ lock'[h] = t /\ request'[t] = b
    BY <1>4, <1>5 DEF Heap, h, b
  <2> QED  BY <1>2, <1>3, <1>5, <1>6, <2>1 DEF ThreadOK
<1>14. ThreadsOK'
  <2>1. \A u \in Threads \ {t} : pc[u] = "free" => freed[u] \notin live' /\ pc'[t] # "free"
    BY <1>5 DEF ThreadsOK, ThreadOK
  <2>2. \A p \in Superblocks :
          /\ p \in Superblocks'
          /\ lock[heap_id[p]] \in Threads \ {t}
               => /\ heap_id'[p] = heap_id[p] /\ block_size'[p] = block_size[p]
                  /\ used_blocks'[p] = used_blocks[p]
    BY <1>4, <1>6
  <2>3. \A g \in Heaps : g # h => used'[g] = used[g] /\ allocated'[g] = allocated[g]
    <3>1. used \in [Heaps -> Nat] /\ allocated \in [Heaps -> Nat]
      BY DEF TypeOK
    <3> QED  BY <1>1, <3>1
  <2>4. \A g \in Heaps \ {0} : lock[g] \in Threads \ {t}
                                 => used'[g] = used[g] /\ allocated'[g] = allocated[g]
    BY <1>5, <2>3 DEF h
  <2>5. \A g \in Heaps : lock[g] \in Threads \ {t} => lock'[g] = lock[g]
    BY <1>5
  <2> QED  BY <1>5, <1>13, <2>1, <2>2, <2>4, <2>5, OthersKept
<1> QED  BY <1>5, <1>7, <1>9, <1>10, <1>11, <1>12, <1>14

-----------------------------------------------------------------------------
(* The steps that mark and unmark a block. *)

\* find_block finds a block that is not marked.
LEMMA FindBlockFacts ==
  ASSUME TypeOK, BlocksOK, MapOK, NEW s \in Superblocks,
         used_blocks[s] < Capacity(block_size[s])
  PROVE  find_block(s) \in 0 .. Capacity(block_size[s]) - 1
         /\ find_block(s) \notin block_map[s]
<1> DEFINE c == Capacity(block_size[s])
           M == block_map[s]
           C == 0 .. c - 1
           N == C \ M
<1>1. IsFiniteSet(M) /\ Cardinality(M) < c /\ Cardinality(M) \in Nat /\ c \in Nat \ {0}
  BY SuperblockFacts, SizeFacts
<1>2. IsFiniteSet(C) /\ Cardinality(C) = c
  <2>1. 0 \in Int /\ c - 1 \in Int
    BY <1>1
  <2>2. IsFiniteSet(C) /\ Cardinality(C) = IF 0 > c - 1 THEN 0 ELSE (c - 1) - 0 + 1
    BY <2>1, FS_Interval
  <2> HIDE DEF C, c
  <2> QED  BY <1>1, <2>2
<1>3. N # {} /\ N \subseteq Nat
  <2>1. ASSUME C \subseteq M PROVE FALSE
    <3> HIDE DEF C, M
    <3>1. Cardinality(C) <= Cardinality(M)
      BY <1>1, <2>1, FS_Subset
    <3> HIDE DEF c
    <3> QED  BY <1>1, <1>2, <3>1
  <2> QED  BY <1>1, <2>1
<1>4. PICK k \in N : \A j \in N : k <= j
  <2> HIDE DEF N
  <2> QED  BY <1>3, LeastNumber
<1>5. \A j \in 0 .. k - 1 : j \in M
  BY <1>1, <1>4
<1>6. \E i \in 0 .. c - 1 : i \notin M /\ \A j \in 0 .. i - 1 : j \in M
  BY <1>4, <1>5
<1>7. find_block(s) \in 0 .. c - 1 /\ find_block(s) \notin M
  <2> HIDE DEF c
  <2> QED  BY <1>6 DEF find_block, c
<1> QED  BY <1>7

\* The superblock s of heap h has n blocks in use now and moves to the bin for that.
Recounted(s, h, b, n, was, is) ==
  /\ h = heap_id[s] /\ b = block_size[s]
  /\ was = fullness(used_blocks[s], b) /\ is = fullness(n, b)
  /\ used_blocks' = [used_blocks EXCEPT ![s] = n]
  /\ used' = [used EXCEPT ![h] = (used[h] - used_blocks[s] * b) + n * b]
  /\ \/ was = is /\ UNCHANGED listVars
     \/ was # is /\ transfer_bins(s, <<h, b, was>>, <<h, b, is>>)
  /\ UNCHANGED <<brk, block_size, heap_id, allocated>>

\* A count changes, and the superblock's bin with it: what the transfer leaves behind.
RecountedWell(s, h) ==
  /\ used' \in [Heaps -> Nat]
  /\ bin_first' \in [BinIds -> 1 .. PAGES \cup {NULL}]
  /\ next' \in [1 .. PAGES -> 1 .. PAGES \cup {NULL}]
  /\ prev' \in [1 .. PAGES -> 1 .. PAGES \cup {NULL}]
  /\ PagesOK' /\ BinsOK' /\ CountersExact'
  /\ \A p \in Superblocks : p # s => used_blocks'[p] = used_blocks[p]
  /\ \A g \in Heaps : g # h => used'[g] = used[g]

\* A superblock whose count changes from m to n moves to the bin of n.
LEMMA RecountedStep ==
  ASSUME IInv, NEW s \in Superblocks, NEW h, NEW b, NEW n \in 0 .. Capacity(b),
         NEW was, NEW is, Recounted(s, h, b, n, was, is)
  PROVE  RecountedWell(s, h)
<1> USE DEF IInv
<1>0. /\ h = heap_id[s] /\ b = block_size[s]
      /\ was = fullness(used_blocks[s], b) /\ is = fullness(n, b)
      /\ used_blocks' = [used_blocks EXCEPT ![s] = n]
      /\ used' = [used EXCEPT ![h] = (used[h] - used_blocks[s] * b) + n * b]
      /\ \/ was = is /\ UNCHANGED listVars
         \/ was # is /\ transfer_bins(s, <<h, b, was>>, <<h, b, is>>)
      /\ UNCHANGED <<brk, block_size, heap_id, allocated>>
  BY DEF Recounted
<1> DEFINE orig == <<h, b, was>>
           dest == <<h, b, is>>
<1>1. /\ s \in 1 .. PAGES /\ h \in Heaps /\ b \in block_sizes /\ b \in Nat
      /\ was \in Bins /\ is \in Bins
      /\ orig \in BinIds /\ dest \in BinIds
      /\ Capacity(b) \in Nat /\ Capacity(b) * b = SB_SIZE /\ n \in Nat /\ n <= Capacity(b)
  <2>1. /\ s \in 1 .. PAGES /\ h \in Heaps /\ b \in block_sizes
        /\ was \in 1 .. FULLNESS_DENOMINATOR + 1
    BY <1>0, SuperblockFacts
  <2>2. is \in 1 .. FULLNESS_DENOMINATOR + 1
    BY <1>0, <2>1, FullnessFacts
  <2>3. was \in Bins /\ is \in Bins
    BY <2>1, <2>2, ConstantFacts
  <2>4. b \in Nat /\ Capacity(b) \in Nat /\ Capacity(b) * b = SB_SIZE
    BY <2>1, SizeFacts
  <2> QED  BY <2>1, <2>3, <2>4
<1>2. n * b <= SB_SIZE
  BY <1>1, ProductMono
<1>3. used' \in [Heaps -> Nat] /\ CountersExact'
  <2>1. n * block_size[s] <= SB_SIZE
        /\ used' = [used EXCEPT ![h] = (used[h] - BytesMoved(s)) + n * block_size[s]]
    BY <1>0, <1>2 DEF BytesMoved
  <2> QED  BY <1>0, <1>1, <2>1, RecountedKeepsCounters
<1>4. /\ used_blocks'[s] = n /\ \A p \in Superblocks : p # s => used_blocks'[p] = used_blocks[p]
      /\ \A g \in Heaps : g # h => used'[g] = used[g]
  <2>1. used_blocks \in [1 .. PAGES -> 0 .. SB_SIZE] /\ used \in [Heaps -> Nat]
    BY DEF TypeOK
  <2>2. Superblocks \subseteq 1 .. PAGES
    BY ConstantFacts DEF TypeOK
  <2>3. used_blocks'[s] = n /\ \A p \in Superblocks : p # s => used_blocks'[p] = used_blocks[p]
    BY <1>0, <1>1, <2>1, <2>2
  <2>4. \A g \in Heaps : g # h => used'[g] = used[g]
    BY <1>0, <2>1
  <2> QED  BY <2>3, <2>4
<1> HIDE DEF orig, dest
<1>5. s \in InBin(orig)
  BY <1>0 DEF InBin, orig
<1>6. \A x \in BinIds :
        InBin(x)' = IF x = dest THEN InBin(x) \cup {s} ELSE InBin(x) \ {s}
  <2>1. dest = <<heap_id'[s], block_size'[s], fullness(used_blocks'[s], block_size'[s])>>
    BY <1>0, <1>4 DEF dest
  <2>2. s \in Superblocks' /\ Superblocks' = Superblocks \cup {s}
    BY <1>0
  <2>3. \A p \in Superblocks \ {s} :
          heap_id'[p] = heap_id[p] /\ block_size'[p] = block_size[p]
          /\ used_blocks'[p] = used_blocks[p]
    BY <1>0, <1>4
  <2> QED  BY <1>1, <2>1, <2>2, <2>3, InBinMoved
<1>7. /\ bin_first' \in [BinIds -> 1 .. PAGES \cup {NULL}]
      /\ next' \in [1 .. PAGES -> 1 .. PAGES \cup {NULL}]
      /\ prev' \in [1 .. PAGES -> 1 .. PAGES \cup {NULL}]
      /\ BinsOK' /\ PagesOK'
  <2>1. CASE was = is
    <3>1. UNCHANGED <<prev, next, bin_first>>
      BY <1>0, <2>1 DEF listVars
    <3>2. orig = dest
      BY <2>1 DEF orig, dest
    <3>3. \A x \in BinIds : InBin(x)' = InBin(x)
      <4>1. ASSUME NEW x \in BinIds PROVE InBin(x)' = InBin(x)
        <5>1. CASE x = orig
          BY <1>5, <1>6, <3>2, <5>1
        <5>2. CASE x # orig
          <6>1. s \notin InBin(x)
            BY <1>1, <1>5, <5>2, BinFacts
          <6> QED  BY <1>6, <3>2, <5>2, <6>1
        <5> QED  BY <5>1, <5>2
      <4> QED  BY <4>1
    <3>4. BinsOK'
      BY <1>0, <3>1, <3>3 DEF BinsOK
    <3>5. PagesOK'
      BY <1>0, <3>1 DEF PagesOK
    <3> QED  BY <3>1, <3>4, <3>5 DEF TypeOK
  <2>2. CASE was # is
    <3>1. orig # dest /\ transfer_bins(s, orig, dest)
      BY <1>0, <2>2 DEF orig, dest
    <3>2. \A p \in (1 .. PAGES) \ Superblocks' : p # s /\ p \notin Superblocks
      BY <1>0
    <3> QED  BY <1>1, <1>5, <1>6, <3>1, <3>2, TransferKeepsBins
  <2> QED  BY <2>1, <2>2
<1> QED  BY <1>3, <1>4, <1>7 DEF RecountedWell

\* mm_malloc marks its block.
LEMMA TakeBlockStep ==
  ASSUME IInv, NEW t \in Threads, TakeBlock(t)
  PROVE  IInv'
<1> USE DEF IInv
<1> DEFINE b == request[t]
           s == target[t]
           k == find_block(s)
           h == Heap(t)
           m == used_blocks[s]
           n == m + 1
           was == old_fullness[t]
           is == fullness(n, b)
<1>1. /\ pc[t] = "take"
      /\ block_map' = [block_map EXCEPT ![s] = @ \cup {k}]
      /\ used_blocks' = [used_blocks EXCEPT ![s] = n]
      /\ used' = [used EXCEPT ![h] = used[h] + b]
      /\ \/ was = is /\ UNCHANGED listVars
         \/ was # is /\ transfer_bins(s, <<h, b, was>>, <<h, b, is>>)
      /\ live' = live \cup {<<s, k>>}
      /\ lock' = [lock EXCEPT ![h] = NoThread]
      /\ Returns(t)
      /\ UNCHANGED <<cpu, brk, block_size, heap_id, allocated>>
  BY DEF TakeBlock
<1>2. /\ s \in Superblocks /\ heap_id[s] = h /\ block_size[s] = b /\ m < Capacity(b)
      /\ was = fullness(m, b) /\ lock[h] = t /\ b \in block_sizes
      /\ h \in Heaps /\ h # 0
  <2>1. ThreadOK(t) /\ pc[t] = "take"
    BY <1>1 DEF ThreadsOK
  <2>2. h \in Heaps /\ h # 0
    BY HeapOfThread
  <2> QED  BY <2>1, <2>2 DEF ThreadOK
<1>3. /\ s \in 1 .. PAGES /\ IsFiniteSet(block_map[s]) /\ m = Cardinality(block_map[s])
      /\ m \in 0 .. Capacity(b) /\ Superblocks \subseteq 1 .. PAGES
  BY <1>2, SuperblockFacts
<1>4. /\ b \in Nat /\ Capacity(b) \in Nat /\ Capacity(b) <= SB_SIZE /\ SB_SIZE \in Nat
      /\ m \in Nat /\ n \in 0 .. Capacity(b) /\ n \in 0 .. SB_SIZE
  <2>1. /\ b \in Nat /\ Capacity(b) \in Nat /\ Capacity(b) <= SB_SIZE /\ SB_SIZE \in Nat
    BY <1>2, SizeFacts, ConstantFacts
  <2>2. m \in 0 .. Capacity(b) /\ m < Capacity(b)
    BY <1>2, <1>3
  <2> HIDE DEF b, m
  <2> QED  BY <2>1, <2>2
<1>5. k \in 0 .. Capacity(b) - 1 /\ k \in 0 .. SB_SIZE - 1 /\ k \notin block_map[s]
  <2>1. k \in 0 .. Capacity(b) - 1 /\ k \notin block_map[s]
    BY <1>2, FindBlockFacts
  <2> HIDE DEF k
  <2> QED  BY <1>4, <2>1
<1>6. /\ pc' \in [Threads -> {"idle", "fetch", "take", "free", "shed", "give"}]
      /\ pc'[t] = "idle" /\ ThreadOK(t)' /\ LocalsOK'
      /\ \A u \in Threads \ {t} :
           /\ pc'[u] = pc[u] /\ request'[u] = request[u] /\ target'[u] = target[u]
           /\ old_fullness'[u] = old_fullness[u]
           /\ freed'[u] = freed[u] /\ HID'[u] = HID[u]
  BY <1>1, ReturnsFacts
<1> HIDE DEF b, s, k, h, m, n, was, is
<1>7. Leaving' = Leaving
  BY <1>1, <1>6, LeavingSame
<1>8. used' = [used EXCEPT ![h] = (used[h] - m * b) + n * b]
  <2>1. m * b \in Nat /\ n * b = m * b + b /\ used[h] \in Nat
    <3>1. m * b \in Nat /\ n * b = m * b + b
      BY <1>4, Products DEF n
    <3> QED  BY <1>2, <3>1 DEF TypeOK
  <2>2. (used[h] - m * b) + n * b = used[h] + b
    <3> DEFINE p == m * b
               q == n * b
    <3>1. p \in Nat /\ q = p + b /\ used[h] \in Nat /\ b \in Nat
      BY <1>4, <2>1
    <3> HIDE DEF p, q
    <3>2. (used[h] - p) + q = used[h] + b
      BY <3>1
    <3> QED  BY <3>2 DEF p, q
  <2> QED  BY <1>1, <2>2
<1>9. RecountedWell(s, h)
  <2>1. used' = [used EXCEPT ![h] = (used[h] - used_blocks[s] * b) + n * b]
        /\ was = fullness(used_blocks[s], b) /\ is = fullness(n, b)
        /\ h = heap_id[s] /\ b = block_size[s]
    BY <1>2, <1>8 DEF m, is
  <2>2. \/ was = is /\ UNCHANGED listVars
        \/ was # is /\ transfer_bins(s, <<h, b, was>>, <<h, b, is>>)
    BY <1>1
  <2>3. Recounted(s, h, b, n, was, is)
    BY <1>1, <2>1, <2>2 DEF Recounted
  <2> QED  BY <1>2, <1>4, <2>3, RecountedStep
<1>10. /\ block_map' \in [1 .. PAGES -> SUBSET (0 .. SB_SIZE - 1)]
       /\ block_map'[s] = block_map[s] \cup {k}
       /\ \A p \in Superblocks : p # s => block_map'[p] = block_map[p]
       /\ used_blocks' \in [1 .. PAGES -> 0 .. SB_SIZE] /\ used_blocks'[s] = n
       /\ \A p \in Superblocks : p # s => used_blocks'[p] = used_blocks[p]
  <2>1. /\ block_map' \in [1 .. PAGES -> SUBSET (0 .. SB_SIZE - 1)]
        /\ block_map'[s] = block_map[s] \cup {k}
        /\ \A p \in Superblocks : p # s => block_map'[p] = block_map[p]
    BY <1>1, <1>3, <1>5 DEF TypeOK
  <2>2. /\ used_blocks' \in [1 .. PAGES -> 0 .. SB_SIZE] /\ used_blocks'[s] = n
        /\ \A p \in Superblocks : p # s => used_blocks'[p] = used_blocks[p]
    BY <1>1, <1>3, <1>4 DEF TypeOK
  <2> QED  BY <2>1, <2>2
<1>11. <<s, k>> \notin live \cup Leaving /\ k \notin Reserved(b)
  <2>1. block_map[s] = Reserved(b) \cup {j \in 0 .. SB_SIZE - 1 : <<s, j>> \in live \cup Leaving}
    BY <1>2 DEF MapOK
  <2> QED  BY <1>5, <2>1
<1>12. live' \cup Leaving' = (live \cup Leaving) \cup {<<s, k>>}
  BY <1>1, <1>7
<1>13. BlocksOK'
  <2>1. \A p \in Superblocks : /\ block_size[p] \in block_sizes
                               /\ block_map'[p] \subseteq 0 .. Capacity(block_size[p]) - 1
    <3>1. ASSUME NEW p \in Superblocks
          PROVE  block_map'[p] \subseteq 0 .. Capacity(block_size[p]) - 1
      <4>1. block_map[p] \subseteq 0 .. Capacity(block_size[p]) - 1
        BY DEF BlocksOK
      <4> QED  BY <1>2, <1>5, <1>10, <4>1
    <3> QED  BY <3>1 DEF BlocksOK
  <2>2. \A x \in live' \cup Leaving' : x[2] \notin Reserved(block_size[x[1]])
    BY <1>2, <1>11, <1>12 DEF BlocksOK
  <2> QED  BY <1>1, <2>1, <2>2 DEF BlocksOK
<1>14. MapOK'
  <2>1. ASSUME NEW p \in Superblocks
        PROVE  /\ block_map'[p] = Reserved(block_size[p])
                     \cup {j \in 0 .. SB_SIZE - 1 : <<p, j>> \in live' \cup Leaving'}
               /\ used_blocks'[p] = Cardinality(block_map'[p])
    <3>1. /\ block_map[p] = Reserved(block_size[p])
                \cup {j \in 0 .. SB_SIZE - 1 : <<p, j>> \in live \cup Leaving}
          /\ used_blocks[p] = Cardinality(block_map[p])
      BY DEF MapOK
    <3>2. CASE p = s
      <4>1. Cardinality(block_map[s] \cup {k}) = Cardinality(block_map[s]) + 1
        BY <1>3, <1>5, FS_AddElement
      <4>2. used_blocks'[p] = Cardinality(block_map'[p])
        BY <1>3, <1>10, <3>2, <4>1 DEF n
      <4>3. {j \in 0 .. SB_SIZE - 1 : <<s, j>> \in live' \cup Leaving'}
              = {j \in 0 .. SB_SIZE - 1 : <<s, j>> \in live \cup Leaving} \cup {k}
        BY <1>5, <1>12
      <4> QED  BY <1>10, <3>1, <3>2, <4>2, <4>3
    <3>3. CASE p # s
      <4>1. \A j : <<p, j>> \in live' \cup Leaving' <=> <<p, j>> \in live \cup Leaving
        BY <1>12, <3>3
      <4> QED  BY <1>10, <3>1, <3>3, <4>1
    <3> QED  BY <3>2, <3>3
  <2> QED  BY <1>1, <2>1 DEF MapOK
<1>15. /\ lock' \in [Heaps -> Threads \cup {NoThread}]
       /\ \A g \in Heaps : lock[g] \in Threads \ {t} => lock'[g] = lock[g]
  BY <1>1, <1>2 DEF TypeOK
<1>16. TypeOK'
  <2>1. live' \subseteq Superblocks' \X (0 .. SB_SIZE - 1)
    BY <1>1, <1>2, <1>5 DEF TypeOK
  <2>2. cpu' \in [Threads -> 0 .. NumProcessors - 1] /\ brk' \in 0 .. PAGES
        /\ block_size' \in [1 .. PAGES -> block_sizes \cup {0}]
        /\ heap_id' \in [1 .. PAGES -> Heaps] /\ allocated' \in [Heaps -> Nat]
    BY <1>1 DEF TypeOK
  <2> QED  BY <1>6, <1>9, <1>10, <1>15, <2>1, <2>2 DEF TypeOK, RecountedWell
<1>17. ThreadsOK'
  <2>1. \A u \in Threads \ {t} : pc[u] = "free" => freed[u] \notin live' /\ pc'[t] # "free"
    <3>1. \A u \in Threads \ {t} : pc[u] = "free" => freed[u] \notin live /\ freed[u] \in Leaving
      BY DEF ThreadsOK, ThreadOK, Leaving
    <3> QED  BY <1>1, <1>6, <1>11, <3>1
  <2>2. \A p \in Superblocks :
          /\ p \in Superblocks'
          /\ lock[heap_id[p]] \in Threads \ {t}
               => /\ heap_id'[p] = heap_id[p] /\ block_size'[p] = block_size[p]
                  /\ used_blocks'[p] = used_blocks[p]
    BY <1>1, <1>2, <1>10
  <2>3. \A g \in Heaps \ {0} : lock[g] \in Threads \ {t}
                                 => used'[g] = used[g] /\ allocated'[g] = allocated[g]
    BY <1>1, <1>2, <1>9 DEF RecountedWell
  <2> QED  BY <1>1, <1>6, <1>15, <2>1, <2>2, <2>3, OthersKept
<1> QED  BY <1>6, <1>9, <1>13, <1>14, <1>16, <1>17 DEF RecountedWell

\* The block is unmarked in the heap read without a lock, the right one if HIDFresh holds.
LEMMA FreeBlockStep ==
  ASSUME IInv, HIDFresh, NEW t \in Threads, FreeBlock(t)
  PROVE  IInv'
<1> USE DEF IInv
<1> DEFINE x == freed[t]
           s == x[1]
           k == x[2]
           h == HID[t]
           b == block_size[s]
           m == used_blocks[s]
           n == m - 1
           was == fullness(m, b)
           is == fullness(n, b)
<1>1. /\ pc[t] = "free" /\ lock[h] = NoThread
      /\ block_map' = [block_map EXCEPT ![s] = @ \ {k}]
      /\ used_blocks' = [used_blocks EXCEPT ![s] = n]
      /\ used' = [used EXCEPT ![h] = used[h] - b]
      /\ \/ was = is /\ UNCHANGED listVars
         \/ was # is /\ transfer_bins(s, <<h, b, was>>, <<h, b, is>>)
      /\ \/ Returns(t) /\ UNCHANGED lock
         \/ /\ h # 0 /\ HasSlack(h, used'[h])
            /\ pc' = [pc EXCEPT ![t] = "shed"]
            /\ lock' = [lock EXCEPT ![h] = t]
            /\ UNCHANGED callVars
      /\ UNCHANGED <<cpu, brk, block_size, heap_id, allocated, live>>
  BY DEF FreeBlock
<1>2. /\ x \in Superblocks \X (0 .. SB_SIZE - 1) /\ x \notin live /\ x \in Leaving
      /\ heap_id[s] = h /\ \A u \in Threads \ {t} : pc[u] = "free" => freed[u] # x
  BY <1>1 DEF ThreadsOK, ThreadOK, HIDFresh, Leaving
<1>3. x = <<s, k>> /\ s \in Superblocks /\ k \in 0 .. SB_SIZE - 1
  BY <1>2
<1> HIDE DEF x
<1>4. /\ s \in 1 .. PAGES /\ IsFiniteSet(block_map[s]) /\ m = Cardinality(block_map[s])
      /\ m \in 0 .. Capacity(b) /\ Superblocks \subseteq 1 .. PAGES
      /\ b \in block_sizes /\ h \in Heaps
  <2>1. /\ s \in 1 .. PAGES /\ IsFiniteSet(block_map[s]) /\ m = Cardinality(block_map[s])
        /\ b \in block_sizes /\ m \in 0 .. Capacity(b) /\ heap_id[s] \in Heaps
    BY <1>3, SuperblockFacts
  <2>2. Superblocks \subseteq 1 .. PAGES
    BY SuperblockFacts
  <2> QED  BY <1>2, <2>1, <2>2
<1>5. block_map[s] = Reserved(b) \cup {j \in 0 .. SB_SIZE - 1 : <<s, j>> \in live \cup Leaving}
  BY <1>3 DEF MapOK
<1>6. k \in block_map[s] /\ k \notin Reserved(b)
  <2>1. k \in block_map[s]
    BY <1>2, <1>3, <1>5
  <2>2. k \notin Reserved(b)
    BY <1>2, <1>3 DEF BlocksOK
  <2> QED  BY <2>1, <2>2
<1>7. m # 0 /\ Cardinality(block_map[s] \ {k}) = n
  <2>1. Cardinality(block_map[s] \ {k}) = m - 1 /\ block_map[s] # {}
    <3> DEFINE M == block_map[s]
    <3>1. IsFiniteSet(M) /\ m = Cardinality(M) /\ k \in M
      BY <1>4, <1>6
    <3> HIDE DEF M, m, k
    <3> QED  BY <3>1, FS_RemoveElement DEF M
  <2>2. m # 0
    BY <1>4, <2>1, FS_EmptySet
  <2> QED  BY <2>1, <2>2
<1>8. /\ b \in Nat /\ Capacity(b) \in Nat /\ Capacity(b) <= SB_SIZE /\ SB_SIZE \in Nat
      /\ m \in Nat /\ n \in Nat /\ n \in 0 .. Capacity(b) /\ n \in 0 .. SB_SIZE
  <2>1. /\ b \in Nat /\ Capacity(b) \in Nat /\ Capacity(b) <= SB_SIZE /\ SB_SIZE \in Nat
    BY <1>4, SizeFacts, ConstantFacts
  <2> HIDE DEF b, m
  <2> QED  BY <1>4, <1>7, <2>1
<1> HIDE DEF s, k, h, b, m, n, was, is
<1>9. /\ pc' \in [Threads -> {"idle", "fetch", "take", "free", "shed", "give"}]
      /\ pc'[t] \in {"idle", "shed"} /\ LocalsOK'
      /\ \A u \in Threads \ {t} :
           /\ pc'[u] = pc[u] /\ request'[u] = request[u] /\ target'[u] = target[u]
           /\ old_fullness'[u] = old_fullness[u]
           /\ freed'[u] = freed[u] /\ HID'[u] = HID[u]
      /\ lock' \in [Heaps -> Threads \cup {NoThread}]
      /\ \A g \in Heaps : lock[g] \in Threads \ {t} => lock'[g] = lock[g]
      /\ pc'[t] = "shed" => /\ h # 0 /\ HasSlack(h, used'[h]) /\ lock'[h] = t
                            /\ HID'[t] = h
  <2>1. CASE Returns(t) /\ UNCHANGED lock
    <3>1. lock' \in [Heaps -> Threads \cup {NoThread}] /\ lock' = lock
      BY <2>1 DEF TypeOK
    <3> QED  BY <2>1, <3>1, ReturnsFacts
  <2>2. CASE /\ h # 0 /\ HasSlack(h, used'[h])
             /\ pc' = [pc EXCEPT ![t] = "shed"]
             /\ lock' = [lock EXCEPT ![h] = t]
             /\ UNCHANGED callVars
    <3>1. /\ pc' \in [Threads -> {"idle", "fetch", "take", "free", "shed", "give"}]
          /\ pc'[t] = "shed" /\ \A u \in Threads \ {t} : pc'[u] = pc[u]
      BY <2>2 DEF TypeOK
    <3>2. UNCHANGED <<request, target, old_fullness, freed, HID, seen>>
      BY <2>2 DEF callVars
    <3>3. LocalsOK'
      BY <3>2 DEF LocalsOK
    <3>4. /\ lock' \in [Heaps -> Threads \cup {NoThread}] /\ lock'[h] = t
          /\ \A g \in Heaps : lock[g] \in Threads \ {t} => lock'[g] = lock[g]
      BY <1>1, <1>4, <2>2, ConstantFacts DEF TypeOK
    <3> QED  BY <2>2, <3>1, <3>2, <3>3, <3>4 DEF h
  <2> QED  BY <1>1, <2>1, <2>2
<1>10. Leaving' = Leaving \ {x}
  <2>1. \A u \in Threads : pc'[u] = "free" <=> pc[u] = "free" /\ u # t
    BY <1>9
  <2>2. \A u \in Threads : u # t => freed'[u] = freed[u]
    BY <1>9
  <2>3. freed[t] = x
    BY DEF x
  <2> QED  BY <1>2, <2>1, <2>2, <2>3 DEF Leaving
<1>11. used' = [used EXCEPT ![h] = (used[h] - m * b) + n * b]
  <2>1. n * b \in Nat /\ m * b = n * b + b
    <3>1. m = n + 1
      BY <1>8 DEF n
    <3> QED  BY <1>8, <3>1, Products
  <2>2. used[h] \in Nat
    BY <1>4 DEF TypeOK
  <2>3. (used[h] - m * b) + n * b = used[h] - b
    BY <1>8, <2>1, <2>2
  <2> QED  BY <1>1, <2>3
<1>12. RecountedWell(s, h)
  <2>1. used' = [used EXCEPT ![h] = (used[h] - used_blocks[s] * b) + n * b]
        /\ was = fullness(used_blocks[s], b) /\ is = fullness(n, b)
        /\ h = heap_id[s] /\ b = block_size[s]
    BY <1>2, <1>11 DEF m, is, was, b
  <2>2. \/ was = is /\ UNCHANGED listVars
        \/ was # is /\ transfer_bins(s, <<h, b, was>>, <<h, b, is>>)
    BY <1>1
  <2>3. Recounted(s, h, b, n, was, is)
    BY <1>1, <2>1, <2>2 DEF Recounted
  <2> QED  BY <1>3, <1>8, <2>3, RecountedStep
<1>13. /\ block_map' \in [1 .. PAGES -> SUBSET (0 .. SB_SIZE - 1)]
       /\ block_map'[s] = block_map[s] \ {k}
       /\ \A p \in Superblocks : p # s => block_map'[p] = block_map[p]
       /\ used_blocks' \in [1 .. PAGES -> 0 .. SB_SIZE] /\ used_blocks'[s] = n
       /\ \A p \in Superblocks : p # s => used_blocks'[p] = used_blocks[p]
  <2>1. /\ block_map' \in [1 .. PAGES -> SUBSET (0 .. SB_SIZE - 1)]
        /\ block_map'[s] = block_map[s] \ {k}
        /\ \A p \in Superblocks : p # s => block_map'[p] = block_map[p]
    BY <1>1, <1>4 DEF TypeOK
  <2>2. /\ used_blocks' \in [1 .. PAGES -> 0 .. SB_SIZE] /\ used_blocks'[s] = n
        /\ \A p \in Superblocks : p # s => used_blocks'[p] = used_blocks[p]
    BY <1>1, <1>4, <1>8 DEF TypeOK
  <2> QED  BY <2>1, <2>2
<1>14. live' \cup Leaving' = (live \cup Leaving) \ {<<s, k>>}
  BY <1>1, <1>2, <1>3, <1>10
<1>15. BlocksOK'
  <2>1. ASSUME NEW p \in Superblocks
        PROVE  /\ block_size[p] \in block_sizes
               /\ block_map'[p] \subseteq 0 .. Capacity(block_size[p]) - 1
    <3>1. /\ block_size[p] \in block_sizes
          /\ block_map[p] \subseteq 0 .. Capacity(block_size[p]) - 1
      BY DEF BlocksOK
    <3>2. block_map'[p] \subseteq block_map[p]
      BY <1>13
    <3> QED  BY <3>1, <3>2
  <2>2. \A y \in live' \cup Leaving' : y[2] \notin Reserved(block_size[y[1]])
    BY <1>14 DEF BlocksOK
  <2> QED  BY <1>1, <2>1, <2>2 DEF BlocksOK
<1>16. MapOK'
  <2>1. ASSUME NEW p \in Superblocks
        PROVE  /\ block_map'[p] = Reserved(block_size[p])
                     \cup {j \in 0 .. SB_SIZE - 1 : <<p, j>> \in live' \cup Leaving'}
               /\ used_blocks'[p] = Cardinality(block_map'[p])
    <3>1. /\ block_map[p] = Reserved(block_size[p])
                \cup {j \in 0 .. SB_SIZE - 1 : <<p, j>> \in live \cup Leaving}
          /\ used_blocks[p] = Cardinality(block_map[p])
      BY DEF MapOK
    <3>2. CASE p = s
      <4>1. used_blocks'[p] = Cardinality(block_map'[p])
        BY <1>7, <1>13, <3>2
      <4>2. {j \in 0 .. SB_SIZE - 1 : <<s, j>> \in live' \cup Leaving'}
              = {j \in 0 .. SB_SIZE - 1 : <<s, j>> \in live \cup Leaving} \ {k}
        BY <1>14
      <4>3. block_map'[s] = Reserved(b)
              \cup {j \in 0 .. SB_SIZE - 1 : <<s, j>> \in live' \cup Leaving'}
        BY <1>5, <1>6, <1>13, <4>2
      <4> QED  BY <3>2, <4>1, <4>3 DEF b
    <3>3. CASE p # s
      <4>1. \A j : <<p, j>> \in live' \cup Leaving' <=> <<p, j>> \in live \cup Leaving
        BY <1>14, <3>3
      <4> QED  BY <1>13, <3>1, <3>3, <4>1
    <3> QED  BY <3>2, <3>3
  <2> QED  BY <1>1, <2>1 DEF MapOK
<1>17. TypeOK'
  <2>1. cpu' \in [Threads -> 0 .. NumProcessors - 1] /\ brk' \in 0 .. PAGES
        /\ block_size' \in [1 .. PAGES -> block_sizes \cup {0}]
        /\ heap_id' \in [1 .. PAGES -> Heaps] /\ allocated' \in [Heaps -> Nat]
        /\ live' \subseteq Superblocks' \X (0 .. SB_SIZE - 1)
    BY <1>1 DEF TypeOK
  <2> QED  BY <1>9, <1>12, <1>13, <2>1 DEF TypeOK, RecountedWell
<1>18. ThreadOK(t)'
  <2>1. CASE pc'[t] = "idle"
    BY <2>1 DEF ThreadOK
  <2>2. CASE pc'[t] = "shed"
    <3>1. /\ h # 0 /\ lock'[h] = t /\ HID'[t] = h /\ allocated' = allocated
          /\ used'[h] < allocated[h] \div FULLNESS_DENOMINATOR
          /\ used'[h] < allocated[h] - K * SB_SIZE
      BY <1>1, <1>9, <2>2 DEF HasSlack
    <3> QED  BY <2>2, <3>1 DEF ThreadOK, HasSlack
  <2> QED  BY <1>9, <2>1, <2>2
<1>19. ThreadsOK'
  <2>1. \A u \in Threads \ {t} : pc[u] = "free" => freed[u] \notin live' /\ pc'[t] # "free"
    BY <1>1, <1>9 DEF ThreadsOK, ThreadOK
  <2>2. \A p \in Superblocks :
          /\ p \in Superblocks'
          /\ lock[heap_id[p]] \in Threads \ {t}
               => /\ heap_id'[p] = heap_id[p] /\ block_size'[p] = block_size[p]
                  /\ used_blocks'[p] = used_blocks[p]
    BY <1>1, <1>2, <1>13, ConstantFacts
  <2>3. \A g \in Heaps \ {0} : lock[g] \in Threads \ {t}
                                 => used'[g] = used[g] /\ allocated'[g] = allocated[g]
    BY <1>1, <1>12, ConstantFacts DEF RecountedWell
  <2> QED  BY <1>1, <1>9, <1>18, <2>1, <2>2, <2>3, OthersKept
<1> QED  BY <1>9, <1>12, <1>15, <1>16, <1>17, <1>19 DEF RecountedWell

-----------------------------------------------------------------------------
(* The step that gives a superblock away. *)

\* The superblocks mm_free may choose are first in a list of the heap.
LEMMA SheddableFacts ==
  ASSUME IInv, NEW h \in Heaps, NEW x \in Sheddable(h)
  PROVE  /\ x \in BinIds /\ x = <<h, x[2], x[3]>> /\ <<0, x[2], x[3]>> \in BinIds
         /\ bin_first[x] \in InBin(x) /\ bin_first[x] \in Superblocks
<1>1. x \in {h} \X block_sizes \X {0, 1} /\ bin_first[x] # NULL
  BY DEF Sheddable
<1>2. x \in BinIds /\ x = <<h, x[2], x[3]>> /\ <<0, x[2], x[3]>> \in BinIds
  BY <1>1, ConstantFacts
<1>3. bin_first[x] \in InBin(x)
  BY <1>1, <1>2, WalkFacts DEF IInv
<1> QED  BY <1>2, <1>3 DEF InBin

\* mm_free reads the global heap.
LEMMA ShedReadsStep ==
  ASSUME IInv, NEW t \in Threads, ShedReads(t)
  PROVE  IInv'
<1> USE DEF IInv
<1>1. PICK x \in Sheddable(HID[t]) : seen' = [seen EXCEPT ![t] = Reading(x)]
  BY DEF ShedReads
<1>2. /\ pc[t] = "shed" /\ pc' = [pc EXCEPT ![t] = "give"]
      /\ UNCHANGED <<cpu, lock, request, target, old_fullness, freed, HID, brk, block_size,
                     blockVars, heap_id, listVars, allocated, used, live>>
  BY DEF ShedReads
<1>3. /\ pc' \in [Threads -> {"idle", "fetch", "take", "free", "shed", "give"}]
      /\ pc'[t] = "give" /\ \A u \in Threads \ {t} : pc'[u] = pc[u]
  BY <1>2 DEF TypeOK
<1>4. HID[t] \in Heaps
  BY DEF LocalsOK
<1>5. seen' \in [Threads -> Readings \cup {NULL}]
  <2>1. x \in BinIds /\ <<0, x[2], x[3]>> \in BinIds /\ 0 \in Heaps
    BY <1>4, SheddableFacts, ConstantFacts
  <2>2. /\ bin_first[<<0, x[2], x[3]>>] \in 1 .. PAGES \cup {NULL}
        /\ used[0] \in Nat /\ allocated[0] \in Nat
    BY <2>1 DEF TypeOK
  <2>3. Reading(x) \in Readings
    BY <2>1, <2>2 DEF Reading, Readings
  <2> QED  BY <1>1, <2>3 DEF LocalsOK
<1>6. TypeOK' /\ LocalsOK'
  BY <1>2, <1>3, <1>5 DEF TypeOK, LocalsOK, blockVars, listVars
<1>7. Leaving' = Leaving
  BY <1>2, <1>3, LeavingSame
<1>8. BlocksOK' /\ MapOK' /\ PagesOK' /\ BinsOK' /\ CountersExact'
  BY <1>2, <1>7, HeapsKept
<1>9. ThreadOK(t)'
  <2>1. HID[t] # 0 /\ lock[HID[t]] = t /\ HasSlack(HID[t], used[HID[t]])
    BY <1>2 DEF ThreadsOK, ThreadOK
  <2> QED  BY <1>2, <1>3, <2>1 DEF ThreadOK, HasSlack
<1>10. ThreadsOK'
  <2>1. \A u \in Threads \ {t} : pc[u] = "free" => freed[u] \notin live' /\ pc'[t] # "free"
    BY <1>2, <1>3 DEF ThreadsOK, ThreadOK
  <2> QED  BY <1>2, <1>3, <1>9, <2>1, OthersKept DEF blockVars
<1> QED  BY <1>6, <1>8, <1>10

\* mm_free gives a superblock to a global heap that is still as it read it.
LEMMA ShedWritesStep ==
  ASSUME IInv, SeenFresh, NEW t \in Threads, ShedWrites(t)
  PROVE  IInv'
<1> USE DEF IInv
<1> DEFINE from == HID[t]
<1>0. /\ pc[t] = "give" /\ from \in Heaps /\ from # 0 /\ 0 \in Heaps
      /\ allocated \in [Heaps -> Nat] /\ used \in [Heaps -> Nat]
  <2>1. pc[t] = "give"
    BY DEF ShedWrites
  <2>2. from # 0
    BY <2>1 DEF ThreadsOK, ThreadOK
  <2>3. from \in Heaps /\ 0 \in Heaps
    BY ConstantFacts DEF LocalsOK
  <2> QED  BY <2>1, <2>2, <2>3 DEF TypeOK
<1>1. PICK x \in Sheddable(from) :
        /\ transfer_bins(bin_first[x], x, <<0, x[2], x[3]>>)
        /\ Rehomed(bin_first[x], from, 0)
  <2>1. PICK x \in Sheddable(from) : seen[t] = Reading(x)
    BY <1>0 DEF SeenFresh
  <2>2. /\ seen[t].bin = x /\ seen[t].first = bin_first[<<0, x[2], x[3]>>]
        /\ seen[t].used = used[0] /\ seen[t].allocated = allocated[0]
    BY <2>1 DEF Reading
  <2> DEFINE m == BytesMoved(bin_first[x])
  <2>3. /\ Relinked(bin_first[x], x, <<0, x[2], x[3]>>, bin_first[<<0, x[2], x[3]>>])
        /\ heap_id' = [heap_id EXCEPT ![bin_first[x]] = 0]
        /\ used' = [used EXCEPT ![from] = @ - m, ![0] = used[0] + m]
        /\ allocated' = [allocated EXCEPT ![from] = @ - SB_SIZE, ![0] = allocated[0] + SB_SIZE]
    BY <2>2 DEF ShedWrites
  <2> HIDE DEF m, from
  <2>4. used' = [used EXCEPT ![from] = @ - m, ![0] = @ + m]
    BY <1>0, <2>3
  <2>5. allocated' = [allocated EXCEPT ![from] = @ - SB_SIZE, ![0] = @ + SB_SIZE]
    BY <1>0, <2>3
  <2> QED  BY <2>3, <2>4, <2>5 DEF transfer_bins, Rehomed, m
<1>2. /\ pc[t] = "give" /\ lock' = [lock EXCEPT ![from] = NoThread] /\ Returns(t)
      /\ UNCHANGED <<cpu, brk, block_size, blockVars, live>>
  BY DEF ShedWrites
<1>3. from \in Heaps /\ from # 0 /\ lock[from] = t /\ 0 \in Heaps
  BY <1>2, ConstantFacts DEF LocalsOK, ThreadsOK, ThreadOK
<1> DEFINE s == bin_first[x]
           b == x[2]
           i == x[3]
           to == 0
<1>4. RehomedWell(s, from, to) /\ s \in Superblocks /\ heap_id[s] = from
  <2>1. /\ s \in Superblocks /\ from \in Heaps /\ to \in Heaps /\ from # to
        /\ s \in InBin(<<from, b, i>>) /\ <<from, b, i>> \in BinIds
        /\ transfer_bins(s, <<from, b, i>>, <<to, b, i>>) /\ Rehomed(s, from, to)
        /\ UNCHANGED <<brk, block_size, blockVars>>
    BY <1>1, <1>2, <1>3, SheddableFacts
  <2>2. heap_id[s] = from
    BY <2>1 DEF InBin
  <2> HIDE DEF s, b, i, to, from
  <2>3. RehomedWell(s, from, to)
    BY <2>1, RehomedStep
  <2> QED  BY <2>1, <2>2, <2>3
<1> HIDE DEF s, from
<1>5. /\ pc' \in [Threads -> {"idle", "fetch", "take", "free", "shed", "give"}]
      /\ pc'[t] = "idle" /\ ThreadOK(t)' /\ LocalsOK'
      /\ \A u \in Threads \ {t} :
           /\ pc'[u] = pc[u] /\ request'[u] = request[u] /\ target'[u] = target[u]
           /\ old_fullness'[u] = old_fullness[u]
           /\ freed'[u] = freed[u] /\ HID'[u] = HID[u]
  BY <1>2, ReturnsFacts
<1>6. /\ lock' \in [Heaps -> Threads \cup {NoThread}]
      /\ \A g \in Heaps : lock[g] \in Threads \ {t} => lock'[g] = lock[g]
  BY <1>2, <1>3 DEF TypeOK
<1>7. Leaving' = Leaving
  BY <1>2, <1>5, LeavingSame
<1>8. BlocksOK' /\ MapOK'
  BY <1>2, <1>7, BlocksKept
<1>9. TypeOK'
  BY <1>2, <1>4, <1>5, <1>6 DEF TypeOK, RehomedWell, blockVars
<1>10. ThreadsOK'
  <2>1. \A u \in Threads \ {t} : pc[u] = "free" => freed[u] \notin live' /\ pc'[t] # "free"
    BY <1>2, <1>5 DEF ThreadsOK, ThreadOK
  <2>2. \A p \in Superblocks :
          /\ p \in Superblocks'
          /\ lock[heap_id[p]] \in Threads \ {t}
               => /\ heap_id'[p] = heap_id[p] /\ block_size'[p] = block_size[p]
                  /\ used_blocks'[p] = used_blocks[p]
    BY <1>2, <1>3, <1>4 DEF RehomedWell, blockVars
  <2>3. \A g \in Heaps \ {0} : lock[g] \in Threads \ {t}
                                 => used'[g] = used[g] /\ allocated'[g] = allocated[g]
    BY <1>3, <1>4 DEF RehomedWell
  <2> QED  BY <1>2, <1>5, <1>6, <2>1, <2>2, <2>3, OthersKept
<1> QED  BY <1>4, <1>5, <1>8, <1>9, <1>10 DEF RehomedWell

-----------------------------------------------------------------------------
(* The invariant holds. *)

\* At the start nothing is handed out.
LEMMA InitInvariant == Init => IInv
<1> SUFFICES ASSUME Init PROVE IInv
  OBVIOUS
<1> USE DEF Init
<1>1. Superblocks = {} /\ Leaving = {} /\ 0 \in Heaps /\ 0 \in Bins
  BY ConstantFacts DEF Leaving
<1>2. TypeOK
  <2>1. /\ 0 \in 0 .. PAGES /\ 0 \in 0 .. SB_SIZE /\ PAGES \in Nat
    BY ConstantFacts
  <2> QED  BY <1>1, <2>1 DEF TypeOK
<1>3. LocalsOK
  BY <1>1 DEF LocalsOK
<1>4. ThreadsOK
  BY DEF ThreadsOK, ThreadOK
<1>5. BlocksOK /\ MapOK
  BY <1>1 DEF BlocksOK, MapOK
<1>6. PagesOK
  BY DEF PagesOK
<1>7. BinsOK
  <2>1. \A x \in BinIds : InBin(x) = {} /\ bin_first[x] = NULL
    BY <1>1 DEF InBin
  <2> QED  BY <2>1 DEF BinsOK, IsDoublyLinked, IsChain
<1>8. CountersExact
  <2>1. \A h \in Heaps : Owned(h) = {} /\ UsedBytes(h) = {}
    BY <1>1 DEF Owned, UsedBytes
  <2>2. Cardinality({}) = 0 /\ SB_SIZE * 0 = 0
    BY FS_EmptySet, ConstantFacts
  <2>3. \A h \in Heaps : allocated[h] = 0 /\ used[h] = 0
    OBVIOUS
  <2> QED  BY <2>1, <2>2, <2>3 DEF CountersExact
<1> QED  BY <1>2, <1>3, <1>4, <1>5, <1>6, <1>7, <1>8 DEF IInv

\* Steps of the rest of the system.
LEMMA StutterInvariant == IInv /\ UNCHANGED vars => IInv'
<1> SUFFICES ASSUME IInv, UNCHANGED vars PROVE IInv'
  OBVIOUS
<1>1. UNCHANGED <<cpu, pc, lock, request, target, old_fullness, freed, HID, seen, brk, block_size,
                  block_map, used_blocks, heap_id, prev, next, bin_first, allocated, used, live>>
  BY DEF vars, callVars, blockVars, listVars
<1>2. Leaving' = Leaving /\ \A t \in Threads : Heap(t)' = Heap(t)
  BY <1>1 DEF Leaving, Heap
<1>3. TypeOK' /\ LocalsOK'
  BY <1>1 DEF IInv, TypeOK, LocalsOK
<1>4. ThreadsOK'
  BY <1>1, <1>2 DEF IInv, ThreadsOK, ThreadOK, HasSlack
<1>5. live' \cup Leaving' = live \cup Leaving
      /\ UNCHANGED <<brk, block_size, blockVars, heap_id, listVars, allocated, used>>
  BY <1>1, <1>2 DEF blockVars, listVars
<1>6. BlocksOK' /\ MapOK' /\ PagesOK' /\ BinsOK' /\ CountersExact'
  BY <1>1, <1>5, HeapsKept
<1> QED  BY <1>3, <1>4, <1>6 DEF IInv

\* Every step that goes by what is still the case keeps the invariant.
LEMMA NextInvariant == IInv /\ HIDFresh /\ SeenFresh /\ [Next]_vars => IInv'
<1> SUFFICES ASSUME IInv, HIDFresh, SeenFresh, [Next]_vars PROVE IInv'
  OBVIOUS
<1>1. CASE UNCHANGED vars
  BY <1>1, StutterInvariant
<1>2. ASSUME NEW t \in Threads, NEW b \in block_sizes, mm_malloc(t, b) PROVE IInv'
  BY <1>2, MallocStep
<1>3. ASSUME NEW t \in Threads, FetchGlobal(t) PROVE IInv'
  BY <1>3, FetchGlobalStep
<1>4. ASSUME NEW t \in Threads, FetchNew(t) PROVE IInv'
  BY <1>4, FetchNewStep
<1>5. ASSUME NEW t \in Threads, FetchFails(t) PROVE IInv'
  BY <1>5, FetchFailsStep
<1>6. ASSUME NEW t \in Threads, TakeBlock(t) PROVE IInv'
  BY <1>6, TakeBlockStep
<1>7. ASSUME NEW t \in Threads, NEW x \in live, mm_free(t, x) PROVE IInv'
  BY <1>7, FreeStep
<1>8. ASSUME NEW t \in Threads, FreeBlock(t) PROVE IInv'
  BY <1>8, FreeBlockStep
<1>9. ASSUME NEW t \in Threads, ShedReads(t) PROVE IInv'
  BY <1>9, ShedReadsStep
<1>10. ASSUME NEW t \in Threads, ShedWrites(t) PROVE IInv'
  BY <1>10, ShedWritesStep
<1> QED  BY <1>1, <1>2, <1>3, <1>4, <1>5, <1>6, <1>7, <1>8, <1>9, <1>10 DEF Next

-----------------------------------------------------------------------------
(* What follows from the invariant. *)

\* Blocks beyond the reserved ones lie behind the header.
LEMMA HeaderFromInvariant == IInv => HeaderIntact
<1> SUFFICES ASSUME IInv, NEW x \in live
             PROVE  LET b == block_size[x[1]]
                    IN  x[2] * b >= HEADER /\ (x[2] + 1) * b <= SB_SIZE
  BY DEF HeaderIntact
<1> USE DEF IInv
<1> DEFINE s == x[1]
           k == x[2]
           b == block_size[s]
           r == HeaderBlocks(b)
<1>1. s \in Superblocks /\ k \in 0 .. SB_SIZE - 1 /\ x = <<s, k>>
  BY DEF TypeOK
<1>2. /\ b \in block_sizes /\ b \in Nat /\ r \in Nat /\ r * b >= HEADER
      /\ Reserved(b) = 0 .. r - 1 /\ Capacity(b) \in Nat /\ Capacity(b) * b = SB_SIZE
      /\ HEADER \in Nat /\ SB_SIZE \in Nat
  BY <1>1, SuperblockFacts, SizeFacts, ConstantFacts
<1>3. k \notin Reserved(b) /\ k \in block_map[s]
  <2>1. k \notin Reserved(b)
    BY DEF BlocksOK
  <2>2. k \in block_map[s]
    BY <1>1 DEF MapOK
  <2> QED  BY <2>1, <2>2
<1>4. k \in 0 .. Capacity(b) - 1
  BY <1>1, <1>3 DEF BlocksOK
<1> HIDE DEF s, k, b, r
<1>5. k \in Nat /\ r <= k /\ k + 1 <= Capacity(b)
  BY <1>2, <1>3, <1>4
<1>6. r * b <= k * b /\ (k + 1) * b <= Capacity(b) * b /\ r * b \in Nat /\ k * b \in Nat
  BY <1>2, <1>5, ProductMono, Products
<1>7. k * b >= HEADER /\ (k + 1) * b <= SB_SIZE
  BY <1>2, <1>6
<1> QED  BY <1>7 DEF s, k, b

\* A heap whose superblocks are all in bin 2 or above does not pass the test on its
\* counters: then each of them is used to one part in FULLNESS_DENOMINATOR at least.
LEMMA ShedFromInvariant == IInv => ShedFindsOne
<1> SUFFICES ASSUME IInv, NEW t \in Threads, pc[t] = "shed" PROVE Sheddable(HID[t]) # {}
  BY DEF ShedFindsOne
<1> USE DEF IInv
<1> DEFINE h == HID[t]
           O == Owned(h)
           F == FULLNESS_DENOMINATOR
           c == Cardinality(O)
           u == Cardinality(UsedBytes(h))
<1>1. h \in Heaps /\ used[h] < allocated[h] \div F
  BY DEF LocalsOK, ThreadsOK, ThreadOK, HasSlack
<1>2. /\ IsFiniteSet(O) /\ O \subseteq Superblocks
      /\ UsedBytes(h) = Bytes(O, used_blocks, block_size)
  BY OwnedFacts
<1>3. allocated[h] = SB_SIZE * c /\ used[h] = u
  BY <1>1 DEF CountersExact
<1>4. \E s \in O : fullness(used_blocks[s], block_size[s]) = 1
  <2> SUFFICES ASSUME \A s \in O : fullness(used_blocks[s], block_size[s]) # 1
               PROVE  FALSE
    OBVIOUS
  <2>1. ASSUME NEW s \in O
        PROVE  used_blocks[s] * block_size[s] \in Nat
               /\ SB_SIZE <= (used_blocks[s] * block_size[s]) * F
    <3> DEFINE b == block_size[s]
               m == used_blocks[s]
    <3>1. b \in block_sizes /\ m \in 0 .. Capacity(b) /\ fullness(m, b) # 1
      BY <1>2, SuperblockFacts
    <3>2. b \in Nat /\ Capacity(b) \in Nat /\ Capacity(b) * b = SB_SIZE /\ F \in Nat
      BY <3>1, SizeFacts, ConstantFacts
    <3>3. ~ (m * F < Capacity(b))
      BY <3>1, FullnessFacts
    <3> HIDE DEF b, m, F
    <3>4. m \in Nat /\ m * F \in Nat /\ Capacity(b) <= m * F /\ m * b \in Nat
      BY <3>1, <3>2, <3>3, Products
    <3>5. Capacity(b) * b <= (m * F) * b
      BY <3>2, <3>4, ProductMono
    <3>6. (m * F) * b = (m * b) * F
      BY <3>2, <3>4
    <3> QED  BY <3>2, <3>4, <3>5, <3>6 DEF b, m
  <2>2. c \in Nat /\ u \in Nat /\ SB_SIZE * c <= u * F
    <3> HIDE DEF O
    <3> QED  BY <1>2, <2>1, ManyBytes
  <2> DEFINE A == SB_SIZE * c
             q == A \div F
  <2>3. A \in Nat /\ F \in Nat \ {0}
    BY <2>2, Products, ConstantFacts
  <2> HIDE DEF A, F, u, c
  <2>4. q \in Nat /\ A = q * F + (A % F) /\ A % F \in 0 .. F - 1
    BY <2>3, Division
  <2>5. u < q /\ A <= u * F
    BY <1>1, <1>3, <2>2 DEF A
  <2> HIDE DEF q
  <2>6. (u + 1) * F <= q * F
    BY <2>2, <2>3, <2>4, <2>5, ProductMono
  <2>7. u * F \in Nat /\ q * F \in Nat /\ (u + 1) * F = u * F + F /\ A % F \in Nat
    BY <2>2, <2>3, <2>4, Products
  <2> QED  BY <2>3, <2>4, <2>5, <2>6, <2>7
<1>5. PICK s \in O : fullness(used_blocks[s], block_size[s]) = 1
  BY <1>4
<1> DEFINE sizes == {b \in block_sizes : bin_first[<<h, b, 1>>] # NULL}
<1>6. sizes # {} /\ sizes \subseteq Nat
  <2>1. /\ block_size[s] \in block_sizes /\ s \in InBin(<<h, block_size[s], 1>>)
    BY <1>2, <1>5, SuperblockFacts DEF InBin, Owned
  <2>2. 1 \in Bins
    BY ConstantFacts
  <2>3. bin_first[<<h, block_size[s], 1>>] # NULL
    BY <1>1, <2>1, <2>2, WalkFacts
  <2>4. block_sizes \subseteq Nat
    BY SizeFacts
  <2> QED  BY <2>1, <2>3, <2>4
<1>7. PICK b \in sizes : \A a \in sizes : b <= a
  <2> HIDE DEF sizes
  <2> QED  BY <1>6, LeastNumber
<1>8. \A a \in block_sizes : bin_first[<<h, a, 0>>] = NULL
  <2>1. 0 \in Bins
    BY ConstantFacts
  <2>2. \A a \in block_sizes : <<h, a, 0>> \in BinIds /\ InBin(<<h, a, 0>>) = {}
    BY <1>1, <2>1, BinFacts
  <2> QED  BY <2>2, WalkFacts
<1>9. <<h, b, 1>> \in Sheddable(h)
  <2> HIDE DEF h
  <2>1. ASSUME NEW y \in {h} \X block_sizes \X {0, 1}, y[3] < 1 \/ (y[3] = 1 /\ y[2] < b)
        PROVE  bin_first[y] = NULL
    <3>1. y = <<h, y[2], y[3]>> /\ y[2] \in block_sizes /\ y[3] \in {0, 1}
      OBVIOUS
    <3>2. CASE y[3] = 0
      BY <1>8, <3>1, <3>2
    <3>3. CASE y[3] = 1
      <4>1. y[2] \in Nat /\ b \in Nat /\ y[2] < b
        BY <1>6, <2>1, <3>1, <3>3, SizeFacts
      <4>2. y[2] \notin sizes
        BY <1>7, <4>1
      <4> QED  BY <3>1, <3>3, <4>2
    <3> QED  BY <3>1, <3>2, <3>3
  <2>2. <<h, b, 1>> \in {h} \X block_sizes \X {0, 1} /\ bin_first[<<h, b, 1>>] # NULL
    BY <1>7
  <2> QED  BY <2>1, <2>2 DEF Sheddable
<1> QED  BY <1>9

-----------------------------------------------------------------------------
(* Two kinds of program that never go by what is no longer the case. *)

\* One thread, or so few pages that no heap ever has more than K to spare.
Calm == (\E t : Threads = {t}) \/ PAGES <= K

\* Without shedding, the global heap has no superblock to hand out.
Unshared ==
  PAGES <= K => /\ \A t \in Threads : pc[t] \notin {"shed", "give"}
                /\ \A s \in Superblocks : heap_id[s] # 0

CalmInv == IInv /\ HIDFresh /\ SeenFresh /\ Unshared

\* A step of t leaves the others' calls alone, and starts a free with a fresh heap.
CallsKept(t) ==
  /\ \A u \in Threads \ {t} : pc'[u] = pc[u] /\ freed'[u] = freed[u] /\ HID'[u] = HID[u]
  /\ pc'[t] = "free" => heap_id'[freed'[t][1]] = HID'[t]

\* Every step does both.
LEMMA CallsKeptByStep ==
  ASSUME IInv, NEW t \in Threads,
         \/ \E b \in block_sizes : mm_malloc(t, b)
         \/ FetchGlobal(t) \/ FetchNew(t) \/ FetchFails(t) \/ TakeBlock(t)
         \/ \E x \in live : mm_free(t, x)
         \/ FreeBlock(t) \/ ShedReads(t) \/ ShedWrites(t)
  PROVE  CallsKept(t)
<1>1. /\ pc \in [Threads -> {"idle", "fetch", "take", "free", "shed", "give"}]
      /\ freed \in [Threads -> ((1 .. PAGES) \X (0 .. SB_SIZE - 1)) \cup {NULL}]
      /\ HID \in [Threads -> Heaps]
  BY DEF IInv, TypeOK, LocalsOK
<1>2. ASSUME Returns(t) PROVE CallsKept(t)
  <2>1. pc'[t] = "idle" /\ \A u \in Threads \ {t} : pc'[u] = pc[u]
    BY <1>1, <1>2 DEF Returns
  <2>2. \A u \in Threads \ {t} : freed'[u] = freed[u]
    BY <1>1, <1>2 DEF Returns
  <2>3. \A u \in Threads \ {t} : HID'[u] = HID[u]
    BY <1>1, <1>2 DEF Returns
  <2> QED  BY <2>1, <2>2, <2>3 DEF CallsKept
<1>3. ASSUME NEW l \in {"fetch", "take", "shed", "give"}, pc' = [pc EXCEPT ![t] = l],
             UNCHANGED <<freed, HID>>
      PROVE  CallsKept(t)
  <2>1. pc'[t] # "free" /\ \A u \in Threads \ {t} : pc'[u] = pc[u]
    BY <1>1, <1>3
  <2> QED  BY <1>3, <2>1 DEF CallsKept
<1>4. ASSUME NEW b \in block_sizes, mm_malloc(t, b) PROVE CallsKept(t)
  BY <1>3, <1>4 DEF mm_malloc
<1>5. CASE FetchGlobal(t) \/ FetchNew(t)
  BY <1>3, <1>5 DEF FetchGlobal, FetchNew, Fetch
<1>6. CASE FetchFails(t) \/ TakeBlock(t) \/ ShedWrites(t)
  BY <1>2, <1>6 DEF FetchFails, TakeBlock, ShedWrites
<1>7. ASSUME NEW x \in live, mm_free(t, x) PROVE CallsKept(t)
  <2>1. /\ pc' = [pc EXCEPT ![t] = "free"] /\ freed' = [freed EXCEPT ![t] = x]
        /\ HID' = [HID EXCEPT ![t] = heap_id[x[1]]] /\ heap_id' = heap_id
    BY <1>7 DEF mm_free
  <2>2. \A u \in Threads \ {t} : pc'[u] = pc[u]
    BY <1>1, <2>1
  <2>3. freed'[t] = x /\ \A u \in Threads \ {t} : freed'[u] = freed[u]
    BY <1>1, <2>1
  <2>4. HID'[t] = heap_id[x[1]] /\ \A u \in Threads \ {t} : HID'[u] = HID[u]
    BY <1>1, <2>1
  <2> QED  BY <2>1, <2>2, <2>3, <2>4 DEF CallsKept
<1>8. CASE FreeBlock(t)
  BY <1>2, <1>3, <1>8 DEF FreeBlock, callVars
<1>9. CASE ShedReads(t)
  BY <1>3, <1>9 DEF ShedReads
<1> QED  BY <1>4, <1>5, <1>6, <1>7, <1>8, <1>9

\* With no more pages than a heap may keep, no free leaves a heap with slack to shed.
LEMMA NoSlack ==
  ASSUME IInv, PAGES <= K, NEW h \in Heaps, NEW u \in Nat
  PROVE  ~ HasSlack(h, u)
<1> DEFINE c == Cardinality(Owned(h))
<1>1. allocated[h] = SB_SIZE * c
  BY DEF IInv, CountersExact
<1>2. c \in Nat /\ c <= K
  <2>1. IsFiniteSet(Owned(h)) /\ c \in Nat /\ Owned(h) \subseteq 1 .. brk
    BY OwnedFacts DEF IInv
  <2>2. brk \in Nat /\ 1 \in Int /\ brk \in Int /\ brk <= K /\ K \in Nat
    BY ConstantFacts DEF IInv, TypeOK
  <2>3. IsFiniteSet(1 .. brk) /\ Cardinality(1 .. brk) = IF 1 > brk THEN 0 ELSE brk - 1 + 1
    BY <2>2, FS_Interval
  <2>4. c <= Cardinality(1 .. brk)
    BY <2>1, <2>3, FS_Subset
  <2> HIDE DEF c
  <2> QED  BY <2>1, <2>2, <2>3, <2>4
<1> HIDE DEF c
<1>3. K \in Nat /\ SB_SIZE \in Nat
  BY ConstantFacts
<1> DEFINE p == c * SB_SIZE
           q == K * SB_SIZE
<1>4. p <= q /\ p \in Nat /\ q \in Nat /\ allocated[h] = p
  BY <1>1, <1>2, <1>3, ProductMono, Products
<1> HIDE DEF p
<1>5. ~ (u < allocated[h] - q)
  <2> HIDE DEF q
  <2> QED  BY <1>4
<1> QED  BY <1>5 DEF HasSlack

\* Then superblocks stay in the heap they came to from mem_sbrk.
LEMMA UnsharedStep ==
  ASSUME IInv, IInv', Unshared, PAGES <= K, NEW t \in Threads,
         \/ \E b \in block_sizes : mm_malloc(t, b)
         \/ FetchGlobal(t) \/ FetchNew(t) \/ FetchFails(t) \/ TakeBlock(t)
         \/ \E x \in live : mm_free(t, x)
         \/ FreeBlock(t) \/ ShedReads(t) \/ ShedWrites(t)
  PROVE  Unshared' /\ \A s \in Superblocks : heap_id'[s] = heap_id[s]
<1>1. /\ pc \in [Threads -> {"idle", "fetch", "take", "free", "shed", "give"}]
      /\ \A u \in Threads : pc[u] \notin {"shed", "give"}
      /\ \A s \in Superblocks : heap_id[s] # 0
  BY DEF IInv, TypeOK, Unshared
<1>2. ASSUME UNCHANGED <<brk, heap_id>>,
             \/ Returns(t)
             \/ \E l \in {"fetch", "take", "free"} : pc' = [pc EXCEPT ![t] = l]
      PROVE  Unshared' /\ \A s \in Superblocks : heap_id'[s] = heap_id[s]
  <2>1. \A u \in Threads : pc'[u] \notin {"shed", "give"}
    BY <1>1, <1>2 DEF Returns
  <2> QED  BY <1>1, <1>2, <2>1 DEF Unshared
<1>3. CASE \E b \in block_sizes : mm_malloc(t, b)
  BY <1>2, <1>3 DEF mm_malloc
<1>4. ~ FetchGlobal(t)
  <2> SUFFICES ASSUME FetchGlobal(t) PROVE FALSE
    OBVIOUS
  <2> DEFINE b == request[t]
             x == <<0, b, 1>>
  <2>1. bin_first[x] # NULL /\ pc[t] = "fetch"
    BY DEF FetchGlobal, Fetch
  <2>2. x \in BinIds
    BY <2>1, ConstantFacts DEF IInv, ThreadsOK, ThreadOK
  <2>3. bin_first[x] \in InBin(x)
    <3> HIDE DEF x
    <3> QED  BY <2>1, <2>2, WalkFacts DEF IInv
  <2> QED  BY <1>1, <2>3 DEF InBin
<1>5. CASE FetchNew(t)
  <2>1. /\ brk' = brk + 1 /\ brk < PAGES /\ pc' = [pc EXCEPT ![t] = "take"]
        /\ heap_id' = [heap_id EXCEPT ![brk + 1] = Heap(t)]
    BY <1>5 DEF FetchNew, Fetch
  <2>2. \A u \in Threads : pc'[u] \notin {"shed", "give"}
    BY <1>1, <2>1
  <2>3. brk \in 0 .. PAGES /\ PAGES \in Nat /\ heap_id \in [1 .. PAGES -> Heaps]
    BY ConstantFacts DEF IInv, TypeOK
  <2>4. /\ heap_id'[brk + 1] = Heap(t) /\ Heap(t) # 0
        /\ \A s \in Superblocks : heap_id'[s] = heap_id[s]
    BY <2>1, <2>3, HeapOfThread DEF IInv
  <2>5. \A s \in Superblocks' : s \in Superblocks \/ s = brk + 1
    BY <2>1, <2>3
  <2>6. \A s \in Superblocks' : heap_id'[s] # 0
    BY <1>1, <2>4, <2>5
  <2> QED  BY <2>2, <2>4, <2>6 DEF Unshared
<1>6. CASE FetchFails(t) \/ TakeBlock(t)
  BY <1>2, <1>6 DEF FetchFails, TakeBlock
<1>7. CASE \E x \in live : mm_free(t, x)
  BY <1>2, <1>7 DEF mm_free
<1>8. CASE FreeBlock(t)
  <2> DEFINE h == HID[t]
  <2>1. /\ UNCHANGED <<brk, heap_id, allocated>>
        /\ Returns(t) \/ (h # 0 /\ HasSlack(h, used'[h]))
    BY <1>8 DEF FreeBlock
  <2>2. h \in Heaps /\ used'[h] \in Nat
    BY DEF IInv, LocalsOK, TypeOK
  <2>3. ~ HasSlack(h, used'[h])
    BY <2>2, NoSlack
  <2> QED  BY <1>2, <2>1, <2>3
<1>9. ~ ShedReads(t) /\ ~ ShedWrites(t)
  BY <1>1 DEF ShedReads, ShedWrites
<1> QED  BY <1>3, <1>4, <1>5, <1>6, <1>7, <1>8, <1>9

\* Nothing is being freed at the start.
LEMMA CalmInit == Init => CalmInv
<1> SUFFICES ASSUME Init PROVE HIDFresh /\ SeenFresh /\ Unshared
  BY InitInvariant DEF CalmInv
<1>1. (\A t \in Threads : pc[t] = "idle") /\ Superblocks = {}
  BY DEF Init
<1> QED  BY <1>1 DEF HIDFresh, SeenFresh, Unshared

\* A single thread goes on to write the global heap it has just read.
LEMMA SeenByStep ==
  ASSUME IInv, NEW t \in Threads, Threads = {t},
         \/ \E b \in block_sizes : mm_malloc(t, b)
         \/ FetchGlobal(t) \/ FetchNew(t) \/ FetchFails(t) \/ TakeBlock(t)
         \/ \E x \in live : mm_free(t, x)
         \/ FreeBlock(t) \/ ShedReads(t) \/ ShedWrites(t)
  PROVE  SeenFresh'
<1>1. pc \in [Threads -> {"idle", "fetch", "take", "free", "shed", "give"}]
  BY DEF IInv, TypeOK
<1>2. ASSUME pc'[t] # "give" PROVE SeenFresh'
  BY <1>2 DEF SeenFresh
<1>3. CASE ShedReads(t)
  <2>1. PICK x \in Sheddable(HID[t]) : seen' = [seen EXCEPT ![t] = Reading(x)]
    BY <1>3 DEF ShedReads
  <2>2. UNCHANGED <<HID, bin_first, used, allocated>>
    BY <1>3 DEF ShedReads, listVars
  <2>3. seen'[t] = Reading(x)' /\ x \in Sheddable(HID[t])'
    BY <2>1, <2>2 DEF IInv, LocalsOK, Reading, Sheddable
  <2> QED  BY <2>3 DEF SeenFresh
<1>4. CASE \E b \in block_sizes : mm_malloc(t, b)
  BY <1>1, <1>2, <1>4 DEF mm_malloc
<1>5. CASE FetchGlobal(t) \/ FetchNew(t)
  BY <1>1, <1>2, <1>5 DEF FetchGlobal, FetchNew, Fetch
<1>6. CASE FetchFails(t) \/ TakeBlock(t) \/ ShedWrites(t)
  BY <1>1, <1>2, <1>6 DEF FetchFails, TakeBlock, ShedWrites, Returns
<1>7. CASE \E x \in live : mm_free(t, x)
  BY <1>1, <1>2, <1>7 DEF mm_free
<1>8. CASE FreeBlock(t)
  BY <1>1, <1>2, <1>8 DEF FreeBlock, Returns
<1> QED  BY <1>3, <1>4, <1>5, <1>6, <1>7, <1>8

\* Every step of a calm program keeps the invariant, and every free fresh.
LEMMA CalmNext == Calm /\ CalmInv /\ [Next]_vars => CalmInv'
<1> SUFFICES ASSUME Calm, CalmInv, [Next]_vars PROVE HIDFresh' /\ SeenFresh' /\ Unshared'
  BY NextInvariant DEF CalmInv
<1>1. IInv /\ IInv' /\ HIDFresh /\ SeenFresh /\ Unshared
  BY NextInvariant DEF CalmInv
<1>2. CASE UNCHANGED vars
  <2>1. UNCHANGED <<pc, freed, HID, seen, heap_id, brk, bin_first, used, allocated>>
    BY <1>2 DEF vars, callVars, listVars
  <2>2. HIDFresh' /\ Unshared'
    BY <1>1, <2>1 DEF HIDFresh, Unshared
  <2>3. SeenFresh'
    BY <1>1, <2>1 DEF SeenFresh, Sheddable, Reading
  <2> QED  BY <2>2, <2>3
<1>3. CASE Next
  <2>1. PICK t \in Threads :
          \/ \E b \in block_sizes : mm_malloc(t, b)
          \/ FetchGlobal(t) \/ FetchNew(t) \/ FetchFails(t) \/ TakeBlock(t)
          \/ \E x \in live : mm_free(t, x)
          \/ FreeBlock(t) \/ ShedReads(t) \/ ShedWrites(t)
    BY <1>3 DEF Next
  <2>2. CallsKept(t)
    BY <1>1, <2>1, CallsKeptByStep
  <2>3. PAGES <= K => Unshared' /\ \A s \in Superblocks : heap_id'[s] = heap_id[s]
    BY <1>1, <2>1, UnsharedStep
  <2>4. Unshared'
    BY <2>3 DEF Unshared
  <2>5. ASSUME NEW u \in Threads, pc'[u] = "free" PROVE heap_id'[freed'[u][1]] = HID'[u]
    <3>1. CASE u = t
      BY <2>2, <2>5, <3>1 DEF CallsKept
    <3>2. CASE u # t
      <4>1. pc[u] = "free" /\ freed'[u] = freed[u] /\ HID'[u] = HID[u]
        BY <2>2, <2>5, <3>2 DEF CallsKept
      <4>2. PAGES <= K
        BY <3>2 DEF Calm
      <4>3. freed[u][1] \in Superblocks
        BY <1>1, <4>1 DEF IInv, ThreadsOK, ThreadOK
      <4> QED  BY <1>1, <2>3, <4>1, <4>2, <4>3 DEF HIDFresh
    <3> QED  BY <3>1, <3>2
  <2>6. SeenFresh'
    <3>1. CASE PAGES <= K
      BY <2>4, <3>1 DEF Unshared, SeenFresh
    <3>2. CASE Threads = {t}
      BY <1>1, <2>1, <3>2, SeenByStep
    <3> QED  BY <3>1, <3>2 DEF Calm
  <2> QED  BY <2>4, <2>5, <2>6 DEF HIDFresh
<1> QED  BY <1>2, <1>3

\* Such a program's heaps are always right.
THEOREM CalmSafety == Calm => (Spec => []CalmInv)
<1>1. CASE Calm
  BY <1>1, CalmInit, CalmNext, PTL DEF Spec
<1> QED  BY <1>1

\* mm_free's unlocked read of heap_id is still true when it has the lock.
THEOREM HeapsFresh == Calm => (Spec => []HIDFresh)
<1>1. CalmInv => HIDFresh
  BY DEF CalmInv
<1> QED  BY <1>1, CalmSafety, PTL

\* The variables keep their types; in particular used never goes below 0.
THEOREM TypeCorrect == Calm => (Spec => []TypeOK)
<1>1. CalmInv => TypeOK
  BY DEF CalmInv, IInv
<1> QED  BY <1>1, CalmSafety, PTL

\* No block is handed out twice and none is lost.
THEOREM MapCorrect == Calm => (Spec => []MapOK)
<1>1. CalmInv => MapOK
  BY DEF CalmInv, IInv
<1> QED  BY <1>1, CalmSafety, PTL

\* No block in the program's hands lies over a superblock's header or past its end.
THEOREM HeaderCorrect == Calm => (Spec => []HeaderIntact)
<1>1. CalmInv => HeaderIntact
  BY HeaderFromInvariant DEF CalmInv
<1> QED  BY <1>1, CalmSafety, PTL

\* Each list is the superblocks of its heap, size and fullness.
THEOREM BinsCorrect == Calm => (Spec => []BinsOK)
<1>1. CalmInv => BinsOK
  BY DEF CalmInv, IInv
<1> QED  BY <1>1, CalmSafety, PTL

\* Each heap's counters are the bytes of its superblocks.
THEOREM CountersCorrect == Calm => (Spec => []CountersExact)
<1>1. CalmInv => CountersExact
  BY DEF CalmInv, IInv
<1> QED  BY <1>1, CalmSafety, PTL

\* A heap that is to give a superblock away has one.
THEOREM ShedCorrect == Calm => (Spec => []ShedFindsOne)
<1>1. CalmInv => ShedFindsOne
  BY ShedFromInvariant DEF CalmInv
<1> QED  BY <1>1, CalmSafety, PTL
=============================================================================
