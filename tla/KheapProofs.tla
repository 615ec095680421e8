------------------------------ MODULE KheapProofs ------------------------------
(***************************************************************************)
(* Proofs about Kheap, for any page size, block sizes, number of pages,      *)
(* lengths asked for and place of the data segment.                          *)
(*                                                                           *)
(* The invariant has three parts: the lists of page references (RefsInv);    *)
(* the division of the pages obtained among pages of references, pages of    *)
(* blocks and chunks (PagesInv); and, page by page, the blocks in the free   *)
(* list, those in the program's hands and those gone astray (BlocksInv).  It *)
(* holds until the request for a chunk is given a block that went astray.    *)
(***************************************************************************)
EXTENDS Kheap, FiniteSetTheorems, FunctionTheorems, SequenceTheorems,
        WellFoundedInduction, TLAPS

TypeInv ==
  /\ brk \in BASE .. BASE + PAGES
  /\ fresh_refs \in Seq(Refs) /\ recycled_refs \in Seq(Refs)
  /\ sizebases \in [sizes -> Seq(Refs)]
  /\ page \in [Refs -> Frames \cup {0}] /\ blocktype \in [Refs -> sizes]
  /\ flist \in [Refs -> Seq(Nat)] /\ nfree \in [Refs -> Int]
  /\ bigchunks \in Seq(Frames) /\ npages \in [Frames -> Nat]
  /\ strays \subseteq Nat /\ ahead \in Nat
  /\ live \subseteq [at : Nat, len : Requests]

\* What is said of the lists of references, with new and old the references without a
\* page and those of free pages, and used those in use.
Known(new, old, used) == ToSet(new) \cup ToSet(old) \cup used

ListsApart(new, old, used) ==
  /\ IsInjective(new) /\ IsInjective(old)
  /\ ToSet(new) \cap ToSet(old) = {}
  /\ ToSet(new) \cap used = {} /\ ToSet(old) \cap used = {}

\* Every reference of a page of references is known.
WholePages(known) ==
  \A r \in known : \A q \in Refs : q \div REFS = r \div REFS => q \in known

UnpagedLast(old, pg, top) ==
  \A i \in DOMAIN old : pg[old[i]] = 0 => i = Len(old) /\ top = BASE + PAGES

RefsInv ==
  /\ ListsApart(fresh_refs, recycled_refs, InUse)
  /\ WholePages(AllRefs)
  /\ UnpagedLast(recycled_refs, page, brk)
  /\ \A s \in sizes : IsInjective(sizebases[s])
  /\ \A r \in Refs : r \in ToSet(fresh_refs) \/ r \notin AllRefs => page[r] = 0
  /\ \A r \in Refs : r \notin InUse => page[r] < FRAMES

\* The pages below top are divided among those of a set P, those that pg gives to the
\* members of C, and the chunks of np[c] pages that begin at a c in H.
Partition(P, C, pg, H, np, top) ==
  /\ \A f \in P : BASE <= f /\ f < top
  /\ \A r \in C : BASE <= pg[r] /\ pg[r] < top /\ pg[r] \notin P
  /\ \A r, q \in C : pg[r] = pg[q] => r = q
  /\ \A c \in H : BASE <= c /\ 1 <= np[c] /\ c + np[c] <= top
  /\ \A c \in H : \A f \in P : ~ (c <= f /\ f < c + np[c])
  /\ \A c \in H : \A r \in C : ~ (c <= pg[r] /\ pg[r] < c + np[c])
  /\ \A c, d \in H : c < d => c + np[c] <= d
  /\ \A f \in BASE .. top - 1 :
       f \in P \/ (\E r \in C : pg[r] = f) \/ \E c \in H : c <= f /\ f < c + np[c]

\* The same, of numbers.
Divided(P, C, pg, H, np, top) ==
  /\ Partition(P, C, pg, H, np, top)
  /\ top \in Nat /\ BASE <= top /\ P \subseteq Nat /\ H \subseteq Nat
  /\ \A r \in C : pg[r] \in Nat
  /\ \A c \in H : np[c] \in Nat

RefPages(known) == {r \div REFS : r \in known}
Paged(known, pg) == {r \in known : pg[r] # 0}
Held == {x.at \div PAGE_SIZE : x \in {x \in live : ~ Small(x)}}

PagesInv ==
  /\ Divided(RefPages(AllRefs), Paged(AllRefs, page), page, Held \cup ToSet(bigchunks), npages, brk)
  /\ IsInjective(bigchunks) /\ Held \cap ToSet(bigchunks) = {}

\* x is block b of the page of r.
IsBlock(x, r, b) == x.at = page[r] * PAGE_SIZE + b

\* Block b of the page of r was freed as a chunk.
Gone(r, b) == page[r] * PAGE_SIZE + b \in strays

PageOK(r) ==
  /\ page[r] # 0
  /\ nfree[r] = Len(flist[r]) /\ IsInjective(flist[r])
  /\ ToSet(flist[r]) \subseteq Blocks(blocktype[r])
  /\ \A b \in Blocks(blocktype[r]) :
       b \in ToSet(flist[r]) \/ Gone(r, b) \/ \E x \in live : IsBlock(x, r, b)
  /\ page[r] < FRAMES => \E x \in live : \E b \in Blocks(blocktype[r]) : IsBlock(x, r, b)

BlockOK(x) ==
  \E r \in InUse : \E b \in Blocks(blocktype[r]) :
    /\ IsBlock(x, r, b) /\ b \notin ToSet(flist[r])
    /\ blocktype[r] = blocktype_of(x.len)

ChunkOK(x) ==
  LET c == x.at \div PAGE_SIZE IN
  x.at = c * PAGE_SIZE + SMALLEST /\ x.len + SMALLEST <= npages[c] * PAGE_SIZE

\* Only blocks of pages beyond the 32-bit addresses go astray.
StrayOK(a) ==
  \E r \in InUse : \E b \in Blocks(blocktype[r]) :
    page[r] >= FRAMES /\ a = page[r] * PAGE_SIZE + b /\ b \notin ToSet(flist[r])

BlocksInv ==
  /\ \A s \in sizes : \A r \in ToSet(sizebases[s]) : blocktype[r] = s
  /\ \A r \in InUse : PageOK(r)
  /\ \A x \in live : IF Small(x) THEN BlockOK(x) ELSE ChunkOK(x)
  /\ \A x, y \in live : x.at = y.at => x = y
  /\ \A a \in strays : StrayOK(a)
  /\ \A x \in live : x.at \notin strays

IInv == TypeInv /\ RefsInv /\ PagesInv /\ BlocksInv

-----------------------------------------------------------------------------
(* Numbers. *)

\* Products and quotients, stated apart so that the leaves stay linear.
LEMMA Products ==
  ASSUME NEW a \in Nat, NEW b \in Nat
  PROVE  a * b \in Nat /\ (a + 1) * b = a * b + b /\ 0 * b = 0 /\ 1 * b = b
OBVIOUS

\* A product grows with its first factor.
LEMMA ProductMono ==
  ASSUME NEW a \in Nat, NEW b \in Nat, NEW c \in Nat, a <= b
  PROVE  a * c <= b * c
OBVIOUS

\* Products distribute over sums.
LEMMA Distributes ==
  ASSUME NEW a \in Nat, NEW b \in Nat, NEW c \in Nat
  PROVE  (a + b) * c = a * c + b * c
OBVIOUS

\* Multiples of d are d apart.
LEMMA MultiplesApart ==
  ASSUME NEW f \in Nat, NEW g \in Nat, NEW d \in Nat, f < g
  PROVE  f * d + d <= g * d
<1>1. (f + 1) * d <= g * d
  BY ProductMono
<1> QED  BY <1>1, Products

\* Quotient and remainder.
LEMMA Division ==
  ASSUME NEW a \in Nat, NEW d \in Nat \ {0}
  PROVE  /\ a \div d \in Nat /\ a % d \in 0 .. d - 1
         /\ a = (a \div d) * d + (a % d)
OBVIOUS

\* The quotient is the one number f with a in f * d .. f * d + d - 1.
LEMMA Quotient ==
  ASSUME NEW a \in Nat, NEW d \in Nat \ {0}, NEW f \in Nat, f * d <= a, a < f * d + d
  PROVE  a \div d = f
<1> DEFINE g == a \div d
<1>1. g \in Nat /\ a % d \in 0 .. d - 1 /\ a = g * d + (a % d)
  BY Division
<1> HIDE DEF g
<1> DEFINE p == f * d
           q == g * d
<1>2. p \in Nat /\ q \in Nat /\ p <= a /\ a < p + d /\ q <= a /\ a < q + d
  BY <1>1, Products
<1>3. f < g => p + d <= q
  BY <1>1, MultiplesApart
<1>4. g < f => q + d <= p
  BY <1>1, MultiplesApart
<1> HIDE DEF p, q
<1>5. f = g
  BY <1>1, <1>2, <1>3, <1>4
<1> QED  BY <1>5 DEF g

LEMMA LeastNumber ==
  ASSUME NEW S, S \subseteq Nat, S # {}
  PROVE  \E x \in S : \A y \in S : x <= y
<1> DEFINE Less == {ss \in Nat \X Nat : ss[1] < ss[2]}
<1>1. IsWellFoundedOn(Less, Nat)
  BY NatLessThanWellFounded DEF OpToRel
<1>2. \E x \in S : \A y \in S : ~ (<<y, x>> \in Less)
  <2> HIDE DEF Less
  <2> QED  BY <1>1, WFMin
<1>3. PICK x \in S : \A y \in S : ~ (<<y, x>> \in Less)
  BY <1>2
<1>4. ASSUME NEW y \in S PROVE x <= y
  <2>1. <<y, x>> \in Less <=> y < x
    OBVIOUS
  <2> QED  BY <1>3, <2>1
<1> QED  BY <1>4

-----------------------------------------------------------------------------
(* The constants. *)

LEMMA ConstantFacts ==
  /\ PAGE_SIZE \in Nat \ {0} /\ REFS \in Nat \ {0} /\ BASE \in Nat \ {0} /\ PAGES \in Nat
  /\ FRAMES \in Nat \ {0} /\ PAGES <= FRAMES
  /\ \A s \in sizes : s \in Nat \ {0} /\ s < PAGE_SIZE /\ PAGE_SIZE % s = 0
  /\ sizes # {} /\ Requests \subseteq Nat \ {0}
BY SizesAssumption, FrameAssumption

LEMMA SmallestFacts ==
  SMALLEST \in sizes /\ \A t \in sizes : SMALLEST <= t
<1>1. sizes \subseteq Nat /\ sizes # {}
  BY ConstantFacts
<1>2. \E s \in sizes : \A t \in sizes : s <= t
  BY <1>1, LeastNumber
<1> QED  BY <1>2 DEF SMALLEST

LEMMA LargestFacts ==
  LARGEST \in sizes /\ \A t \in sizes : t <= LARGEST
<1> DEFINE S == {n \in Nat : \E s \in sizes : n = PAGE_SIZE - s}
<1>1. S \subseteq Nat /\ S # {}
  <2>1. PICK s \in sizes : TRUE
    BY ConstantFacts
  <2>2. PAGE_SIZE - s \in S
    BY <2>1, ConstantFacts
  <2> QED  BY <2>2
<1>2. PICK n \in S : \A m \in S : n <= m
  <2> HIDE DEF S
  <2> QED  BY <1>1, LeastNumber
<1>3. PICK s \in sizes : n = PAGE_SIZE - s
  BY <1>2
<1>4. ASSUME NEW t \in sizes PROVE t <= s
  <2>1. PAGE_SIZE - t \in S
    BY ConstantFacts
  <2>2. n <= PAGE_SIZE - t
    BY <1>2, <2>1
  <2> QED  BY <1>3, <2>2, ConstantFacts
<1>5. \E x \in sizes : \A t \in sizes : t <= x
  BY <1>4
<1> QED  BY <1>5 DEF LARGEST

\* The block of a small request is of a size that holds it.
LEMMA BlocktypeFacts ==
  ASSUME NEW sz \in Requests, sz < LARGEST
  PROVE  blocktype_of(sz) \in sizes /\ sz <= blocktype_of(sz)
<1> DEFINE S == {s \in sizes : s >= sz}
<1>1. sz \in Nat
  BY ConstantFacts
<1>2. S \subseteq Nat /\ S # {}
  <2>1. LARGEST \in S
    BY <1>1, LargestFacts, ConstantFacts
  <2> QED  BY <2>1, ConstantFacts
<1>3. PICK x \in S : \A y \in S : x <= y
  <2> HIDE DEF S
  <2> QED  BY <1>2, LeastNumber
<1>4. \E s \in sizes : s >= sz /\ \A t \in sizes : t >= sz => s <= t
  BY <1>3
<1>5. /\ blocktype_of(sz) \in sizes
      /\ blocktype_of(sz) >= sz
  BY <1>4 DEF blocktype_of
<1> QED  BY <1>1, <1>5, ConstantFacts

\* A page is cut into a whole number of blocks.
LEMMA PageCut ==
  ASSUME NEW s \in sizes
  PROVE  PAGE_SIZE \div s \in Nat \ {0} /\ (PAGE_SIZE \div s) * s = PAGE_SIZE
<1> DEFINE n == PAGE_SIZE \div s
<1>1. s \in Nat \ {0} /\ PAGE_SIZE \in Nat \ {0} /\ PAGE_SIZE % s = 0
  BY ConstantFacts
<1>2. n \in Nat /\ PAGE_SIZE = n * s + (PAGE_SIZE % s)
  BY <1>1, Division
<1>3. n * s = PAGE_SIZE
  <2> HIDE DEF n
  <2>1. n * s \in Nat
    BY <1>1, <1>2, Products
  <2> QED  BY <1>1, <1>2, <2>1
<1>4. n # 0
  <2>1. n = 0 => n * s = 0
    BY <1>1, <1>2, Products
  <2> QED  BY <1>1, <1>3, <2>1
<1> QED  BY <1>2, <1>3, <1>4

\* A block lies within the page, and two blocks are apart.
LEMMA BlockFacts ==
  ASSUME NEW s \in sizes
  PROVE  /\ \A b \in Blocks(s) : b \in Nat /\ b + s <= PAGE_SIZE /\ b < PAGE_SIZE
         /\ \A b, c \in Blocks(s) : b < c => b + s <= c
<1> DEFINE n == PAGE_SIZE \div s
<1>1. s \in Nat \ {0} /\ PAGE_SIZE \in Nat \ {0} /\ n \in Nat \ {0} /\ n * s = PAGE_SIZE
  BY ConstantFacts, PageCut
<1>2. Blocks(s) = {i * s : i \in 0 .. n - 1}
  BY DEF Blocks
<1> HIDE DEF n
<1>3. ASSUME NEW b \in Blocks(s)
      PROVE  b \in Nat /\ b + s <= PAGE_SIZE /\ b < PAGE_SIZE
  <2>1. PICK i \in 0 .. n - 1 : b = i * s
    BY <1>2
  <2>2. i \in Nat /\ i < n
    BY <1>1
  <2>3. i * s + s <= n * s /\ i * s \in Nat
    BY <1>1, <2>2, MultiplesApart, Products
  <2> QED  BY <1>1, <2>1, <2>3
<1>4. ASSUME NEW b \in Blocks(s), NEW c \in Blocks(s), b < c
      PROVE  b + s <= c
  <2>1. PICK i \in 0 .. n - 1 : b = i * s
    BY <1>2
  <2>2. PICK j \in 0 .. n - 1 : c = j * s
    BY <1>2
  <2>3. i \in Nat /\ j \in Nat
    BY <1>1
  <2>4. j <= i => c <= b
    BY <1>1, <2>1, <2>2, <2>3, ProductMono
  <2>5. i < j
    BY <1>3, <1>4, <2>3, <2>4
  <2> QED  BY <1>1, <2>1, <2>2, <2>3, <2>5, MultiplesApart
<1> QED  BY <1>3, <1>4

-----------------------------------------------------------------------------
(* Lists. *)

\* A list with e in front.
LEMMA Pushed ==
  ASSUME NEW S, NEW q \in Seq(S), NEW e \in S
  PROVE  /\ <<e>> \o q \in Seq(S) /\ Len(<<e>> \o q) = Len(q) + 1
         /\ (<<e>> \o q)[1] = e
         /\ \A i \in 1 .. Len(q) : (<<e>> \o q)[i + 1] = q[i]
         /\ ToSet(<<e>> \o q) = {e} \cup ToSet(q)
         /\ IsInjective(q) /\ e \notin ToSet(q) => IsInjective(<<e>> \o q)
<1> DEFINE h == <<e>> \o q
<1>1. <<e>> \in Seq(S) /\ Len(<<e>>) = 1 /\ <<e>>[1] = e /\ Len(q) \in Nat
  OBVIOUS
<1>2. /\ h \in Seq(S) /\ Len(h) = Len(q) + 1
      /\ \A i \in 1 .. Len(q) + 1 : h[i] = IF i = 1 THEN e ELSE q[i - 1]
  <2>1. /\ h \in Seq(S) /\ Len(h) = 1 + Len(q)
        /\ \A i \in 1 .. 1 + Len(q) : h[i] = IF i <= 1 THEN <<e>>[i] ELSE q[i - 1]
    BY <1>1, ConcatProperties
  <2> HIDE DEF h
  <2> QED  BY <1>1, <2>1
<1> HIDE DEF h
<1>3. DOMAIN h = 1 .. Len(q) + 1 /\ DOMAIN q = 1 .. Len(q)
  BY <1>2
<1>4. h[1] = e /\ \A i \in 1 .. Len(q) : h[i + 1] = q[i]
  BY <1>1, <1>2
<1>5. ToSet(h) = {e} \cup ToSet(q)
  <2>1. ASSUME NEW x \in ToSet(h) PROVE x \in {e} \cup ToSet(q)
    <3>1. PICK i \in 1 .. Len(q) + 1 : x = h[i]
      BY <1>3 DEF ToSet
    <3>2. CASE i = 1
      BY <1>4, <3>1, <3>2
    <3>3. CASE i # 1
      <4>1. i - 1 \in 1 .. Len(q) /\ x = q[i - 1]
        BY <1>1, <1>2, <3>1, <3>3
      <4> QED  BY <1>3, <4>1 DEF ToSet
    <3> QED  BY <3>2, <3>3
  <2>2. ASSUME NEW x \in ToSet(q) PROVE x \in ToSet(h)
    <3>1. PICK i \in 1 .. Len(q) : x = q[i]
      BY <1>3 DEF ToSet
    <3>2. i + 1 \in DOMAIN h /\ x = h[i + 1]
      BY <1>1, <1>3, <1>4, <3>1
    <3> QED  BY <3>2 DEF ToSet
  <2>3. e \in ToSet(h)
    <3>1. 1 \in DOMAIN h
      BY <1>1, <1>3
    <3> QED  BY <1>4, <3>1 DEF ToSet
  <2> QED  BY <2>1, <2>2, <2>3
<1>6. ASSUME IsInjective(q), e \notin ToSet(q) PROVE IsInjective(h)
  <2> SUFFICES ASSUME NEW i \in DOMAIN h, NEW j \in DOMAIN h, h[i] = h[j] PROVE i = j
    BY DEF IsInjective
  <2>1. \A k \in DOMAIN q : q[k] # e
    BY <1>6 DEF ToSet
  <2>2. i # 1 => i - 1 \in DOMAIN q /\ h[i] = q[i - 1]
    BY <1>1, <1>2, <1>3
  <2>3. j # 1 => j - 1 \in DOMAIN q /\ h[j] = q[j - 1]
    BY <1>1, <1>2, <1>3
  <2>4. CASE i = 1 \/ j = 1
    BY <1>4, <2>1, <2>2, <2>3, <2>4
  <2>5. CASE i # 1 /\ j # 1
    <3>1. i - 1 = j - 1
      BY <1>6, <2>2, <2>3, <2>5 DEF IsInjective
    <3> QED  BY <1>1, <1>3, <3>1
  <2> QED  BY <2>4, <2>5
<1> QED  BY <1>2, <1>4, <1>5, <1>6 DEF h

\* A list without its head.
LEMMA Popped ==
  ASSUME NEW S, NEW q \in Seq(S), q # <<>>
  PROVE  /\ Head(q) \in S /\ Head(q) = q[1]
         /\ Tail(q) \in Seq(S) /\ Len(q) \in Nat \ {0} /\ Len(Tail(q)) = Len(q) - 1
         /\ \A i \in 1 .. Len(q) - 1 : Tail(q)[i] = q[i + 1]
         /\ ToSet(q) = {Head(q)} \cup ToSet(Tail(q))
         /\ IsInjective(q) => IsInjective(Tail(q)) /\ Head(q) \notin ToSet(Tail(q))
<1> DEFINE h == Tail(q)
<1>1. /\ Head(q) \in S /\ Head(q) = q[1]
      /\ h \in Seq(S) /\ Len(q) \in Nat \ {0} /\ Len(h) = Len(q) - 1
      /\ \A i \in 1 .. Len(q) - 1 : h[i] = q[i + 1]
  BY HeadTailProperties
<1> HIDE DEF h
<1>2. DOMAIN h = 1 .. Len(q) - 1 /\ DOMAIN q = 1 .. Len(q)
  BY <1>1
<1>3. ToSet(q) = {Head(q)} \cup ToSet(h)
  <2>1. ASSUME NEW x \in ToSet(q) PROVE x \in {Head(q)} \cup ToSet(h)
    <3>1. PICK i \in 1 .. Len(q) : x = q[i]
      BY <1>2 DEF ToSet
    <3>2. CASE i = 1
      BY <1>1, <3>1, <3>2
    <3>3. CASE i # 1
      <4>1. i - 1 \in DOMAIN h /\ (i - 1) + 1 = i
        BY <1>1, <1>2, <3>3
      <4>2. x = h[i - 1]
        BY <1>1, <1>2, <3>1, <4>1
      <4> QED  BY <4>1, <4>2 DEF ToSet
    <3> QED  BY <3>2, <3>3
  <2>2. ASSUME NEW x \in ToSet(h) PROVE x \in ToSet(q)
    <3>1. PICK i \in DOMAIN h : x = h[i]
      BY DEF ToSet
    <3>2. i + 1 \in DOMAIN q /\ x = q[i + 1]
      BY <1>1, <1>2, <3>1
    <3> QED  BY <3>2 DEF ToSet
  <2>3. Head(q) \in ToSet(q)
    <3>1. 1 \in DOMAIN q
      BY <1>1, <1>2
    <3> QED  BY <1>1, <3>1 DEF ToSet
  <2> QED  BY <2>1, <2>2, <2>3
<1>4. ASSUME IsInjective(q) PROVE IsInjective(h) /\ Head(q) \notin ToSet(h)
  <2>1. ASSUME NEW i \in DOMAIN h, NEW j \in DOMAIN h, h[i] = h[j] PROVE i = j
    <3>1. i + 1 \in DOMAIN q /\ j + 1 \in DOMAIN q /\ q[i + 1] = q[j + 1]
      BY <1>1, <1>2, <2>1
    <3>2. i + 1 = j + 1
      BY <1>4, <3>1 DEF IsInjective
    <3> QED  BY <1>1, <1>2, <3>2
  <2>2. ASSUME NEW i \in DOMAIN h PROVE h[i] # Head(q)
    <3>1. 1 \in DOMAIN q /\ i + 1 \in DOMAIN q /\ i + 1 # 1 /\ h[i] = q[i + 1]
      BY <1>1, <1>2
    <3>2. q[i + 1] # q[1]
      BY <1>4, <3>1 DEF IsInjective
    <3> QED  BY <1>1, <3>1, <3>2
  <2>3. IsInjective(h)
    BY <2>1 DEF IsInjective
  <2> QED  BY <2>2, <2>3 DEF ToSet
<1> QED  BY <1>1, <1>3, <1>4 DEF h

\* A list without its element i.
LEMMA Removed ==
  ASSUME NEW S, NEW q \in Seq(S), NEW i \in DOMAIN q, IsInjective(q)
  PROVE  /\ RemoveAt(q, i) \in Seq(S)
         /\ IsInjective(RemoveAt(q, i))
         /\ ToSet(RemoveAt(q, i)) = ToSet(q) \ {q[i]}
<1> DEFINE f == SubSeq(q, 1, i - 1)
           g == SubSeq(q, i + 1, Len(q))
           h == f \o g
<1>1. i \in 1 .. Len(q) /\ Len(q) \in Nat /\ DOMAIN q = 1 .. Len(q)
  OBVIOUS
<1>2. /\ f \in Seq(S) /\ Len(f) = i - 1 /\ \A j \in 1 .. Len(f) : f[j] = q[j]
  BY <1>1
<1>3. /\ g \in Seq(S) /\ Len(g) = Len(q) - i /\ \A j \in 1 .. Len(g) : g[j] = q[i + j]
  BY <1>1
<1>4. RemoveAt(q, i) = h
  BY DEF RemoveAt
<1> HIDE DEF f, g
<1>5. /\ h \in Seq(S) /\ Len(h) = Len(f) + Len(g)
      /\ \A j \in 1 .. Len(f) + Len(g) : h[j] = IF j <= Len(f) THEN f[j] ELSE g[j - Len(f)]
  BY <1>2, <1>3, ConcatProperties
<1> HIDE DEF h
<1>6. Len(h) = Len(q) - 1 /\ DOMAIN h = 1 .. Len(q) - 1
  BY <1>1, <1>2, <1>3, <1>5
<1>7. ASSUME NEW j \in 1 .. Len(q) - 1
      PROVE  h[j] = IF j <= i - 1 THEN q[j] ELSE q[j + 1]
  <2>1. j \in 1 .. Len(f) + Len(g)
    BY <1>1, <1>2, <1>3
  <2>2. CASE j <= i - 1
    <3>1. h[j] = f[j] /\ j \in 1 .. Len(f)
      BY <1>1, <1>2, <1>5, <2>1, <2>2
    <3> QED  BY <1>2, <2>2, <3>1
  <2>3. CASE ~ (j <= i - 1)
    <3>1. j - Len(f) \in 1 .. Len(g) /\ i + (j - Len(f)) = j + 1
      BY <1>1, <1>2, <1>3, <2>3
    <3>2. ~ (j <= Len(f))
      BY <1>2, <2>3
    <3>3. h[j] = g[j - Len(f)]
      BY <1>5, <2>1, <3>2
    <3>4. g[j - Len(f)] = q[i + (j - Len(f))]
      BY <1>3, <3>1
    <3> QED  BY <2>3, <3>1, <3>3, <3>4
  <2> QED  BY <2>2, <2>3
<1>8. IsInjective(h)
  <2> SUFFICES ASSUME NEW j \in DOMAIN h, NEW k \in DOMAIN h, h[j] = h[k] PROVE j = k
    BY DEF IsInjective
  <2> DEFINE jj == IF j <= i - 1 THEN j ELSE j + 1
             kk == IF k <= i - 1 THEN k ELSE k + 1
  <2>1. jj \in DOMAIN q /\ kk \in DOMAIN q
    BY <1>1, <1>6
  <2>2. h[j] = q[jj] /\ h[k] = q[kk]
    BY <1>6, <1>7
  <2>3. jj = kk
    <3> HIDE DEF jj, kk
    <3> QED  BY <2>1, <2>2 DEF IsInjective
  <2> QED  BY <1>1, <1>6, <2>3
<1>9. ToSet(h) = ToSet(q) \ {q[i]}
  <2>1. ASSUME NEW x \in ToSet(h) PROVE x \in ToSet(q) \ {q[i]}
    <3>1. PICK j \in 1 .. Len(q) - 1 : x = h[j]
      BY <1>6 DEF ToSet
    <3> DEFINE jj == IF j <= i - 1 THEN j ELSE j + 1
    <3>2. x = q[jj]
      BY <1>7, <3>1
    <3>3. jj \in DOMAIN q /\ jj # i
      BY <1>1
    <3> HIDE DEF jj
    <3>4. q[jj] # q[i]
      BY <3>3 DEF IsInjective
    <3> QED  BY <3>2, <3>3, <3>4 DEF ToSet
  <2>2. ASSUME NEW x \in ToSet(q), x # q[i] PROVE x \in ToSet(h)
    <3>1. PICK j \in DOMAIN q : x = q[j]
      BY DEF ToSet
    <3>2. j # i
      BY <2>2, <3>1
    <3> DEFINE jj == IF j <= i - 1 THEN j ELSE j - 1
    <3>3. jj \in 1 .. Len(q) - 1 /\ (IF jj <= i - 1 THEN jj ELSE jj + 1) = j
      BY <1>1, <3>2
    <3> HIDE DEF jj
    <3>4. h[jj] = q[j]
      BY <1>7, <3>3
    <3> QED  BY <1>6, <3>1, <3>3, <3>4 DEF ToSet
  <2> QED  BY <2>1, <2>2
<1> QED  BY <1>4, <1>5, <1>8, <1>9

-----------------------------------------------------------------------------
(* Free lists of a page. *)

\* The free list of a new page holds every block of it once.
LEMMA NewListFacts ==
  ASSUME NEW s \in sizes
  PROVE  /\ NewList(s) \in Seq(Nat) /\ NewList(s) # <<>>
         /\ Len(NewList(s)) = PAGE_SIZE \div s
         /\ IsInjective(NewList(s)) /\ ToSet(NewList(s)) = Blocks(s)
<1> DEFINE n == PAGE_SIZE \div s
           q == [i \in 1 .. n |-> (n - i) * s]
<1>1. s \in Nat \ {0} /\ n \in Nat \ {0}
  BY ConstantFacts, PageCut
<1>2. NewList(s) = q /\ Blocks(s) = {i * s : i \in 0 .. n - 1}
  BY DEF NewList, Blocks
<1> HIDE DEF n
<1>3. ASSUME NEW i \in 1 .. n PROVE (n - i) * s \in Nat /\ n - i \in 0 .. n - 1
  <2>1. n - i \in Nat /\ n - i \in 0 .. n - 1
    BY <1>1
  <2> QED  BY <1>1, <2>1, Products
<1>4. q \in Seq(Nat) /\ Len(q) = n /\ DOMAIN q = 1 .. n
  BY <1>1, <1>3
<1>5. q # <<>>
  BY <1>1, <1>4
<1>6. IsInjective(q)
  <2> SUFFICES ASSUME NEW i \in 1 .. n, NEW j \in 1 .. n, (n - i) * s = (n - j) * s
               PROVE  i = j
    BY <1>4 DEF IsInjective
  <2> DEFINE a == n - i
             b == n - j
  <2>1. a \in Nat /\ b \in Nat /\ a * s = b * s
    BY <1>1
  <2>2. a < b => a * s + s <= b * s
    BY <1>1, <2>1, MultiplesApart
  <2>3. b < a => b * s + s <= a * s
    BY <1>1, <2>1, MultiplesApart
  <2>4. a * s \in Nat
    BY <1>1, <2>1, Products
  <2>5. a = b
    <3> HIDE DEF a, b
    <3> DEFINE p == a * s
               o == b * s
    <3>1. p \in Nat /\ p = o /\ (a < b => p + s <= o) /\ (b < a => o + s <= p)
      BY <2>1, <2>2, <2>3, <2>4
    <3> HIDE DEF p, o
    <3> QED  BY <1>1, <2>1, <3>1
  <2> QED  BY <1>1, <2>5
<1>7. ToSet(q) = Blocks(s)
  <2>1. ASSUME NEW x \in ToSet(q) PROVE x \in Blocks(s)
    <3>1. PICK i \in 1 .. n : x = (n - i) * s
      BY <1>4 DEF ToSet
    <3> QED  BY <1>2, <1>3, <3>1
  <2>2. ASSUME NEW x \in Blocks(s) PROVE x \in ToSet(q)
    <3>1. PICK i \in 0 .. n - 1 : x = i * s
      BY <1>2
    <3>2. n - i \in 1 .. n /\ n - (n - i) = i
      BY <1>1
    <3>3. q[n - i] = x
      BY <3>1, <3>2
    <3> QED  BY <1>4, <3>2, <3>3 DEF ToSet
  <2> QED  BY <2>1, <2>2
<1> QED  BY <1>2, <1>4, <1>5, <1>6, <1>7 DEF n

\* A free list is as long as the page has blocks only if it holds them all.
LEMMA FullList ==
  ASSUME NEW s \in sizes, NEW q \in Seq(Nat), IsInjective(q), ToSet(q) \subseteq Blocks(s)
  PROVE  Len(q) = PAGE_SIZE \div s <=> ToSet(q) = Blocks(s)
<1> DEFINE n == PAGE_SIZE \div s
           B == Blocks(s)
           l == NewList(s)
<1>1. /\ n \in Nat \ {0} /\ l \in Seq(Nat) /\ Len(l) = n
      /\ IsInjective(l) /\ ToSet(l) = B
  BY PageCut, NewListFacts
<1> HIDE DEF n, l, B
<1>2. IsFiniteSet(B) /\ Cardinality(B) = n
  <2>1. l \in Bijection(1 .. n, B)
    <3>1. l \in [1 .. n -> B] /\ DOMAIN l = 1 .. n
      BY <1>1 DEF ToSet
    <3>2. l \in Injection(1 .. n, B)
      BY <1>1, <3>1, Fun_IsInj DEF IsInjective
    <3>3. \A b \in B : \E i \in 1 .. n : l[i] = b
      BY <1>1, <3>1 DEF ToSet
    <3> QED  BY <3>1, <3>2, <3>3, Fun_IsBij
  <2>2. IsFiniteSet(1 .. n) /\ Cardinality(1 .. n) = n
    BY <1>1, FS_Interval
  <2> QED  BY <2>1, <2>2, FS_Bijection DEF ExistsBijection
<1>3. Len(q) \in Nat /\ DOMAIN q = 1 .. Len(q) /\ q \in [1 .. Len(q) -> B]
  BY DEF ToSet, B
<1>4. q \in Injection(1 .. Len(q), B)
  BY <1>3, Fun_IsInj DEF IsInjective
<1>5. Cardinality(1 .. Len(q)) = Len(q)
  BY <1>3, FS_Interval
<1>6. Len(q) = n <=> q \in Surjection(1 .. Len(q), B)
  BY <1>2, <1>4, <1>5, FS_Injection
<1>7. q \in Surjection(1 .. Len(q), B) <=> ToSet(q) = B
  <2>1. ASSUME q \in Surjection(1 .. Len(q), B) PROVE ToSet(q) = B
    <3>1. \A b \in B : \E i \in 1 .. Len(q) : q[i] = b
      BY <2>1 DEF Surjection
    <3> QED  BY <1>3, <3>1 DEF ToSet, B
  <2>2. ASSUME ToSet(q) = B PROVE q \in Surjection(1 .. Len(q), B)
    <3>1. \A b \in B : \E i \in 1 .. Len(q) : q[i] = b
      BY <1>3, <2>2 DEF ToSet
    <3> QED  BY <1>3, <3>1 DEF Surjection
  <2> QED  BY <2>1, <2>2
<1> QED  BY <1>6, <1>7 DEF n, B

-----------------------------------------------------------------------------
(* The division of the pages. *)

\* A page of references at the break.
LEMMA GainsRefs ==
  ASSUME NEW P, NEW C, NEW pg, NEW H, NEW np, NEW top, Divided(P, C, pg, H, np, top)
  PROVE  Divided(P \cup {top}, C, pg, H, np, top + 1)
<1>1. BASE \in Nat
  BY ConstantFacts
<1> QED  BY <1>1 DEF Divided, Partition

\* A page of blocks at the break, for the reference r.
LEMMA GainsPage ==
  ASSUME NEW P, NEW C, NEW pg, NEW H, NEW np, NEW top, Divided(P, C, pg, H, np, top),
         NEW r, r \notin C, NEW pg2, pg2[r] = top, \A q \in C : pg2[q] = pg[q]
  PROVE  Divided(P, C \cup {r}, pg2, H, np, top + 1)
<1>1. BASE \in Nat
  BY ConstantFacts
<1>2. ASSUME NEW f \in BASE .. top
      PROVE  f \in P \/ (\E q \in C \cup {r} : pg2[q] = f) \/ \E c \in H : c <= f /\ f < c + np[c]
  <2>1. CASE f = top
    BY <2>1
  <2>2. CASE f # top
    <3>1. f \in BASE .. top - 1
      BY <1>1, <2>2 DEF Divided
    <3>2. f \in P \/ (\E q \in C : pg[q] = f) \/ \E c \in H : c <= f /\ f < c + np[c]
      BY <3>1 DEF Divided, Partition
    <3> QED  BY <3>2
  <2> QED  BY <2>1, <2>2
<1>3. /\ \A q \in C \cup {r} : BASE <= pg2[q] /\ pg2[q] < top + 1 /\ pg2[q] \notin P
      /\ \A q \in C \cup {r} : pg2[q] \in Nat
      /\ \A c \in H : \A q \in C \cup {r} : ~ (c <= pg2[q] /\ pg2[q] < c + np[c])
  BY <1>1 DEF Divided, Partition
<1>4. \A p, q \in C \cup {r} : pg2[p] = pg2[q] => p = q
  <2>1. \A q \in C : pg2[q] # top
    BY <1>1 DEF Divided, Partition
  <2>2. \A p, q \in C : pg2[p] = pg2[q] => p = q
    BY DEF Divided, Partition
  <2> QED  BY <2>1, <2>2
<1>5. /\ \A f \in P : BASE <= f /\ f < top + 1
      /\ \A c \in H : BASE <= c /\ 1 <= np[c] /\ c + np[c] <= top + 1
      /\ \A c \in H : \A f \in P : ~ (c <= f /\ f < c + np[c])
      /\ \A c, d \in H : c < d => c + np[c] <= d
  BY <1>1 DEF Divided, Partition
<1>6. top + 1 \in Nat /\ (top + 1) - 1 = top /\ BASE <= top + 1
  BY <1>1 DEF Divided
<1>7. Partition(P, C \cup {r}, pg2, H, np, top + 1)
  BY <1>2, <1>3, <1>4, <1>5, <1>6 DEF Partition
<1> QED  BY <1>3, <1>6, <1>7 DEF Divided

\* A chunk of n pages at the break.
LEMMA GainsChunk ==
  ASSUME NEW P, NEW C, NEW pg, NEW H, NEW np, NEW top, Divided(P, C, pg, H, np, top),
         NEW n \in Nat \ {0}, NEW np2, np2[top] = n, \A c \in H : np2[c] = np[c]
  PROVE  Divided(P, C, pg, H \cup {top}, np2, top + n)
<1>1. BASE \in Nat
  BY ConstantFacts
<1>2. /\ \A f \in P : BASE <= f /\ f < top /\ f \in Nat
      /\ \A q \in C : BASE <= pg[q] /\ pg[q] < top /\ pg[q] \notin P /\ pg[q] \in Nat
      /\ \A c \in H : BASE <= c /\ 1 <= np2[c] /\ c + np2[c] <= top /\ np2[c] \in Nat /\ c \in Nat
      /\ top \in Nat /\ BASE <= top
  BY DEF Divided, Partition
<1>3. ASSUME NEW f \in BASE .. (top + n) - 1
      PROVE  \/ f \in P \/ (\E q \in C : pg[q] = f)
             \/ \E c \in H \cup {top} : c <= f /\ f < c + np2[c]
  <2>1. CASE f >= top
    BY <1>1, <1>2, <2>1
  <2>2. CASE f < top
    <3>1. f \in BASE .. top - 1
      BY <1>1, <1>2, <2>2
    <3>2. f \in P \/ (\E q \in C : pg[q] = f) \/ \E c \in H : c <= f /\ f < c + np[c]
      BY <3>1 DEF Divided, Partition
    <3> QED  BY <3>2
  <2> QED  BY <1>1, <1>2, <2>1, <2>2
<1>4. /\ \A c \in H \cup {top} : BASE <= c /\ 1 <= np2[c] /\ c + np2[c] <= top + n
      /\ \A c \in H \cup {top} : np2[c] \in Nat /\ c \in Nat
  BY <1>1, <1>2
<1>5. \A c \in H \cup {top} : \A f \in P : ~ (c <= f /\ f < c + np2[c])
  <2>1. \A c \in H : \A f \in P : ~ (c <= f /\ f < c + np2[c])
    BY DEF Divided, Partition
  <2> QED  BY <1>1, <1>2, <2>1
<1>6. \A c \in H \cup {top} : \A r \in C : ~ (c <= pg[r] /\ pg[r] < c + np2[c])
  <2>1. \A c \in H : \A r \in C : ~ (c <= pg[r] /\ pg[r] < c + np2[c])
    BY DEF Divided, Partition
  <2> QED  BY <1>1, <1>2, <2>1
<1>7. \A c, d \in H \cup {top} : c < d => c + np2[c] <= d
  <2>1. \A c, d \in H : c < d => c + np2[c] <= d
    BY DEF Divided, Partition
  <2> QED  BY <1>1, <1>2, <2>1
<1>8. \A r, q \in C : pg[r] = pg[q] => r = q
  BY DEF Divided, Partition
<1>9. /\ \A f \in P : BASE <= f /\ f < top + n
      /\ \A r \in C : BASE <= pg[r] /\ pg[r] < top + n /\ pg[r] \notin P
      /\ top + n \in Nat /\ BASE <= top + n
  BY <1>1, <1>2
<1>10. Partition(P, C, pg, H \cup {top}, np2, top + n)
  BY <1>3, <1>4, <1>5, <1>6, <1>7, <1>8, <1>9 DEF Partition
<1> QED  BY <1>2, <1>4, <1>9, <1>10 DEF Divided

\* The end of a chunk becomes a chunk of its own.
LEMMA CutsChunk ==
  ASSUME NEW P, NEW C, NEW pg, NEW H, NEW np, NEW top, Divided(P, C, pg, H, np, top),
         NEW c \in H, NEW n \in Nat \ {0}, n < np[c], NEW e, e = c + np[c] - n,
         NEW np2, np2[c] = np[c] - n, np2[e] = n, \A d \in H \ {c} : np2[d] = np[d]
  PROVE  /\ Divided(P, C, pg, H \cup {e}, np2, top)
         /\ e \notin H /\ e # c /\ e < top
<1>1. BASE \in Nat
  BY ConstantFacts
<1>2. /\ \A d \in H : BASE <= d /\ 1 <= np[d] /\ d + np[d] <= top /\ np[d] \in Nat /\ d \in Nat
      /\ \A r \in C : pg[r] \in Nat
      /\ \A f \in P : f \in Nat
      /\ top \in Nat /\ BASE <= top
  BY DEF Divided, Partition
<1>3. /\ \A d, b \in H : d < b => d + np[d] <= b
      /\ \A d \in H : \A f \in P : ~ (d <= f /\ f < d + np[d])
      /\ \A d \in H : \A r \in C : ~ (d <= pg[r] /\ pg[r] < d + np[d])
  BY DEF Divided, Partition
<1>4. c \in Nat /\ np[c] \in Nat /\ e \in Nat /\ c < e /\ e < c + np[c] /\ e + n = c + np[c]
  BY <1>2
<1>5. e \notin H /\ e # c /\ e < top
  <2>1. e \in H => c + np[c] <= e
    BY <1>3, <1>4
  <2>2. c + np[c] <= top
    BY <1>2
  <2> QED  BY <1>2, <1>4, <2>1, <2>2
<1>6. \A d \in H \cup {e} : BASE <= d /\ 1 <= np2[d] /\ d + np2[d] <= top
                             /\ np2[d] \in Nat /\ d \in Nat
  BY <1>1, <1>2, <1>4
<1>7. ASSUME NEW d \in H \cup {e}
      PROVE  \E b \in H : b <= d /\ d + np2[d] <= b + np[b]
  <2>1. CASE d = c \/ d = e
    BY <1>4, <2>1
  <2>2. CASE d \in H \ {c}
    BY <1>2, <2>2
  <2> QED  BY <2>1, <2>2
<1>8. \A d \in H \cup {e} : \A f \in P : ~ (d <= f /\ f < d + np2[d])
  BY <1>2, <1>3, <1>6, <1>7
<1>9. \A d \in H \cup {e} : \A r \in C : ~ (d <= pg[r] /\ pg[r] < d + np2[d])
  BY <1>2, <1>3, <1>6, <1>7
<1>10. ASSUME NEW d \in H \cup {e}, NEW b \in H \cup {e}, d < b PROVE d + np2[d] <= b
  <2>1. CASE d = e
    <3>1. b \in H
      BY <1>4, <1>10, <2>1
    <3>2. c < b
      BY <1>2, <1>4, <1>10, <2>1
    <3>3. c + np[c] <= b
      BY <1>3, <3>1, <3>2
    <3> QED  BY <1>4, <2>1, <3>3
  <2>2. CASE d = c
    <3>1. CASE b = e
      BY <1>4, <2>2, <3>1
    <3>2. CASE b \in H
      <4>1. c + np[c] <= b
        BY <1>3, <1>10, <2>2, <3>2
      <4> QED  BY <1>2, <1>4, <2>2, <3>2, <4>1
    <3> QED  BY <3>1, <3>2
  <2>3. CASE d \in H \ {c}
    <3>1. np2[d] = np[d]
      BY <2>3
    <3>2. CASE b = e
      <4>1. d < c
        <5>1. c < d => c + np[c] <= d
          BY <1>3, <2>3
        <5> QED  BY <1>2, <1>4, <1>10, <2>3, <3>2, <5>1
      <4>2. d + np[d] <= c
        BY <1>3, <2>3, <4>1
      <4> QED  BY <1>2, <1>4, <2>3, <3>1, <3>2, <4>2
    <3>3. CASE b \in H
      BY <1>3, <1>10, <2>3, <3>1, <3>3
    <3> QED  BY <3>2, <3>3
  <2> QED  BY <2>1, <2>2, <2>3
<1>11. ASSUME NEW f \in BASE .. top - 1
       PROVE  \/ f \in P \/ (\E q \in C : pg[q] = f)
              \/ \E d \in H \cup {e} : d <= f /\ f < d + np2[d]
  <2>1. f \in P \/ (\E q \in C : pg[q] = f) \/ \E d \in H : d <= f /\ f < d + np[d]
    BY DEF Divided, Partition
  <2>2. ASSUME NEW d \in H, d <= f, f < d + np[d]
        PROVE  \E b \in H \cup {e} : b <= f /\ f < b + np2[b]
    <3>1. CASE d # c
      BY <2>2, <3>1
    <3>2. CASE d = c /\ f < e
      BY <1>4, <2>2, <3>2
    <3>3. CASE d = c /\ e <= f
      BY <1>4, <2>2, <3>3
    <3>4. f \in Nat
      BY <1>1, <1>2
    <3> QED  BY <1>4, <3>1, <3>2, <3>3, <3>4
  <2> QED  BY <2>1, <2>2
<1>12. /\ \A f \in P : BASE <= f /\ f < top
       /\ \A r \in C : BASE <= pg[r] /\ pg[r] < top /\ pg[r] \notin P
       /\ \A r, q \in C : pg[r] = pg[q] => r = q
  BY DEF Divided, Partition
<1>13. Partition(P, C, pg, H \cup {e}, np2, top)
  BY <1>6, <1>8, <1>9, <1>10, <1>11, <1>12 DEF Partition
<1>14. /\ top \in Nat /\ BASE <= top /\ P \subseteq Nat /\ H \cup {e} \subseteq Nat
       /\ \A r \in C : pg[r] \in Nat
       /\ \A d \in H \cup {e} : np2[d] \in Nat
  BY <1>2, <1>4, <1>6
<1>15. Divided(P, C, pg, H \cup {e}, np2, top)
  BY <1>13, <1>14 DEF Divided
<1> QED  BY <1>5, <1>15

-----------------------------------------------------------------------------
(* Page references. *)

LEMMA FrameFacts ==
  /\ \A f : f \in Frames <=> f \in Nat /\ BASE <= f /\ f < BASE + PAGES
  /\ \A f \in Frames : f # 0
<1>1. BASE \in Nat \ {0} /\ PAGES \in Nat
  BY ConstantFacts
<1>2. \A f : f \in Frames <=> f \in Nat /\ BASE <= f /\ f < BASE + PAGES
  BY <1>1 DEF Frames
<1> QED  BY <1>1, <1>2

\* A page reference keeps a 32-bit address.
LEMMA KeptWhole ==
  ASSUME NEW g \in Nat, g < FRAMES
  PROVE  g % FRAMES = g
BY ConstantFacts

\* What is kept of the address of a page g is the address of a page f of the segment only
\* if it is its own: the segment is smaller than the 32-bit addresses.
LEMMA KeptOfPage ==
  ASSUME NEW f \in Frames, NEW g \in Frames
  PROVE  g % FRAMES = f <=> g = f /\ f < FRAMES
<1>1. /\ FRAMES \in Nat \ {0} /\ BASE \in Nat /\ PAGES \in Nat /\ PAGES <= FRAMES
      /\ f \in Nat /\ g \in Nat /\ BASE <= f /\ g < BASE + PAGES
  BY ConstantFacts, FrameFacts
<1> DEFINE q == g \div FRAMES
           k == g % FRAMES
           p == q * FRAMES
<1>2. q \in Nat /\ k \in Nat /\ k < FRAMES /\ g = p + k
  <2>1. q \in Nat /\ k \in 0 .. FRAMES - 1 /\ g = p + k
    BY <1>1, Division
  <2> HIDE DEF q, k, p
  <2> QED  BY <1>1, <2>1
<1>3. p \in Nat /\ (q = 0 => p = 0) /\ (q >= 1 => FRAMES <= p)
  <2> HIDE DEF q
  <2>1. q * FRAMES \in Nat /\ 1 * FRAMES = FRAMES /\ 0 * FRAMES = 0
    BY <1>1, <1>2, Products
  <2>2. 1 <= q => 1 * FRAMES <= q * FRAMES
    BY <1>1, <1>2, ProductMono
  <2> QED  BY <1>1, <1>2, <2>1, <2>2
<1>4. k = f => q = 0
  <2> HIDE DEF q, k, p
  <2> QED  BY <1>1, <1>2, <1>3
<1>5. g < FRAMES => k = g
  BY <1>1, KeptWhole
<1>6. k = f <=> g = f /\ f < FRAMES
  <2> HIDE DEF q, k, p
  <2> QED  BY <1>1, <1>2, <1>3, <1>4, <1>5
<1> QED  BY <1>6

\* The references of the page at frame f are f * REFS and those behind it.
LEMMA RefFacts ==
  /\ Refs \subseteq Nat \ {0}
  /\ \A r \in Refs : /\ r \div REFS \in Frames
                     /\ \E i \in 0 .. REFS - 1 : r = (r \div REFS) * REFS + i
  /\ \A f \in Frames : \A i \in 0 .. REFS - 1 :
       f * REFS + i \in Refs /\ (f * REFS + i) \div REFS = f
<1>1. BASE \in Nat \ {0} /\ PAGES \in Nat /\ REFS \in Nat \ {0} /\ BASE + PAGES \in Nat
  BY ConstantFacts
<1> DEFINE lo == BASE * REFS
           hi == (BASE + PAGES) * REFS
<1>2. Refs = lo .. hi - 1
  BY DEF Refs
<1>3. lo \in Nat \ {0} /\ hi \in Nat
  <2>1. 1 * REFS <= BASE * REFS
    BY <1>1, ProductMono
  <2> QED  BY <1>1, <2>1, Products
<1>4. Refs \subseteq Nat \ {0}
  <2> HIDE DEF lo, hi
  <2> QED  BY <1>2, <1>3
<1>5. ASSUME NEW r \in Refs
      PROVE  /\ r \div REFS \in Frames
             /\ \E i \in 0 .. REFS - 1 : r = (r \div REFS) * REFS + i
  <2> DEFINE f == r \div REFS
  <2>1. /\ r \in Nat /\ f \in Nat /\ r % REFS \in 0 .. REFS - 1
        /\ r = f * REFS + (r % REFS)
    BY <1>1, <1>4, Division
  <2> HIDE DEF f
  <2> DEFINE p == f * REFS
  <2>2. p \in Nat /\ p <= r /\ r < p + REFS
    BY <1>1, <2>1, Products
  <2>3. f < BASE => p + REFS <= lo
    BY <1>1, <2>1, MultiplesApart
  <2>4. BASE + PAGES <= f => hi <= p
    BY <1>1, <2>1, ProductMono
  <2>5. lo <= r /\ r < hi
    <3> HIDE DEF lo, hi, p
    <3> QED  BY <1>2, <1>3, <2>1
  <2>6. BASE <= f /\ f < BASE + PAGES
    <3> HIDE DEF lo, hi, p
    <3> QED  BY <1>1, <1>3, <2>1, <2>2, <2>3, <2>4, <2>5
  <2>7. f \in Frames
    BY <2>1, <2>6, FrameFacts
  <2> QED  BY <2>1, <2>7 DEF f
<1>6. ASSUME NEW f \in Frames, NEW i \in 0 .. REFS - 1
      PROVE  f * REFS + i \in Refs /\ (f * REFS + i) \div REFS = f
  <2>1. f \in Nat /\ BASE <= f /\ f < BASE + PAGES /\ i \in Nat /\ i < REFS
    BY <1>1, FrameFacts
  <2> DEFINE p == f * REFS
  <2>2. p \in Nat /\ lo <= p /\ p + REFS <= hi
    BY <1>1, <2>1, Products, ProductMono, MultiplesApart
  <2>3. p + i \in Refs
    <3> HIDE DEF p, lo, hi
    <3> QED  BY <1>1, <1>2, <1>3, <2>1, <2>2
  <2> DEFINE a == p + i
  <2>4. a \in Nat /\ f * REFS <= a /\ a < f * REFS + REFS
    <3>1. p + i \in Nat /\ p <= p + i /\ p + i < p + REFS
      <4> HIDE DEF p
      <4> QED  BY <1>1, <2>1, <2>2
    <3> QED  BY <3>1
  <2>5. a \div REFS = f
    <3> HIDE DEF a
    <3> QED  BY <1>1, <2>1, <2>4, Quotient
  <2> QED  BY <2>3, <2>5
<1> QED  BY <1>4, <1>5, <1>6

LEMMA InUseFacts ==
  ASSUME TypeInv
  PROVE  /\ InUse \subseteq Refs /\ AllRefs \subseteq Refs
         /\ AllRefs = Known(fresh_refs, recycled_refs, InUse)
         /\ \A s \in sizes : ToSet(sizebases[s]) \subseteq InUse
         /\ \A r \in InUse : \E s \in sizes : r \in ToSet(sizebases[s])
<1>1. \A q \in Seq(Refs) : ToSet(q) \subseteq Refs
  BY DEF ToSet
<1>2. \A s \in sizes : ToSet(sizebases[s]) \subseteq Refs
  BY <1>1 DEF TypeInv
<1>3. ToSet(fresh_refs) \subseteq Refs /\ ToSet(recycled_refs) \subseteq Refs
  BY <1>1 DEF TypeInv
<1>4. InUse \subseteq Refs
  BY <1>2 DEF InUse
<1> QED  BY <1>3, <1>4 DEF InUse, AllRefs, Known

Heads == Held \cup ToSet(bigchunks)

\* What holds between allocpageref and the use of the reference r it returned, with
\* new and old the lists it left, top the break and known all references.
Taken(r, new, old, top, known) ==
  /\ known = Known(new, old, InUse) \cup {r}
  /\ r \in Refs /\ new \in Seq(Refs) /\ old \in Seq(Refs)
  /\ top \in Nat /\ brk <= top /\ top <= BASE + PAGES
  /\ ListsApart(new, old, InUse) /\ r \notin Known(new, old, InUse)
  /\ WholePages(known)
  /\ UnpagedLast(old, page, top)
  /\ page[r] = 0 => old = <<>>
  /\ \A q \in Refs : q \in ToSet(new) \/ q \notin known => page[q] = 0
  /\ Divided(RefPages(known), Paged(known, page), page, Heads, npages, top)

LEMMA TakesRecycled ==
  ASSUME TypeInv, RefsInv, PagesInv, recycled_refs # <<>>
  PROVE  Taken(Head(recycled_refs), fresh_refs, Tail(recycled_refs), brk, AllRefs)
<1> DEFINE r == Head(recycled_refs)
           old == Tail(recycled_refs)
<1>1. recycled_refs \in Seq(Refs) /\ fresh_refs \in Seq(Refs)
  BY DEF TypeInv
<1>2. /\ r \in Refs /\ r = recycled_refs[1] /\ old \in Seq(Refs)
      /\ Len(recycled_refs) \in Nat \ {0} /\ Len(old) = Len(recycled_refs) - 1
      /\ \A i \in 1 .. Len(recycled_refs) - 1 : old[i] = recycled_refs[i + 1]
      /\ ToSet(recycled_refs) = {r} \cup ToSet(old)
      /\ IsInjective(recycled_refs) => IsInjective(old) /\ r \notin ToSet(old)
  BY <1>1, Popped
<1> HIDE DEF r, old
<1>3. AllRefs = Known(fresh_refs, recycled_refs, InUse)
  BY InUseFacts
<1>4. Known(fresh_refs, old, InUse) \cup {r} = AllRefs
  BY <1>2, <1>3 DEF Known
<1>5. ListsApart(fresh_refs, old, InUse) /\ r \notin Known(fresh_refs, old, InUse)
  BY <1>2 DEF RefsInv, ListsApart, Known
<1>6. /\ brk \in Nat /\ brk <= BASE + PAGES
  BY ConstantFacts DEF TypeInv
<1>7. UnpagedLast(old, page, brk)
  <2> SUFFICES ASSUME NEW i \in DOMAIN old, page[old[i]] = 0
               PROVE  i = Len(old) /\ brk = BASE + PAGES
    BY DEF UnpagedLast
  <2>1. /\ i \in 1 .. Len(recycled_refs) - 1 /\ i + 1 \in DOMAIN recycled_refs
        /\ old[i] = recycled_refs[i + 1]
    BY <1>1, <1>2
  <2>2. i + 1 = Len(recycled_refs) /\ brk = BASE + PAGES
    BY <2>1 DEF RefsInv, UnpagedLast
  <2> QED  BY <1>2, <2>1, <2>2
<1>8. page[r] = 0 => old = <<>>
  <2>1. 1 \in DOMAIN recycled_refs
    BY <1>1, <1>2
  <2>2. page[r] = 0 => 1 = Len(recycled_refs)
    BY <1>2, <2>1 DEF RefsInv, UnpagedLast
  <2>3. ASSUME 1 = Len(recycled_refs) PROVE Len(old) = 0
    <3>1. Len(old) = Len(recycled_refs) - 1 /\ Len(recycled_refs) \in Nat
      BY <1>2
    <3> QED  BY <2>3, <3>1
  <2>4. Len(old) = 0 => old = <<>>
    BY <1>2, EmptySeq
  <2> QED  BY <2>2, <2>3, <2>4
<1>9. /\ WholePages(AllRefs)
      /\ \A q \in Refs : q \in ToSet(fresh_refs) \/ q \notin AllRefs => page[q] = 0
      /\ Divided(RefPages(AllRefs), Paged(AllRefs, page), page, Heads, npages, brk)
  BY DEF RefsInv, PagesInv, Heads
<1>10. Taken(r, fresh_refs, old, brk, AllRefs)
  BY <1>1, <1>2, <1>4, <1>5, <1>6, <1>7, <1>8, <1>9 DEF Taken
<1> QED  BY <1>10 DEF r, old

LEMMA TakesFresh ==
  ASSUME TypeInv, RefsInv, PagesInv, recycled_refs = <<>>, fresh_refs # <<>>
  PROVE  Taken(Head(fresh_refs), Tail(fresh_refs), <<>>, brk, AllRefs)
<1> DEFINE r == Head(fresh_refs)
           new == Tail(fresh_refs)
<1>1. fresh_refs \in Seq(Refs) /\ <<>> \in Seq(Refs)
  BY DEF TypeInv
<1>2. /\ r \in Refs /\ new \in Seq(Refs)
      /\ ToSet(fresh_refs) = {r} \cup ToSet(new)
      /\ IsInjective(fresh_refs) => IsInjective(new) /\ r \notin ToSet(new)
  BY <1>1, Popped
<1> HIDE DEF r, new
<1>3. AllRefs = Known(fresh_refs, recycled_refs, InUse)
  BY InUseFacts
<1>4. ToSet(<<>>) = {} /\ IsInjective(<<>>) /\ UnpagedLast(<<>>, page, brk)
  BY DEF ToSet, IsInjective, UnpagedLast
<1>5. Known(new, <<>>, InUse) \cup {r} = AllRefs
  BY <1>2, <1>3, <1>4 DEF Known
<1>6. ListsApart(new, <<>>, InUse) /\ r \notin Known(new, <<>>, InUse)
  BY <1>2, <1>4 DEF RefsInv, ListsApart, Known
<1>7. /\ brk \in Nat /\ brk <= BASE + PAGES
  BY ConstantFacts DEF TypeInv
<1>8. /\ WholePages(AllRefs)
      /\ \A q \in Refs : q \in ToSet(new) \/ q \notin AllRefs => page[q] = 0
      /\ Divided(RefPages(AllRefs), Paged(AllRefs, page), page, Heads, npages, brk)
  BY <1>2 DEF RefsInv, PagesInv, Heads
<1>9. Taken(r, new, <<>>, brk, AllRefs)
  BY <1>1, <1>2, <1>4, <1>5, <1>6, <1>7, <1>8 DEF Taken
<1> QED  BY <1>9 DEF r, new

\* The references of a page obtained for them are new, and all but one are left over.
LEMMA TakesNew ==
  ASSUME TypeInv, RefsInv, PagesInv, recycled_refs = <<>>, fresh_refs = <<>>, mem_sbrk(brk, 1)
  PROVE  Taken(brk * REFS, [i \in 1 .. REFS - 1 |-> brk * REFS + i], <<>>, brk + 1,
               AllRefs \cup {q \in Refs : q \div REFS = brk})
<1> DEFINE r == brk * REFS
           new == [i \in 1 .. REFS - 1 |-> brk * REFS + i]
           N == {q \in Refs : q \div REFS = brk}
           known == AllRefs \cup N
<1>1. /\ BASE \in Nat \ {0} /\ PAGES \in Nat /\ REFS \in Nat \ {0}
      /\ brk \in Nat /\ BASE <= brk /\ brk + 1 <= BASE + PAGES
  BY ConstantFacts DEF TypeInv, mem_sbrk
<1>2. brk \in Frames
  BY <1>1, FrameFacts
<1>3. r \in Nat
  BY <1>1, Products
<1>4. ASSUME NEW i \in 0 .. REFS - 1 PROVE r + i \in N
  BY <1>2, RefFacts
<1>5. ASSUME NEW q \in N PROVE \E i \in 0 .. REFS - 1 : q = r + i
  BY RefFacts
<1> HIDE DEF N, r
<1>6. new = [i \in 1 .. REFS - 1 |-> r + i]
  BY DEF r
<1> HIDE DEF new
<1>7. new \in Seq(Refs) /\ DOMAIN new = 1 .. REFS - 1
  <2>1. \A i \in 1 .. REFS - 1 : r + i \in Refs
    BY <1>1, <1>4 DEF N
  <2> QED  BY <1>1, <1>6, <2>1
<1>8. r \in N /\ r \in Refs
  <2>1. r + 0 \in N
    BY <1>1, <1>4
  <2> QED  BY <1>3, <2>1 DEF N
<1>9. ToSet(new) \cup {r} = N /\ r \notin ToSet(new) /\ IsInjective(new)
  <2>1. \A x : x \in ToSet(new) <=> \E i \in 1 .. REFS - 1 : x = r + i
    BY <1>6 DEF ToSet
  <2>2. ToSet(new) \subseteq N
    BY <1>1, <1>4, <2>1
  <2>3. ASSUME NEW q \in N, q # r PROVE q \in ToSet(new)
    <3>1. PICK i \in 0 .. REFS - 1 : q = r + i
      BY <1>5
    <3>2. i # 0
      BY <1>3, <2>3, <3>1
    <3>3. i \in 1 .. REFS - 1
      BY <1>1, <3>2
    <3> QED  BY <2>1, <3>1, <3>3
  <2>4. r \notin ToSet(new)
    BY <1>1, <1>3, <2>1
  <2>5. IsInjective(new)
    <3>1. \A i \in 1 .. REFS - 1 : new[i] = r + i
      BY <1>6
    <3>2. \A i, j \in 1 .. REFS - 1 : r + i = r + j => i = j
      BY <1>1, <1>3
    <3> QED  BY <1>7, <3>1, <3>2 DEF IsInjective
  <2> QED  BY <1>8, <2>2, <2>3, <2>4, <2>5
<1>10. /\ AllRefs = InUse /\ InUse \subseteq Refs
       /\ ToSet(<<>>) = {} /\ IsInjective(<<>>) /\ UnpagedLast(<<>>, page, brk + 1)
  <2>1. ToSet(<<>>) = {} /\ IsInjective(<<>>) /\ UnpagedLast(<<>>, page, brk + 1)
    BY DEF ToSet, IsInjective, UnpagedLast
  <2>2. InUse \subseteq Refs /\ AllRefs = ToSet(<<>>) \cup ToSet(<<>>) \cup InUse
    BY InUseFacts DEF Known
  <2> QED  BY <2>1, <2>2
<1>11. Divided(RefPages(AllRefs), Paged(AllRefs, page), page, Heads, npages, brk)
  BY DEF PagesInv, Heads
<1>12. AllRefs \cap N = {}
  <2> SUFFICES ASSUME NEW q \in AllRefs, q \in N PROVE FALSE
    OBVIOUS
  <2>1. brk \in RefPages(AllRefs)
    BY DEF RefPages, N
  <2>2. brk < brk
    BY <1>11, <2>1 DEF Divided, Partition
  <2> QED  BY <1>1, <2>2
<1>13. known = Known(new, <<>>, InUse) \cup {r}
  BY <1>9, <1>10 DEF Known
<1>14. ListsApart(new, <<>>, InUse) /\ r \notin Known(new, <<>>, InUse)
  BY <1>8, <1>9, <1>10, <1>12 DEF ListsApart, Known
<1>15. WholePages(known)
  <2>1. WholePages(AllRefs)
    BY DEF RefsInv
  <2>2. \A p \in N : \A q \in Refs : q \div REFS = p \div REFS => q \in N
    BY DEF N
  <2> QED  BY <2>1, <2>2 DEF WholePages
<1>16. \A q \in Refs : q \in ToSet(new) \/ q \notin known => page[q] = 0
  <2>1. \A q \in Refs : q \notin AllRefs => page[q] = 0
    BY DEF RefsInv
  <2> QED  BY <1>9, <1>12, <2>1
<1>17. RefPages(known) = RefPages(AllRefs) \cup {brk}
  <2>1. \A q \in N : q \div REFS = brk
    BY DEF N
  <2> QED  BY <1>8, <2>1 DEF RefPages
<1>18. Paged(known, page) = Paged(AllRefs, page)
  <2>1. \A q \in N : page[q] = 0
    <3>1. \A q \in Refs : q \notin AllRefs => page[q] = 0
      BY DEF RefsInv
    <3> QED  BY <1>12, <3>1 DEF N
  <2> QED  BY <2>1 DEF Paged
<1>19. Divided(RefPages(AllRefs) \cup {brk}, Paged(AllRefs, page), page, Heads, npages, brk + 1)
  BY <1>11, GainsRefs
<1>20. Divided(RefPages(known), Paged(known, page), page, Heads, npages, brk + 1)
  BY <1>17, <1>18, <1>19
<1> HIDE DEF known
<1>21. /\ brk + 1 \in Nat /\ brk <= brk + 1 /\ <<>> \in Seq(Refs)
  BY <1>1
<1>22. Taken(r, new, <<>>, brk + 1, known)
  BY <1>1, <1>7, <1>8, <1>10, <1>13, <1>14, <1>15, <1>16, <1>20, <1>21 DEF Taken
<1> QED  BY <1>22 DEF known, N, r, new

LEMMA AllocpagerefFacts ==
  ASSUME TypeInv, RefsInv, PagesInv, allocpageref.ref # 0
  PROVE  \E known : Taken(allocpageref.ref, allocpageref.fresh, allocpageref.recycled,
                          allocpageref.top, known)
<1>1. CASE recycled_refs # <<>>
  BY <1>1, TakesRecycled DEF allocpageref
<1>2. CASE recycled_refs = <<>> /\ fresh_refs # <<>>
  BY <1>2, TakesFresh DEF allocpageref
<1>3. CASE recycled_refs = <<>> /\ fresh_refs = <<>> /\ mem_sbrk(brk, 1)
  BY <1>3, TakesNew DEF allocpageref
<1>4. CASE recycled_refs = <<>> /\ fresh_refs = <<>> /\ ~ mem_sbrk(brk, 1)
  BY <1>4 DEF allocpageref
<1> QED  BY <1>1, <1>2, <1>3, <1>4

-----------------------------------------------------------------------------
(* Where a block lies. *)

\* The division of the pages, with what the types say of it.
LEMMA DivisionFacts ==
  ASSUME TypeInv, PagesInv
  PROVE  /\ Divided(RefPages(AllRefs), Paged(AllRefs, page), page, Heads, npages, brk)
         /\ Heads \subseteq Frames /\ Heads \subseteq Nat /\ brk \in Nat
         /\ brk <= BASE + PAGES /\ BASE <= brk /\ BASE \in Nat /\ PAGES \in Nat
         /\ \A c \in Heads : npages[c] \in Nat /\ 1 <= npages[c] /\ c + npages[c] <= brk
<1>1. Divided(RefPages(AllRefs), Paged(AllRefs, page), page, Heads, npages, brk)
  BY DEF PagesInv, Heads
<1>2. /\ brk \in Nat /\ brk <= BASE + PAGES /\ BASE <= brk /\ BASE \in Nat /\ PAGES \in Nat
  BY ConstantFacts DEF TypeInv
<1>3. /\ Heads \subseteq Nat
      /\ \A c \in Heads : npages[c] \in Nat /\ 1 <= npages[c] /\ c + npages[c] <= brk
                          /\ BASE <= c
  BY <1>1 DEF Divided, Partition
<1>4. Heads \subseteq Frames
  <2> SUFFICES ASSUME NEW c \in Heads PROVE c \in Frames
    OBVIOUS
  <2>1. c \in Nat /\ BASE <= c /\ c < BASE + PAGES
    BY <1>2, <1>3
  <2> QED  BY <2>1, FrameFacts
<1> QED  BY <1>1, <1>2, <1>3, <1>4

LEMMA SplitUnique ==
  ASSUME NEW d \in Nat \ {0}, NEW f \in Nat, NEW g \in Nat, NEW b \in Nat, NEW c \in Nat,
         b < d, c < d, f * d + b = g * d + c
  PROVE  f = g /\ b = c
<1> DEFINE a == f * d + b
<1>1. f * d \in Nat /\ g * d \in Nat
  BY Products
<1>2. a \in Nat /\ f * d <= a /\ a < f * d + d /\ g * d <= a /\ a < g * d + d
  BY <1>1
<1>3. a \div d = f /\ a \div d = g
  <2> HIDE DEF a
  <2> QED  BY <1>2, Quotient
<1>4. f = g
  BY <1>3
<1> QED  BY <1>1, <1>4

\* The page of a reference in use is that of no other one and of no chunk.
LEMMA PageOfUsed ==
  ASSUME TypeInv, PagesInv, BlocksInv, NEW r \in InUse
  PROVE  /\ r \in Refs /\ r \in Paged(AllRefs, page) /\ page[r] \in Nat /\ page[r] \in Frames
         /\ page[r] < brk /\ page[r] \notin Held /\ blocktype[r] \in sizes
         /\ \A q \in Paged(AllRefs, page) : page[q] = page[r] => q = r
<1>1. r \in Refs /\ r \in AllRefs /\ page[r] # 0
  BY InUseFacts DEF BlocksInv, PageOK, Known
<1>2. r \in Paged(AllRefs, page)
  BY <1>1 DEF Paged
<1>3. page[r] \in Frames /\ page[r] \in Nat /\ blocktype[r] \in sizes
  BY <1>1, FrameFacts DEF TypeInv
<1>4. Divided(RefPages(AllRefs), Paged(AllRefs, page), page, Heads, npages, brk)
  BY DEF PagesInv, Heads
<1>5. page[r] < brk /\ \A q \in Paged(AllRefs, page) : page[q] = page[r] => q = r
  BY <1>2, <1>4 DEF Divided, Partition
<1>6. page[r] \notin Held
  <2> SUFFICES ASSUME page[r] \in Held PROVE FALSE
    OBVIOUS
  <2>1. page[r] \in Heads
    BY DEF Heads
  <2>2. /\ ~ (page[r] <= page[r] /\ page[r] < page[r] + npages[page[r]])
        /\ npages[page[r]] \in Nat /\ 1 <= npages[page[r]]
    BY <1>2, <1>4, <2>1 DEF Divided, Partition
  <2> QED  BY <1>3, <2>2
<1> QED  BY <1>1, <1>2, <1>3, <1>5, <1>6

\* What lies at b in the page at frame f: a block of the page's reference, or a chunk.
LEMMA PlaceOfBlock ==
  ASSUME TypeInv, PagesInv, BlocksInv, NEW x \in live,
         NEW f \in Nat, NEW b \in Nat, b < PAGE_SIZE, x.at = f * PAGE_SIZE + b
  PROVE  /\ Small(x) => \E r \in InUse : /\ page[r] = f /\ b \in Blocks(blocktype[r])
                                         /\ b \notin ToSet(flist[r])
                                         /\ blocktype[r] = blocktype_of(x.len)
         /\ ~ Small(x) => f \in Held /\ b = SMALLEST
<1>1. PAGE_SIZE \in Nat \ {0} /\ x.at \in Nat
  BY ConstantFacts DEF TypeInv
<1>2. ASSUME Small(x)
      PROVE  \E r \in InUse : /\ page[r] = f /\ b \in Blocks(blocktype[r])
                              /\ b \notin ToSet(flist[r]) /\ blocktype[r] = blocktype_of(x.len)
  <2>0. PICK r \in InUse : \E c \in Blocks(blocktype[r]) :
          /\ IsBlock(x, r, c) /\ c \notin ToSet(flist[r]) /\ blocktype[r] = blocktype_of(x.len)
    BY <1>2 DEF BlocksInv, BlockOK
  <2>1. PICK c \in Blocks(blocktype[r]) :
          /\ IsBlock(x, r, c) /\ c \notin ToSet(flist[r]) /\ blocktype[r] = blocktype_of(x.len)
    BY <2>0
  <2>2. page[r] \in Nat /\ blocktype[r] \in sizes
    BY PageOfUsed
  <2>3. c \in Nat /\ c < PAGE_SIZE
    BY <2>2, BlockFacts
  <2>4. page[r] * PAGE_SIZE + c = f * PAGE_SIZE + b
    BY <2>1 DEF IsBlock
  <2>5. page[r] = f /\ c = b
    BY <1>1, <2>2, <2>3, <2>4, SplitUnique
  <2> QED  BY <2>1, <2>5
<1>3. ASSUME ~ Small(x) PROVE f \in Held /\ b = SMALLEST
  <2> DEFINE c == x.at \div PAGE_SIZE
  <2>1. x.at = c * PAGE_SIZE + SMALLEST /\ c \in Held
    BY <1>3 DEF BlocksInv, ChunkOK, Held
  <2>2. c \in Nat
    BY <1>1, Division
  <2>3. SMALLEST \in Nat /\ SMALLEST < PAGE_SIZE
    BY SmallestFacts, ConstantFacts
  <2> HIDE DEF c
  <2>4. c * PAGE_SIZE + SMALLEST = f * PAGE_SIZE + b
    BY <2>1
  <2>5. c = f /\ SMALLEST = b
    BY <1>1, <2>2, <2>3, <2>4, SplitUnique
  <2> QED  BY <2>1, <2>5
<1> QED  BY <1>2, <1>3

\* A block gone astray at b in the page at frame f is one of the page's reference.
LEMMA StrayPlace ==
  ASSUME TypeInv, PagesInv, BlocksInv, NEW f \in Nat, NEW b \in Nat, b < PAGE_SIZE,
         f * PAGE_SIZE + b \in strays
  PROVE  \E r \in InUse : /\ page[r] = f /\ f >= FRAMES /\ b \in Blocks(blocktype[r])
                          /\ b \notin ToSet(flist[r])
<1>1. PAGE_SIZE \in Nat \ {0}
  BY ConstantFacts
<1>2. PICK r \in InUse : \E c \in Blocks(blocktype[r]) :
        /\ page[r] >= FRAMES /\ f * PAGE_SIZE + b = page[r] * PAGE_SIZE + c
        /\ c \notin ToSet(flist[r])
  BY DEF BlocksInv, StrayOK
<1>3. PICK c \in Blocks(blocktype[r]) :
        /\ page[r] >= FRAMES /\ f * PAGE_SIZE + b = page[r] * PAGE_SIZE + c
        /\ c \notin ToSet(flist[r])
  BY <1>2
<1>4. page[r] \in Nat /\ blocktype[r] \in sizes
  BY PageOfUsed
<1>5. c \in Nat /\ c < PAGE_SIZE
  BY <1>4, BlockFacts
<1>6. page[r] = f /\ c = b
  BY <1>1, <1>3, <1>4, <1>5, SplitUnique
<1> QED  BY <1>3, <1>6

\* The owners of an address in a page: the reference of the page, if it could keep it.
LEMMA OwnersByPage ==
  ASSUME TypeInv, PagesInv, BlocksInv, NEW f \in Frames, NEW b \in Nat, b < PAGE_SIZE
  PROVE  \A r : r \in Owners(f * PAGE_SIZE + b) <=> r \in InUse /\ page[r] = f /\ f < FRAMES
<1> DEFINE a == f * PAGE_SIZE + b
<1>1. PAGE_SIZE \in Nat \ {0} /\ f \in Nat /\ f * PAGE_SIZE \in Nat /\ a \in Nat
  BY ConstantFacts, Products, FrameFacts
<1>2. Owners(a) = {r \in InUse : PR_PAGEADDR(r) * PAGE_SIZE <= a
                                 /\ a < (PR_PAGEADDR(r) + 1) * PAGE_SIZE}
  BY DEF Owners, InUse
<1>3. ASSUME NEW r \in InUse
      PROVE  PR_PAGEADDR(r) * PAGE_SIZE <= a /\ a < (PR_PAGEADDR(r) + 1) * PAGE_SIZE
               <=> page[r] = f /\ f < FRAMES
  <2> DEFINE g == PR_PAGEADDR(r)
             p == g * PAGE_SIZE
             o == f * PAGE_SIZE
  <2>1. g \in Nat /\ (g = f <=> page[r] = f /\ f < FRAMES)
    <3>1. page[r] \in Nat /\ page[r] \in Frames /\ FRAMES \in Nat \ {0}
      BY PageOfUsed, ConstantFacts
    <3>2. page[r] % FRAMES \in Nat
      BY <3>1, Division
    <3> QED  BY <3>1, <3>2, KeptOfPage DEF PR_PAGEADDR
  <2> HIDE DEF g
  <2>2. p \in Nat /\ (g + 1) * PAGE_SIZE = p + PAGE_SIZE /\ o \in Nat
    BY <1>1, <2>1, Products
  <2>3. (g < f => p + PAGE_SIZE <= o) /\ (f < g => o + PAGE_SIZE <= p)
    BY <1>1, <2>1, MultiplesApart
  <2>4. g = f => p = o
    OBVIOUS
  <2>5. a = o + b
    OBVIOUS
  <2>6. p <= a /\ a < p + PAGE_SIZE <=> g = f
    <3> HIDE DEF p, o, a
    <3> QED  BY <1>1, <2>1, <2>2, <2>3, <2>4, <2>5
  <2>7. p <= a /\ a < (g + 1) * PAGE_SIZE <=> g = f
    BY <2>2, <2>6
  <2> QED  BY <2>1, <2>7 DEF g
<1> HIDE DEF a
<1>4. \A r : r \in Owners(a) <=> r \in InUse /\ page[r] = f /\ f < FRAMES
  BY <1>2, <1>3
<1> QED  BY <1>4 DEF a

\* A small block is found by its address if that has 32 bits, and a chunk is not taken
\* for one.
LEMMA OwnersFacts ==
  ASSUME TypeInv, PagesInv, BlocksInv, NEW x \in live
  PROVE  /\ Small(x) => \E r \in InUse : \E b \in Blocks(blocktype[r]) :
              /\ Owners(x.at) = IF page[r] < FRAMES THEN {r} ELSE {}
              /\ IsBlock(x, r, b) /\ b \notin ToSet(flist[r])
              /\ blocktype[r] = blocktype_of(x.len)
         /\ ~ Small(x) => Owners(x.at) = {}
<1>1. PAGE_SIZE \in Nat \ {0} /\ x.at \in Nat
  BY ConstantFacts DEF TypeInv
<1>2. ASSUME Small(x)
      PROVE  \E r \in InUse : \E b \in Blocks(blocktype[r]) :
              /\ Owners(x.at) = IF page[r] < FRAMES THEN {r} ELSE {}
              /\ IsBlock(x, r, b) /\ b \notin ToSet(flist[r])
              /\ blocktype[r] = blocktype_of(x.len)
  <2>0. PICK r \in InUse : \E b \in Blocks(blocktype[r]) :
          /\ IsBlock(x, r, b) /\ b \notin ToSet(flist[r]) /\ blocktype[r] = blocktype_of(x.len)
    BY <1>2 DEF BlocksInv, BlockOK
  <2>1. PICK b \in Blocks(blocktype[r]) :
          /\ IsBlock(x, r, b) /\ b \notin ToSet(flist[r]) /\ blocktype[r] = blocktype_of(x.len)
    BY <2>0
  <2>2. page[r] \in Frames /\ blocktype[r] \in sizes
    BY PageOfUsed
  <2>3. b \in Nat /\ b < PAGE_SIZE
    BY <2>2, BlockFacts
  <2>4. \A q : q \in Owners(page[r] * PAGE_SIZE + b)
                 <=> q \in InUse /\ page[q] = page[r] /\ page[r] < FRAMES
    BY <2>2, <2>3, OwnersByPage
  <2>5. \A q \in InUse : page[q] = page[r] => q = r
    BY <2>2, PageOfUsed
  <2>6. Owners(x.at) = IF page[r] < FRAMES THEN {r} ELSE {}
    BY <2>1, <2>4, <2>5 DEF IsBlock
  <2> QED  BY <2>1, <2>6
<1>3. ASSUME ~ Small(x) PROVE Owners(x.at) = {}
  <2> DEFINE c == x.at \div PAGE_SIZE
  <2>1. x.at = c * PAGE_SIZE + SMALLEST /\ c \in Held
    BY <1>3 DEF BlocksInv, ChunkOK, Held
  <2>2. c \in Frames
    BY <2>1, DivisionFacts DEF Heads
  <2>3. SMALLEST \in Nat /\ SMALLEST < PAGE_SIZE
    BY SmallestFacts, ConstantFacts
  <2> HIDE DEF c
  <2>4. \A q : q \in Owners(c * PAGE_SIZE + SMALLEST) => q \in InUse /\ page[q] = c
    BY <2>2, <2>3, OwnersByPage
  <2>5. \A q \in InUse : page[q] # c
    BY <2>1, PageOfUsed
  <2> QED  BY <2>1, <2>4, <2>5
<1> QED  BY <1>2, <1>3

-----------------------------------------------------------------------------
(* A block handed out. *)

\* The head of fl is handed out; fl are the free blocks, of size s, of the page at f, the
\* page of r from now on.
TakesFrom(r, f, fl, s, sz) ==
  /\ r \in Refs /\ f \in Nat \ {0} /\ sz \in Requests /\ sz < LARGEST /\ s = blocktype_of(sz)
  /\ fl \in Seq(Nat) /\ fl # <<>> /\ IsInjective(fl) /\ ToSet(fl) \subseteq Blocks(s)
  /\ \A b \in Blocks(s) : \/ b \in ToSet(fl) \/ f * PAGE_SIZE + b \in strays
                          \/ \E x \in live : x.at = f * PAGE_SIZE + b
  /\ \A b \in ToSet(fl) : /\ f * PAGE_SIZE + b \notin strays
                          /\ \A x \in live : x.at # f * PAGE_SIZE + b
  /\ TakeBlock(r, f, fl, Len(fl), sz)
  /\ page'[r] = f /\ blocktype'[r] = s
  /\ \A q \in InUse : /\ page'[q] = page[q] /\ blocktype'[q] = blocktype[q]
                      /\ q = r => fl = flist[q]
  /\ \A t \in sizes : \A q :
       q \in ToSet(sizebases'[t]) <=> q \in ToSet(sizebases[t]) \/ (t = s /\ q = r)
  /\ npages' = npages /\ strays' = strays

LEMMA BlockTaken ==
  ASSUME TypeInv, BlocksInv, NEW r, NEW f, NEW fl, NEW s, NEW sz, TakesFrom(r, f, fl, s, sz)
  PROVE  /\ BlocksInv' /\ InUse' = InUse \cup {r} /\ Held' = Held
         /\ flist' \in [Refs -> Seq(Nat)] /\ nfree' \in [Refs -> Int]
         /\ live' \subseteq [at : Nat, len : Requests]
<1> DEFINE h == Head(fl)
           y == [at |-> f * PAGE_SIZE + h, len |-> sz]
<1>1. /\ r \in Refs /\ f \in Nat \ {0} /\ sz \in Requests /\ sz < LARGEST /\ s = blocktype_of(sz)
      /\ fl \in Seq(Nat) /\ fl # <<>> /\ IsInjective(fl) /\ ToSet(fl) \subseteq Blocks(s)
      /\ page'[r] = f /\ blocktype'[r] = s /\ npages' = npages /\ strays' = strays
  BY DEF TakesFrom
<1>2. s \in sizes
  BY <1>1, BlocktypeFacts
<1>3. /\ h \in Nat /\ Tail(fl) \in Seq(Nat) /\ Len(fl) \in Nat \ {0}
      /\ Len(Tail(fl)) = Len(fl) - 1 /\ IsInjective(Tail(fl)) /\ h \notin ToSet(Tail(fl))
      /\ ToSet(fl) = {h} \cup ToSet(Tail(fl))
  BY <1>1, Popped
<1>4. /\ flist' = [flist EXCEPT ![r] = Tail(fl)]
      /\ nfree' = [nfree EXCEPT ![r] = Len(fl) - 1]
      /\ live' = live \cup {y}
  BY DEF TakesFrom, TakeBlock
<1>5. /\ flist \in [Refs -> Seq(Nat)] /\ nfree \in [Refs -> Int]
      /\ live \subseteq [at : Nat, len : Requests]
  BY DEF TypeInv
<1>6. /\ flist'[r] = Tail(fl) /\ nfree'[r] = Len(fl) - 1
      /\ \A q \in Refs \ {r} : flist'[q] = flist[q] /\ nfree'[q] = nfree[q]
  BY <1>1, <1>4, <1>5
<1>7. flist' \in [Refs -> Seq(Nat)] /\ nfree' \in [Refs -> Int]
  BY <1>1, <1>3, <1>4, <1>5
<1>8. y.at = f * PAGE_SIZE + h /\ y.len = sz /\ y \in [at : Nat, len : Requests]
  <2>1. f * PAGE_SIZE \in Nat
    BY <1>1, ConstantFacts, Products
  <2>2. f * PAGE_SIZE + h \in Nat
    BY <1>3, <2>1
  <2> QED  BY <1>1, <2>2
<1> HIDE DEF h, y
<1>9. live' \subseteq [at : Nat, len : Requests]
  BY <1>4, <1>5, <1>8
<1>10. /\ \A t \in sizes : \A q :
            q \in ToSet(sizebases'[t]) <=> q \in ToSet(sizebases[t]) \/ (t = s /\ q = r)
       /\ \A q \in InUse : /\ page'[q] = page[q] /\ blocktype'[q] = blocktype[q]
                           /\ q = r => fl = flist[q]
  BY DEF TakesFrom
<1>11. InUse' = InUse \cup {r}
  BY <1>2, <1>10 DEF InUse
<1>12. Small(y) /\ Held' = Held
  BY <1>1, <1>4, <1>8 DEF Held, Small
<1>13. ASSUME NEW t \in sizes, NEW q \in ToSet(sizebases'[t])
       PROVE  blocktype'[q] = t
  <2>1. CASE q \in ToSet(sizebases[t])
    BY <1>10, <2>1, InUseFacts DEF BlocksInv
  <2>2. CASE t = s /\ q = r
    BY <1>1, <2>2
  <2> QED  BY <1>10, <2>1, <2>2
<1>14. PageOK(r)'
  <2>1. /\ page'[r] # 0 /\ nfree'[r] = Len(flist'[r]) /\ IsInjective(flist'[r])
        /\ ToSet(flist'[r]) \subseteq Blocks(blocktype'[r])
    BY <1>1, <1>3, <1>6
  <2>2. y \in live' /\ y.at = page'[r] * PAGE_SIZE + h /\ h \in Blocks(s)
    BY <1>1, <1>3, <1>4, <1>8
  <2>3. ASSUME NEW b \in Blocks(s)
        PROVE  \/ b \in ToSet(flist'[r]) \/ page'[r] * PAGE_SIZE + b \in strays'
               \/ \E x \in live' : x.at = page'[r] * PAGE_SIZE + b
    <3>1. \/ b \in ToSet(fl) \/ f * PAGE_SIZE + b \in strays
          \/ \E x \in live : x.at = f * PAGE_SIZE + b
      BY DEF TakesFrom
    <3> QED  BY <1>1, <1>3, <1>4, <1>6, <2>2, <3>1
  <2> QED  BY <1>1, <2>1, <2>2, <2>3 DEF PageOK, IsBlock, Gone
<1>15. ASSUME NEW q \in InUse, q # r PROVE PageOK(q)'
  <2>1. /\ q \in Refs /\ flist'[q] = flist[q] /\ nfree'[q] = nfree[q]
        /\ page'[q] = page[q] /\ blocktype'[q] = blocktype[q]
    BY <1>6, <1>10, <1>15, InUseFacts
  <2>2. PageOK(q)
    BY DEF BlocksInv
  <2> QED  BY <1>1, <1>4, <2>1, <2>2 DEF PageOK, IsBlock, Gone
<1>16. ASSUME NEW x \in live, Small(x) PROVE BlockOK(x)'
  <2>0. PICK q \in InUse : \E b \in Blocks(blocktype[q]) :
          /\ IsBlock(x, q, b) /\ b \notin ToSet(flist[q]) /\ blocktype[q] = blocktype_of(x.len)
    BY <1>16 DEF BlocksInv, BlockOK
  <2>1. PICK b \in Blocks(blocktype[q]) :
          /\ IsBlock(x, q, b) /\ b \notin ToSet(flist[q]) /\ blocktype[q] = blocktype_of(x.len)
    BY <2>0
  <2>2. page'[q] = page[q] /\ blocktype'[q] = blocktype[q] /\ q \in InUse' /\ q \in Refs
    BY <1>10, <1>11, InUseFacts
  <2>3. b \notin ToSet(flist'[q])
    <3>1. CASE q = r
      BY <1>3, <1>6, <1>10, <2>1, <3>1
    <3>2. CASE q # r
      BY <1>6, <2>1, <2>2, <3>2
    <3> QED  BY <3>1, <3>2
  <2> QED  BY <2>1, <2>2, <2>3 DEF BlockOK, IsBlock
<1>17. BlockOK(y)'
  <2>1. r \in InUse' /\ h \in Blocks(blocktype'[r]) /\ h \notin ToSet(flist'[r])
    BY <1>1, <1>3, <1>6, <1>11
  <2>2. y.at = page'[r] * PAGE_SIZE + h /\ blocktype'[r] = blocktype_of(y.len)
    BY <1>1, <1>8
  <2> QED  BY <2>1, <2>2 DEF BlockOK, IsBlock
<1>18. ASSUME NEW x \in live' PROVE (IF Small(x) THEN BlockOK(x) ELSE ChunkOK(x))'
  <2>1. CASE x = y
    BY <1>12, <1>17, <2>1 DEF Small
  <2>2. CASE x \in live /\ Small(x)
    BY <1>16, <2>2 DEF Small
  <2>3. CASE x \in live /\ ~ Small(x)
    <3>1. ChunkOK(x)
      BY <2>3 DEF BlocksInv
    <3>2. ChunkOK(x)'
      BY <1>1, <3>1 DEF ChunkOK
    <3> QED  BY <2>3, <3>2 DEF Small
  <2> QED  BY <1>4, <2>1, <2>2, <2>3
<1>19. \A x, z \in live' : x.at = z.at => x = z
  <2>1. \A x \in live : x.at # y.at
    BY <1>3, <1>8 DEF TakesFrom
  <2>2. \A x, z \in live : x.at = z.at => x = z
    BY DEF BlocksInv
  <2> QED  BY <1>4, <2>1, <2>2
<1>20. \A q \in InUse' : PageOK(q)'
  BY <1>11, <1>14, <1>15
<1>21. ASSUME NEW a \in strays' PROVE StrayOK(a)'
  <2>0. PICK q \in InUse : \E b \in Blocks(blocktype[q]) :
          page[q] >= FRAMES /\ a = page[q] * PAGE_SIZE + b /\ b \notin ToSet(flist[q])
    BY <1>1 DEF BlocksInv, StrayOK
  <2>1. PICK b \in Blocks(blocktype[q]) :
          page[q] >= FRAMES /\ a = page[q] * PAGE_SIZE + b /\ b \notin ToSet(flist[q])
    BY <2>0
  <2>2. page'[q] = page[q] /\ blocktype'[q] = blocktype[q] /\ q \in InUse' /\ q \in Refs
    BY <1>10, <1>11, InUseFacts
  <2>3. b \notin ToSet(flist'[q])
    <3>1. CASE q = r
      BY <1>3, <1>6, <1>10, <2>1, <3>1
    <3>2. CASE q # r
      BY <1>6, <2>1, <2>2, <3>2
    <3> QED  BY <3>1, <3>2
  <2> QED  BY <2>1, <2>2, <2>3 DEF StrayOK
<1>22. \A x \in live' : x.at \notin strays'
  <2>1. y.at \notin strays
    BY <1>3, <1>8 DEF TakesFrom
  <2>2. \A x \in live : x.at \notin strays
    BY DEF BlocksInv
  <2> QED  BY <1>1, <1>4, <2>1, <2>2
<1>23. BlocksInv'
  BY <1>13, <1>18, <1>19, <1>20, <1>21, <1>22 DEF BlocksInv
<1> QED  BY <1>7, <1>9, <1>11, <1>12, <1>23

\* What a step does not touch, it keeps.
LEMMA RefsKept ==
  ASSUME RefsInv, UNCHANGED <<brk, fresh_refs, recycled_refs, sizebases, page>>
  PROVE  RefsInv'
<1>1. InUse' = InUse
  BY DEF InUse
<1>2. AllRefs' = AllRefs
  BY <1>1 DEF AllRefs
<1> QED  BY <1>1, <1>2 DEF RefsInv, UnpagedLast

LEMMA PagesKept ==
  ASSUME PagesInv, AllRefs' = AllRefs, Held' = Held, UNCHANGED <<brk, page, bigchunks, npages>>
  PROVE  PagesInv'
BY DEF PagesInv

LEMMA FromPageStep ==
  ASSUME IInv, NEW sz \in Requests, sz < LARGEST, FromPage(sz)
  PROVE  IInv'
<1> DEFINE s == blocktype_of(sz)
<1>1. TypeInv /\ RefsInv /\ PagesInv /\ BlocksInv
  BY DEF IInv
<1>2. s \in sizes
  BY BlocktypeFacts
<1>3. PICK i \in WithSpace(s) :
        LET r == sizebases[s][i] IN
        /\ TakeBlock(r, page[r], flist[r], nfree[r], sz)
        /\ UNCHANGED <<brk, fresh_refs, recycled_refs, sizebases, page, blocktype, bigVars>>
  BY DEF FromPage
<1> DEFINE r == sizebases[s][i]
           f == page[r]
<1>4. /\ TakeBlock(r, f, flist[r], nfree[r], sz)
      /\ UNCHANGED <<brk, fresh_refs, recycled_refs, sizebases, page, blocktype, bigVars>>
  BY <1>3
<1>5. r \in ToSet(sizebases[s]) /\ nfree[r] > 0
  BY DEF WithSpace, ToSet
<1> HIDE DEF s, r
<1>6. /\ r \in InUse /\ r \in Refs /\ blocktype[r] = s /\ PageOK(r) /\ f \in Nat
      /\ f \notin Held /\ \A q \in Paged(AllRefs, page) : page[q] = f => q = r
  BY <1>1, <1>2, <1>5, InUseFacts, PageOfUsed DEF BlocksInv
<1>7. /\ flist[r] \in Seq(Nat) /\ nfree[r] = Len(flist[r]) /\ IsInjective(flist[r])
      /\ ToSet(flist[r]) \subseteq Blocks(s) /\ f # 0
      /\ \A b \in Blocks(s) : \/ b \in ToSet(flist[r]) \/ f * PAGE_SIZE + b \in strays
                              \/ \E x \in live : x.at = f * PAGE_SIZE + b
  BY <1>1, <1>6 DEF PageOK, TypeInv, IsBlock, Gone
<1>8. flist[r] # <<>>
  <2>1. Len(<<>>) = 0
    OBVIOUS
  <2>2. Len(flist[r]) > 0
    BY <1>5, <1>7
  <2> QED  BY <2>1, <2>2
<1>9. ASSUME NEW b \in ToSet(flist[r]), NEW x \in live, x.at = f * PAGE_SIZE + b
      PROVE  FALSE
  <2>1. b \in Nat /\ b < PAGE_SIZE
    BY <1>2, <1>7, BlockFacts
  <2>2. Small(x)
    BY <1>1, <1>6, <1>9, <2>1, PlaceOfBlock
  <2>3. PICK q \in InUse : page[q] = f /\ b \notin ToSet(flist[q])
    BY <1>1, <1>6, <1>9, <2>1, <2>2, PlaceOfBlock
  <2>4. q = r
    BY <1>1, <1>6, <2>3, PageOfUsed
  <2> QED  BY <2>3, <2>4
<1>astray. ASSUME NEW b \in ToSet(flist[r]), f * PAGE_SIZE + b \in strays
      PROVE  FALSE
  <2>1. b \in Nat /\ b < PAGE_SIZE
    BY <1>2, <1>7, BlockFacts
  <2>2. PICK q \in InUse : page[q] = f /\ b \notin ToSet(flist[q])
    BY <1>1, <1>6, <1>astray, <2>1, StrayPlace
  <2>3. q = r
    BY <1>1, <1>6, <2>2, PageOfUsed
  <2> QED  BY <2>2, <2>3
<1>10. \A t \in sizes : \A q :
         q \in ToSet(sizebases'[t]) <=> q \in ToSet(sizebases[t]) \/ (t = s /\ q = r)
  BY <1>4, <1>5
<1>11. npages' = npages /\ bigchunks' = bigchunks /\ strays' = strays /\ ahead' = ahead
  BY <1>4 DEF bigVars, strayVars
<1>12. page'[r] = f /\ blocktype'[r] = s /\ page' = page /\ blocktype' = blocktype
  BY <1>4, <1>6
<1>13. TakesFrom(r, f, flist[r], s, sz)
  <2>1. TakeBlock(r, f, flist[r], Len(flist[r]), sz)
    BY <1>4, <1>7
  <2>2. s = blocktype_of(sz)
    BY DEF s
  <2>3. f \in Nat \ {0}
    BY <1>6, <1>7
  <2> HIDE DEF f
  <2> QED  BY <1>6, <1>7, <1>8, <1>9, <1>astray, <1>10, <1>11, <1>12, <2>1, <2>2, <2>3 DEF TakesFrom
<1>14. /\ BlocksInv' /\ InUse' = InUse \cup {r} /\ Held' = Held
       /\ flist' \in [Refs -> Seq(Nat)] /\ nfree' \in [Refs -> Int]
       /\ live' \subseteq [at : Nat, len : Requests]
  BY <1>1, <1>13, BlockTaken
<1>15. AllRefs' = AllRefs
  BY <1>4, <1>6, <1>14 DEF AllRefs
<1>16. TypeInv'
  BY <1>1, <1>4, <1>11, <1>14 DEF TypeInv
<1>17. RefsInv' /\ PagesInv'
  BY <1>1, <1>4, <1>11, <1>14, <1>15, RefsKept, PagesKept
<1> QED  BY <1>14, <1>16, <1>17 DEF IInv

\* At a frame that is not the page of a reference in use, nor a chunk's, no block lies,
\* nor one gone astray.
LEMMA EmptyPage ==
  ASSUME TypeInv, PagesInv, BlocksInv, NEW f \in Nat, f \notin Held,
         \A q \in InUse : page[q] # f, NEW s \in sizes, NEW b \in Blocks(s)
  PROVE  f * PAGE_SIZE + b \notin strays /\ \A x \in live : x.at # f * PAGE_SIZE + b
<1>1. b \in Nat /\ b < PAGE_SIZE
  BY BlockFacts
<1>2. ASSUME NEW x \in live, x.at = f * PAGE_SIZE + b PROVE FALSE
  <2>1. Small(x)
    BY <1>1, <1>2, PlaceOfBlock
  <2>2. \E q \in InUse : page[q] = f
    BY <1>1, <1>2, <2>1, PlaceOfBlock
  <2> QED  BY <2>2
<1>3. ASSUME f * PAGE_SIZE + b \in strays PROVE FALSE
  <2>1. \E q \in InUse : page[q] = f
    BY <1>1, <1>3, StrayPlace
  <2> QED  BY <2>1
<1> QED  BY <1>2, <1>3

\* The page at f becomes one of blocks of size s, kept by r, and its head is handed out.
CutsUp(r, f, s, sz) ==
  /\ page' = [page EXCEPT ![r] = f]
  /\ blocktype' = [blocktype EXCEPT ![r] = s]
  /\ sizebases' = [sizebases EXCEPT ![s] = <<r>> \o @]
  /\ TakeBlock(r, f, NewList(s), PAGE_SIZE \div s, sz)
  /\ UNCHANGED bigVars

LEMMA CutsUpFacts ==
  ASSUME IInv, NEW sz \in Requests, sz < LARGEST, NEW r \in Refs, r \notin InUse,
         NEW f \in Frames, f \notin Held, \A q \in InUse : page[q] # f,
         CutsUp(r, f, blocktype_of(sz), sz)
  PROVE  /\ BlocksInv' /\ InUse' = InUse \cup {r} /\ Held' = Held
         /\ flist' \in [Refs -> Seq(Nat)] /\ nfree' \in [Refs -> Int]
         /\ live' \subseteq [at : Nat, len : Requests]
         /\ page' \in [Refs -> Frames \cup {0}] /\ blocktype' \in [Refs -> sizes]
         /\ page'[r] = f /\ \A q \in Refs \ {r} : page'[q] = page[q]
         /\ sizebases' \in [sizes -> Seq(Refs)]
         /\ \A t \in sizes : IsInjective(sizebases'[t])
         /\ bigchunks' = bigchunks /\ npages' = npages /\ strays' = strays /\ ahead' = ahead
<1> DEFINE s == blocktype_of(sz)
<1>1. TypeInv /\ RefsInv /\ PagesInv /\ BlocksInv
  BY DEF IInv
<1>2. s \in sizes
  BY BlocktypeFacts
<1>3. f \in Nat \ {0}
  BY FrameFacts
<1>4. /\ page' = [page EXCEPT ![r] = f] /\ blocktype' = [blocktype EXCEPT ![r] = s]
      /\ sizebases' = [sizebases EXCEPT ![s] = <<r>> \o @]
      /\ TakeBlock(r, f, NewList(s), PAGE_SIZE \div s, sz)
      /\ bigchunks' = bigchunks /\ npages' = npages /\ strays' = strays /\ ahead' = ahead
  BY DEF CutsUp, bigVars, strayVars
<1>5. s = blocktype_of(sz)
  OBVIOUS
<1> HIDE DEF s
<1>6. /\ page \in [Refs -> Frames \cup {0}] /\ blocktype \in [Refs -> sizes]
      /\ sizebases \in [sizes -> Seq(Refs)]
  BY <1>1 DEF TypeInv
<1>7. /\ page' \in [Refs -> Frames \cup {0}] /\ page'[r] = f
      /\ \A q \in Refs \ {r} : page'[q] = page[q]
  BY <1>4, <1>6
<1>8. /\ blocktype' \in [Refs -> sizes] /\ blocktype'[r] = s
      /\ \A q \in Refs \ {r} : blocktype'[q] = blocktype[q]
  BY <1>2, <1>4, <1>6
<1> DEFINE q0 == sizebases[s]
           q1 == <<r>> \o q0
<1>9. /\ q0 \in Seq(Refs) /\ ToSet(q0) \subseteq InUse /\ IsInjective(q0) /\ r \notin ToSet(q0)
  BY <1>1, <1>2, <1>6, InUseFacts DEF RefsInv
<1>10. q1 \in Seq(Refs) /\ ToSet(q1) = {r} \cup ToSet(q0) /\ IsInjective(q1)
  <2> HIDE DEF q0
  <2> QED  BY <1>9, Pushed
<1>11. /\ sizebases'[s] = q1 /\ sizebases' \in [sizes -> Seq(Refs)]
       /\ \A t \in sizes \ {s} : sizebases'[t] = sizebases[t]
  <2> HIDE DEF q1
  <2>1. sizebases' = [sizebases EXCEPT ![s] = q1]
    BY <1>4 DEF q1
  <2> QED  BY <1>2, <1>6, <1>10, <2>1
<1>12. \A t \in sizes : IsInjective(sizebases'[t])
  BY <1>1, <1>10, <1>11 DEF RefsInv
<1>13. \A t \in sizes : \A q :
         q \in ToSet(sizebases'[t]) <=> q \in ToSet(sizebases[t]) \/ (t = s /\ q = r)
  BY <1>10, <1>11
<1>14. /\ NewList(s) \in Seq(Nat) /\ NewList(s) # <<>>
       /\ Len(NewList(s)) = PAGE_SIZE \div s
       /\ IsInjective(NewList(s)) /\ ToSet(NewList(s)) = Blocks(s)
  BY <1>2, NewListFacts
<1>15. \A b \in Blocks(s) : /\ f * PAGE_SIZE + b \notin strays
                            /\ \A x \in live : x.at # f * PAGE_SIZE + b
  BY <1>1, <1>2, <1>3, EmptyPage
<1>16. \A q \in InUse : /\ page'[q] = page[q] /\ blocktype'[q] = blocktype[q]
                        /\ q = r => NewList(s) = flist[q]
  <2>1. \A q \in InUse : q \in Refs \ {r}
    BY <1>1, InUseFacts
  <2> QED  BY <1>7, <1>8, <2>1
<1>17. TakesFrom(r, f, NewList(s), s, sz)
  BY <1>3, <1>4, <1>5, <1>7, <1>8, <1>13, <1>14, <1>15, <1>16 DEF TakesFrom
<1>18. /\ BlocksInv' /\ InUse' = InUse \cup {r} /\ Held' = Held
       /\ flist' \in [Refs -> Seq(Nat)] /\ nfree' \in [Refs -> Int]
       /\ live' \subseteq [at : Nat, len : Requests]
  BY <1>1, <1>17, BlockTaken
<1> QED  BY <1>4, <1>7, <1>8, <1>11, <1>12, <1>18

\* A reference that is not in use has kept the address of its page whole.
LEMMA UnusedWhole ==
  ASSUME TypeInv, RefsInv, NEW r \in Refs, r \notin InUse
  PROVE  PR_PAGEADDR(r) = page[r]
<1>1. page[r] \in Nat /\ page[r] < FRAMES
  BY FrameFacts DEF TypeInv, RefsInv
<1> QED  BY <1>1, KeptWhole DEF PR_PAGEADDR

LEMMA FromNewPageStep ==
  ASSUME IInv, NEW sz \in Requests, sz < LARGEST, FromNewPage(sz)
  PROVE  IInv'
<1> DEFINE s == blocktype_of(sz)
           r == allocpageref.ref
           new == allocpageref.fresh
           old == allocpageref.recycled
           top == allocpageref.top
           f == IF page[r] # 0 THEN page[r] ELSE top
<1>1. TypeInv /\ RefsInv /\ PagesInv /\ BlocksInv
  BY DEF IInv
<1>0. r # 0
  BY DEF FromNewPage
<1>3. PICK known : Taken(r, new, old, top, known)
  BY <1>0, <1>1, AllocpagerefFacts
<1>2. /\ page[r] # 0 \/ mem_sbrk(top, 1)
      /\ brk' = IF page[r] # 0 THEN top ELSE top + 1
      /\ recycled_refs' = old /\ fresh_refs' = new
      /\ CutsUp(r, f, s, sz)
  <2>1. r \in Refs /\ r \notin InUse
    BY <1>3 DEF Taken, Known
  <2>2. PR_PAGEADDR(r) = page[r]
    BY <1>1, <2>1, UnusedWhole
  <2> QED  BY <2>2 DEF FromNewPage, CutsUp
<1> HIDE DEF r, new, old, top
<1>4. /\ r \in Refs /\ new \in Seq(Refs) /\ old \in Seq(Refs)
      /\ top \in Nat /\ brk <= top /\ top <= BASE + PAGES
      /\ ListsApart(new, old, InUse) /\ r \notin Known(new, old, InUse)
      /\ known = Known(new, old, InUse) \cup {r} /\ WholePages(known)
      /\ UnpagedLast(old, page, top)
      /\ \A q \in Refs : q \in ToSet(new) \/ q \notin known => page[q] = 0
      /\ Divided(RefPages(known), Paged(known, page), page, Heads, npages, top)
  BY <1>3 DEF Taken
<1>5. /\ BASE \in Nat \ {0} /\ PAGES \in Nat /\ BASE <= brk /\ brk \in Nat
      /\ page \in [Refs -> Frames \cup {0}]
  BY <1>1, ConstantFacts DEF TypeInv
<1>6. page[r] = 0 => top + 1 <= BASE + PAGES
  BY <1>2 DEF mem_sbrk
<1>7. f \in Frames
  <2>1. CASE page[r] # 0
    BY <1>4, <1>5, <2>1
  <2>2. CASE page[r] = 0
    <3>1. top \in Nat /\ BASE <= top /\ top < BASE + PAGES
      BY <1>4, <1>5, <1>6, <2>2
    <3> QED  BY <2>2, <3>1, FrameFacts
  <2> QED  BY <2>1, <2>2
<1>8. r \notin InUse /\ \A q \in InUse : q \in Paged(known, page) /\ q \in Refs
  BY <1>1, <1>4, InUseFacts DEF Known, Paged, BlocksInv, PageOK
<1>9. \A q \in InUse : page[q] # f
  <2>1. CASE page[r] # 0
    <3>1. r \in Paged(known, page)
      BY <1>4, <2>1 DEF Paged
    <3> QED  BY <1>4, <1>8, <2>1, <3>1 DEF Divided, Partition
  <2>2. CASE page[r] = 0
    <3>1. \A q \in Paged(known, page) : page[q] < top /\ page[q] \in Nat
      BY <1>4 DEF Divided, Partition
    <3>2. f = top /\ top \in Nat
      BY <1>4, <2>2
    <3> HIDE DEF f
    <3> QED  BY <1>8, <3>1, <3>2
  <2> QED  BY <2>1, <2>2
<1>10. f \notin Held
  <2> SUFFICES ASSUME f \in Held PROVE FALSE
    OBVIOUS
  <2>1. f \in Heads
    BY DEF Heads
  <2>2. /\ 1 <= npages[f] /\ f + npages[f] <= top /\ npages[f] \in Nat /\ f \in Nat
        /\ \A q \in Paged(known, page) : ~ (f <= page[q] /\ page[q] < f + npages[f])
    <3> HIDE DEF f
    <3> QED  BY <1>4, <2>1 DEF Divided, Partition
  <2>3. CASE page[r] # 0
    <3>1. r \in Paged(known, page)
      BY <1>4, <2>3 DEF Paged
    <3> QED  BY <2>2, <2>3, <3>1
  <2>4. CASE page[r] = 0
    BY <1>4, <2>2, <2>4
  <2> QED  BY <2>3, <2>4
<1>11. /\ BlocksInv' /\ InUse' = InUse \cup {r} /\ Held' = Held
       /\ flist' \in [Refs -> Seq(Nat)] /\ nfree' \in [Refs -> Int]
       /\ live' \subseteq [at : Nat, len : Requests]
       /\ page' \in [Refs -> Frames \cup {0}] /\ blocktype' \in [Refs -> sizes]
       /\ page'[r] = f /\ \A q \in Refs \ {r} : page'[q] = page[q]
       /\ sizebases' \in [sizes -> Seq(Refs)]
       /\ \A t \in sizes : IsInjective(sizebases'[t])
       /\ bigchunks' = bigchunks /\ npages' = npages /\ strays' = strays /\ ahead' = ahead
  <2> HIDE DEF f
  <2> QED  BY <1>2, <1>4, <1>7, <1>8, <1>9, <1>10, CutsUpFacts
<1>12. brk' \in BASE .. BASE + PAGES
  BY <1>2, <1>4, <1>5, <1>6
<1>13. TypeInv'
  BY <1>1, <1>2, <1>4, <1>11, <1>12 DEF TypeInv
<1>14. AllRefs' = known
  BY <1>2, <1>4, <1>11 DEF AllRefs, Known
<1>15. RefsInv'
  <2>1. ListsApart(new, old, InUse \cup {r})
    BY <1>4 DEF ListsApart, Known
  <2>2. UnpagedLast(old, page', brk')
    <3> SUFFICES ASSUME NEW i \in DOMAIN old, page'[old[i]] = 0
                 PROVE  i = Len(old) /\ brk' = BASE + PAGES
      BY DEF UnpagedLast
    <3>1. old[i] \in Refs /\ old[i] # r
      BY <1>4 DEF Known, ToSet
    <3>2. i = Len(old) /\ top = BASE + PAGES
      BY <1>4, <1>11, <3>1 DEF UnpagedLast
    <3> QED  BY <1>2, <1>4, <1>5, <1>6, <3>2
  <2>3. \A q \in Refs : q \in ToSet(new) \/ q \notin known => page'[q] = 0
    <3>1. \A q \in Refs : q \in ToSet(new) \/ q \notin known => q # r
      BY <1>4 DEF Known
    <3> QED  BY <1>4, <1>11, <3>1
  <2>4. \A q \in Refs : q \notin InUse \cup {r} => page'[q] < FRAMES
    BY <1>1, <1>11 DEF RefsInv
  <2> QED  BY <1>2, <1>4, <1>11, <1>14, <2>1, <2>2, <2>3, <2>4 DEF RefsInv
<1>16. Divided(RefPages(known), Paged(known, page'), page', Heads, npages, brk')
  <2>1. CASE page[r] # 0
    <3>1. page' = page
      BY <1>4, <1>5, <1>11, <2>1
    <3> QED  BY <1>2, <1>4, <2>1, <3>1
  <2>2. CASE page[r] = 0
    <3>1. r \notin Paged(known, page) /\ page'[r] = top
      BY <1>11, <2>2 DEF Paged
    <3>2. known \subseteq Refs
      <4>1. ToSet(new) \subseteq Refs /\ ToSet(old) \subseteq Refs
        BY <1>4 DEF ToSet
      <4> QED  BY <1>4, <1>8, <4>1 DEF Known
    <3>3. \A q \in Paged(known, page) : page'[q] = page[q]
      BY <1>11, <3>1, <3>2 DEF Paged
    <3>4. Paged(known, page') = Paged(known, page) \cup {r}
      <4>1. r \in known /\ top # 0
        BY <1>4, <1>5
      <4> QED  BY <1>11, <3>1, <3>2, <4>1 DEF Paged
    <3>5. Divided(RefPages(known), Paged(known, page) \cup {r}, page', Heads, npages, top + 1)
      BY <1>4, <3>1, <3>3, GainsPage
    <3> QED  BY <1>2, <2>2, <3>4, <3>5
  <2> QED  BY <2>1, <2>2
<1>17. PagesInv'
  BY <1>1, <1>11, <1>14, <1>16 DEF PagesInv, Heads
<1> QED  BY <1>11, <1>13, <1>15, <1>17 DEF IInv

LEMMA NoPageLeftStep ==
  ASSUME IInv, NEW sz \in Requests, NoPageLeft(sz)
  PROVE  IInv'
<1> DEFINE r == allocpageref.ref
           new == allocpageref.fresh
           old == allocpageref.recycled
           top == allocpageref.top
<1>1. TypeInv /\ RefsInv /\ PagesInv /\ BlocksInv
  BY DEF IInv
<1>0. r # 0
  BY DEF NoPageLeft
<1>3. PICK known : Taken(r, new, old, top, known)
  BY <1>0, <1>1, AllocpagerefFacts
<1>2. /\ page[r] = 0 /\ ~ mem_sbrk(top, 1) /\ brk' = top
      /\ fresh_refs' = new /\ recycled_refs' = <<r>> \o old
      /\ UNCHANGED <<sizebases, page, blocktype, flist, nfree, bigVars, live>>
  <2>1. r \in Refs /\ r \notin InUse
    BY <1>3 DEF Taken, Known
  <2>2. PR_PAGEADDR(r) = page[r]
    BY <1>1, <2>1, UnusedWhole
  <2> QED  BY <2>2 DEF NoPageLeft, freepageref
<1> HIDE DEF r, new, old, top
<1>4. /\ r \in Refs /\ new \in Seq(Refs) /\ old \in Seq(Refs)
      /\ top \in Nat /\ brk <= top /\ top <= BASE + PAGES
      /\ ListsApart(new, old, InUse) /\ r \notin Known(new, old, InUse)
      /\ known = Known(new, old, InUse) \cup {r} /\ WholePages(known)
      /\ old = <<>>
      /\ \A q \in Refs : q \in ToSet(new) \/ q \notin known => page[q] = 0
      /\ Divided(RefPages(known), Paged(known, page), page, Heads, npages, top)
  BY <1>2, <1>3 DEF Taken
<1>5. BASE \in Nat \ {0} /\ PAGES \in Nat /\ BASE <= brk /\ brk \in Nat
  BY <1>1, ConstantFacts DEF TypeInv
<1>6. top = BASE + PAGES
  BY <1>2, <1>4, <1>5 DEF mem_sbrk
<1> DEFINE back == <<r>> \o old
<1>7. /\ back \in Seq(Refs) /\ Len(back) = Len(old) + 1
      /\ ToSet(back) = {r} \cup ToSet(old) /\ IsInjective(back)
  BY <1>4, Pushed DEF ListsApart, Known
<1>8. recycled_refs' = back
  BY <1>2
<1> HIDE DEF back
<1>9. /\ sizebases' = sizebases /\ page' = page /\ blocktype' = blocktype /\ flist' = flist
      /\ nfree' = nfree /\ bigchunks' = bigchunks /\ npages' = npages /\ live' = live
      /\ strays' = strays /\ ahead' = ahead
  BY <1>2 DEF bigVars, strayVars
<1>10. InUse' = InUse /\ Held' = Held
  BY <1>9 DEF InUse, Held
<1>11. AllRefs' = known
  BY <1>2, <1>4, <1>7, <1>8, <1>10 DEF AllRefs, Known
<1>12. TypeInv'
  <2>1. brk' \in BASE .. BASE + PAGES
    BY <1>2, <1>4, <1>5
  <2> QED  BY <1>1, <1>2, <1>4, <1>7, <1>8, <1>9, <2>1 DEF TypeInv
<1>13. RefsInv'
  <2>1. ListsApart(new, back, InUse)
    BY <1>4, <1>7 DEF ListsApart, Known
  <2>2. UnpagedLast(back, page, top)
    <3>1. Len(old) = 0
      BY <1>4
    <3>2. \A i \in DOMAIN back : i = Len(back)
      BY <1>7, <3>1
    <3> QED  BY <1>6, <3>2 DEF UnpagedLast
  <2>3. /\ \A t \in sizes : IsInjective(sizebases[t])
        /\ \A q \in Refs : q \notin InUse => page[q] < FRAMES
    BY <1>1 DEF RefsInv
  <2> QED  BY <1>2, <1>4, <1>8, <1>9, <1>10, <1>11, <2>1, <2>2, <2>3 DEF RefsInv
<1>14. PagesInv'
  BY <1>1, <1>2, <1>4, <1>9, <1>10, <1>11 DEF PagesInv, Heads
<1>15. BlocksInv'
  BY <1>1, <1>9, <1>10 DEF BlocksInv, PageOK, BlockOK, ChunkOK, StrayOK, IsBlock, Gone, Small
<1> QED  BY <1>12, <1>13, <1>14, <1>15 DEF IInv

-----------------------------------------------------------------------------
(* A block given back. *)

\* The block b of the page of r goes to the front of its free list fl.
Freed(x, r, b, fl) ==
  /\ r \in InUse /\ b \in Blocks(blocktype[r]) /\ IsBlock(x, r, b) /\ Small(x)
  /\ b \notin ToSet(flist[r]) /\ page[r] < FRAMES
  /\ fl \in Seq(Nat) /\ Len(fl) = nfree[r] + 1 /\ IsInjective(fl)
  /\ ToSet(fl) = {b} \cup ToSet(flist[r]) /\ ToSet(fl) \subseteq Blocks(blocktype[r])
  /\ flist' = [flist EXCEPT ![r] = fl] /\ nfree' = [nfree EXCEPT ![r] = @ + 1]
  /\ live' = live \ {x}
  /\ UNCHANGED <<brk, fresh_refs, page, blocktype, bigVars>>

LEMMA SubpageFreeFacts ==
  ASSUME IInv, NEW x \in live, NEW r \in Owners(x.at), subpage_kfree(x, r)
  PROVE  /\ \E b, fl : Freed(x, r, b, fl)
         /\ nfree[r] + 1 # PAGE_SIZE \div blocktype[r] =>
              UNCHANGED <<sizebases, recycled_refs>>
         /\ nfree[r] + 1 = PAGE_SIZE \div blocktype[r] =>
              /\ sizebases' = remove_lists(r, blocktype[r])
              /\ recycled_refs' = <<r>> \o recycled_refs
<1>1. TypeInv /\ RefsInv /\ PagesInv /\ BlocksInv
  BY DEF IInv
<1>2. Small(x)
  BY <1>1, OwnersFacts
<1>3. PICK q \in InUse : \E b \in Blocks(blocktype[q]) :
        /\ Owners(x.at) = IF page[q] < FRAMES THEN {q} ELSE {}
        /\ IsBlock(x, q, b) /\ b \notin ToSet(flist[q])
        /\ blocktype[q] = blocktype_of(x.len)
  BY <1>1, <1>2, OwnersFacts
<1>4. r = q /\ page[r] < FRAMES
  BY <1>3
<1>5. PICK b \in Blocks(blocktype[r]) : IsBlock(x, r, b) /\ b \notin ToSet(flist[r])
  BY <1>3, <1>4
<1>6. r \in InUse /\ r \in Refs /\ page[r] \in Nat /\ blocktype[r] \in sizes
  BY <1>1, <1>3, <1>4, PageOfUsed
<1>7. b \in Nat /\ page[r] * PAGE_SIZE \in Nat
  BY <1>6, BlockFacts, ConstantFacts, Products
<1>8. x.at - page[r] * PAGE_SIZE = b
  <2> DEFINE p == page[r] * PAGE_SIZE
  <2>1. x.at = p + b /\ p \in Nat
    BY <1>5, <1>7 DEF IsBlock
  <2> HIDE DEF p
  <2>2. x.at - p = b
    BY <1>7, <2>1
  <2> QED  BY <2>2 DEF p
<1>9. /\ flist[r] \in Seq(Nat) /\ nfree[r] = Len(flist[r]) /\ IsInjective(flist[r])
      /\ ToSet(flist[r]) \subseteq Blocks(blocktype[r])
  BY <1>1, <1>6 DEF TypeInv, BlocksInv, PageOK
<1> DEFINE q0 == flist[r]
           fl == <<b>> \o q0
<1>10. /\ fl \in Seq(Nat) /\ Len(fl) = Len(q0) + 1 /\ ToSet(fl) = {b} \cup ToSet(q0)
       /\ IsInjective(fl)
  <2> HIDE DEF q0
  <2>1. q0 \in Seq(Nat) /\ IsInjective(q0) /\ b \notin ToSet(q0)
    BY <1>5, <1>9 DEF q0
  <2> QED  BY <1>7, <2>1, Pushed
<1>11. /\ flist' = [flist EXCEPT ![r] = <<x.at - page[r] * PAGE_SIZE>> \o @]
       /\ nfree' = [nfree EXCEPT ![r] = @ + 1]
       /\ live' = live \ {x}
       /\ UNCHANGED <<brk, fresh_refs, page, blocktype, bigVars>>
  <2>1. PR_PAGEADDR(r) = page[r]
    BY <1>4, <1>6, KeptWhole DEF PR_PAGEADDR
  <2> QED  BY <2>1 DEF subpage_kfree
<1>12. flist' = [flist EXCEPT ![r] = fl]
  BY <1>8, <1>11
<1> HIDE DEF fl
<1>13. Freed(x, r, b, fl)
  BY <1>2, <1>4, <1>5, <1>6, <1>9, <1>10, <1>11, <1>12 DEF Freed
<1> QED  BY <1>13 DEF subpage_kfree, freepageref

\* What remains is as before, but for the page of r.
LEMMA FreedRest ==
  ASSUME IInv, NEW x \in live, NEW r, NEW b, NEW fl, Freed(x, r, b, fl)
  PROVE  /\ \A q \in InUse \ {r} : PageOK(q)'
         /\ \A y \in live' : ~ (IsBlock(y, r, b))
         /\ \A y \in live' : ~ Small(y) => ChunkOK(y)'
         /\ \A y, z \in live' : y.at = z.at => y = z
         /\ \A y \in live' : y.at \notin strays'
         /\ \A a \in strays' : \E q \in InUse \ {r} : \E c \in Blocks(blocktype'[q]) :
              page'[q] >= FRAMES /\ a = page'[q] * PAGE_SIZE + c /\ c \notin ToSet(flist'[q])
         /\ \A c \in Blocks(blocktype[r]) : ~ Gone(r, c)
         /\ Held' = Held
         /\ flist' \in [Refs -> Seq(Nat)] /\ nfree' \in [Refs -> Int]
         /\ live' \subseteq [at : Nat, len : Requests]
         /\ flist'[r] = fl /\ nfree'[r] = Len(fl)
         /\ \A q \in Refs \ {r} : flist'[q] = flist[q] /\ nfree'[q] = nfree[q]
         /\ page' = page /\ blocktype' = blocktype /\ brk' = brk /\ fresh_refs' = fresh_refs
         /\ bigchunks' = bigchunks /\ npages' = npages /\ strays' = strays /\ ahead' = ahead
<1>1. TypeInv /\ RefsInv /\ PagesInv /\ BlocksInv
  BY DEF IInv
<1>2. /\ page' = page /\ blocktype' = blocktype /\ brk' = brk /\ fresh_refs' = fresh_refs
      /\ bigchunks' = bigchunks /\ npages' = npages /\ live' = live \ {x} /\ Small(x)
      /\ r \in InUse /\ b \in Blocks(blocktype[r]) /\ x.at = page[r] * PAGE_SIZE + b
      /\ strays' = strays /\ ahead' = ahead /\ page[r] < FRAMES
  BY DEF Freed, bigVars, strayVars, IsBlock
<1>3. r \in Refs /\ page[r] \in Nat /\ blocktype[r] \in sizes
  BY <1>1, <1>2, PageOfUsed
<1>4. /\ flist \in [Refs -> Seq(Nat)] /\ nfree \in [Refs -> Int]
      /\ live \subseteq [at : Nat, len : Requests]
  BY <1>1 DEF TypeInv
<1>5. /\ flist' = [flist EXCEPT ![r] = fl] /\ nfree' = [nfree EXCEPT ![r] = @ + 1]
      /\ fl \in Seq(Nat) /\ Len(fl) = nfree[r] + 1
  BY DEF Freed
<1>6. /\ flist' \in [Refs -> Seq(Nat)] /\ nfree' \in [Refs -> Int]
      /\ flist'[r] = fl /\ nfree'[r] = Len(fl)
      /\ \A q \in Refs \ {r} : flist'[q] = flist[q] /\ nfree'[q] = nfree[q]
  BY <1>3, <1>4, <1>5
<1>7. Held' = Held
  BY <1>2 DEF Held, Small
<1>8. \A y \in live' : y.at # x.at
  BY <1>1, <1>2 DEF BlocksInv
<1>9. ASSUME NEW q \in InUse, q # r PROVE PageOK(q)'
  <2>1. q \in Refs /\ page[q] \in Nat /\ blocktype[q] \in sizes /\ page[q] # page[r]
    <3>1. q \in Refs /\ page[q] \in Nat /\ blocktype[q] \in sizes /\ q \in Paged(AllRefs, page)
      BY <1>1, PageOfUsed
    <3>2. page[q] = page[r] => q = r
      BY <1>1, <1>2, <3>1, PageOfUsed
    <3> QED  BY <1>9, <3>1, <3>2
  <2>2. PageOK(q)
    BY <1>1 DEF BlocksInv
  <2>3. \A c \in Blocks(blocktype[q]) : ~ IsBlock(x, q, c)
    <3> SUFFICES ASSUME NEW c \in Blocks(blocktype[q]), IsBlock(x, q, c) PROVE FALSE
      OBVIOUS
    <3>1. c \in Nat /\ c < PAGE_SIZE /\ b \in Nat /\ b < PAGE_SIZE
      BY <1>2, <1>3, <2>1, BlockFacts
    <3>2. page[q] * PAGE_SIZE + c = page[r] * PAGE_SIZE + b
      BY <1>2 DEF IsBlock
    <3>3. PAGE_SIZE \in Nat \ {0}
      BY ConstantFacts
    <3>4. page[q] = page[r]
      BY <1>3, <2>1, <3>1, <3>2, <3>3, SplitUnique
    <3> QED  BY <2>1, <3>4
  <2>4. flist'[q] = flist[q] /\ nfree'[q] = nfree[q]
    BY <1>6, <1>9, <2>1
  <2>5. \A y \in live : \A c \in Blocks(blocktype[q]) : IsBlock(y, q, c) => y \in live'
    BY <1>2, <2>3
  <2> QED  BY <1>2, <2>2, <2>4, <2>5 DEF PageOK, IsBlock, Gone
<1>10. \A y \in live' : ~ Small(y) => ChunkOK(y)'
  <2>1. \A y \in live' : ~ Small(y) => ChunkOK(y)
    BY <1>1, <1>2 DEF BlocksInv
  <2> QED  BY <1>2, <2>1 DEF ChunkOK
<1>11. \A y, z \in live' : y.at = z.at => y = z
  BY <1>1, <1>2 DEF BlocksInv
<1>12. \A y \in live' : ~ IsBlock(y, r, b)
  BY <1>2, <1>8 DEF IsBlock
<1>13. live' \subseteq [at : Nat, len : Requests]
  BY <1>2, <1>4
<1>14. \A y \in live' : y.at \notin strays'
  BY <1>1, <1>2 DEF BlocksInv
<1>15. ASSUME NEW a \in strays
       PROVE  \E q \in InUse \ {r} : \E c \in Blocks(blocktype'[q]) :
                page'[q] >= FRAMES /\ a = page'[q] * PAGE_SIZE + c /\ c \notin ToSet(flist'[q])
  <2>1. PICK q \in InUse : \E c \in Blocks(blocktype[q]) :
          page[q] >= FRAMES /\ a = page[q] * PAGE_SIZE + c /\ c \notin ToSet(flist[q])
    BY <1>1 DEF BlocksInv, StrayOK
  <2>2. page[q] \in Nat /\ q \in Refs /\ FRAMES \in Nat
    BY <1>1, PageOfUsed, ConstantFacts
  <2>3. q # r
    BY <1>2, <1>3, <2>1, <2>2
  <2> QED  BY <1>2, <1>6, <2>1, <2>2, <2>3
<1>16. ASSUME NEW c \in Blocks(blocktype[r]), Gone(r, c) PROVE FALSE
  <2>1. c \in Nat /\ c < PAGE_SIZE
    BY <1>3, BlockFacts
  <2>2. page[r] >= FRAMES
    BY <1>1, <1>3, <1>16, <2>1, StrayPlace DEF Gone
  <2> QED  BY <1>2, <1>3, <2>2, ConstantFacts
<1> QED  BY <1>2, <1>6, <1>7, <1>9, <1>10, <1>11, <1>12, <1>13, <1>14, <1>15, <1>16

\* The page of r keeps another block of the program's.
LEMMA FreedPart ==
  ASSUME IInv, NEW x \in live, NEW r, NEW b, NEW fl, Freed(x, r, b, fl),
         nfree[r] + 1 # PAGE_SIZE \div blocktype[r], UNCHANGED <<sizebases, recycled_refs>>
  PROVE  IInv'
<1>1. TypeInv /\ RefsInv /\ PagesInv /\ BlocksInv
  BY DEF IInv
<1> DEFINE s == blocktype[r]
<1>2. /\ r \in InUse /\ b \in Blocks(s) /\ IsBlock(x, r, b) /\ Small(x)
      /\ fl \in Seq(Nat) /\ Len(fl) = nfree[r] + 1 /\ IsInjective(fl)
      /\ ToSet(fl) = {b} \cup ToSet(flist[r]) /\ ToSet(fl) \subseteq Blocks(s)
      /\ live' = live \ {x}
  BY DEF Freed
<1>3. /\ \A q \in InUse \ {r} : PageOK(q)'
      /\ \A y \in live' : ~ (IsBlock(y, r, b))
      /\ \A y \in live' : ~ Small(y) => ChunkOK(y)'
      /\ \A y, z \in live' : y.at = z.at => y = z
      /\ \A y \in live' : y.at \notin strays'
      /\ \A a \in strays' : \E q \in InUse \ {r} : \E c \in Blocks(blocktype'[q]) :
           page'[q] >= FRAMES /\ a = page'[q] * PAGE_SIZE + c /\ c \notin ToSet(flist'[q])
      /\ \A c \in Blocks(blocktype[r]) : ~ Gone(r, c)
      /\ Held' = Held
      /\ flist' \in [Refs -> Seq(Nat)] /\ nfree' \in [Refs -> Int]
      /\ live' \subseteq [at : Nat, len : Requests]
      /\ flist'[r] = fl /\ nfree'[r] = Len(fl)
      /\ \A q \in Refs \ {r} : flist'[q] = flist[q] /\ nfree'[q] = nfree[q]
      /\ page' = page /\ blocktype' = blocktype /\ brk' = brk /\ fresh_refs' = fresh_refs
      /\ bigchunks' = bigchunks /\ npages' = npages /\ strays' = strays /\ ahead' = ahead
  BY FreedRest
<1>4. r \in Refs /\ page[r] \in Nat /\ s \in sizes
  BY <1>1, <1>2, PageOfUsed
<1>5. sizebases' = sizebases /\ recycled_refs' = recycled_refs
  OBVIOUS
<1>6. InUse' = InUse /\ AllRefs' = AllRefs
  <2>1. InUse' = InUse
    BY <1>5 DEF InUse
  <2> QED  BY <1>3, <1>5, <2>1 DEF AllRefs
<1> HIDE DEF s
<1>7. PageOK(r)
  BY <1>1, <1>2 DEF BlocksInv
<1>8. /\ page[r] # 0
      /\ \A c \in Blocks(s) : c \in ToSet(flist[r]) \/ \E y \in live : IsBlock(y, r, c)
  BY <1>3, <1>7 DEF PageOK, s
<1>9. \A c \in Blocks(s) : IsBlock(x, r, c) => c = b
  <2> SUFFICES ASSUME NEW c \in Blocks(s), IsBlock(x, r, c) PROVE c = b
    OBVIOUS
  <2>1. c \in Nat /\ b \in Nat /\ page[r] * PAGE_SIZE \in Nat
    BY <1>2, <1>4, BlockFacts, ConstantFacts, Products
  <2>2. page[r] * PAGE_SIZE + c = page[r] * PAGE_SIZE + b
    BY <1>2 DEF IsBlock
  <2> QED  BY <2>1, <2>2
<1>10. \A c \in Blocks(s) : c \in ToSet(fl) \/ \E y \in live' : IsBlock(y, r, c)
  BY <1>2, <1>8, <1>9
<1>11. \E c \in Blocks(s) : c \notin ToSet(fl)
  <2>1. Len(fl) # PAGE_SIZE \div s
    BY <1>2 DEF s
  <2>2. ToSet(fl) # Blocks(s)
    BY <1>2, <1>4, <2>1, FullList
  <2> QED  BY <1>2, <2>2
<1>12. PageOK(r)'
  <2>1. \E y \in live' : \E c \in Blocks(s) : IsBlock(y, r, c)
    BY <1>10, <1>11
  <2> QED  BY <1>2, <1>3, <1>8, <1>10, <2>1 DEF PageOK, IsBlock, s
<1>13. ASSUME NEW y \in live', Small(y) PROVE BlockOK(y)'
  <2>1. y \in live
    BY <1>2
  <2>2. PICK q \in InUse : \E c \in Blocks(blocktype[q]) :
          /\ IsBlock(y, q, c) /\ c \notin ToSet(flist[q]) /\ blocktype[q] = blocktype_of(y.len)
    BY <1>1, <1>13, <2>1 DEF BlocksInv, BlockOK
  <2>3. PICK c \in Blocks(blocktype[q]) :
          /\ IsBlock(y, q, c) /\ c \notin ToSet(flist[q]) /\ blocktype[q] = blocktype_of(y.len)
    BY <2>2
  <2>4. c \notin ToSet(flist'[q])
    <3>1. CASE q = r
      BY <1>2, <1>3, <2>3, <3>1
    <3>2. CASE q # r
      BY <1>1, <1>3, <2>3, <3>2, InUseFacts
    <3> QED  BY <3>1, <3>2
  <2> QED  BY <1>3, <1>6, <2>3, <2>4 DEF BlockOK, IsBlock
<1>14. BlocksInv'
  <2>1. \A t \in sizes : \A q \in ToSet(sizebases'[t]) : blocktype'[q] = t
    BY <1>1, <1>3, <1>5 DEF BlocksInv
  <2>2. \A q \in InUse' : PageOK(q)'
    BY <1>3, <1>6, <1>12
  <2>3. \A y \in live' : (IF Small(y) THEN BlockOK(y) ELSE ChunkOK(y))'
    BY <1>3, <1>13 DEF Small
  <2>4. \A a \in strays' : StrayOK(a)'
    BY <1>3, <1>6 DEF StrayOK
  <2> QED  BY <1>3, <2>1, <2>2, <2>3, <2>4 DEF BlocksInv
<1>15. TypeInv'
  BY <1>1, <1>3, <1>5 DEF TypeInv
<1>16. RefsInv' /\ PagesInv'
  BY <1>1, <1>3, <1>5, <1>6, RefsKept, PagesKept
<1> QED  BY <1>14, <1>15, <1>16 DEF IInv

\* A reference in use is taken out of the list of its size.
LEMMA RemoveListsFacts ==
  ASSUME IInv, NEW s \in sizes, NEW r \in ToSet(sizebases[s])
  PROVE  /\ remove_lists(r, s) \in [sizes -> Seq(Refs)]
         /\ \A t \in sizes : /\ IsInjective(remove_lists(r, s)[t])
                             /\ ToSet(remove_lists(r, s)[t]) = ToSet(sizebases[t]) \ {r}
<1> DEFINE q == sizebases[s]
           i == PlaceOf(r, s)
           m == RemoveAt(q, i)
<1>1. TypeInv /\ RefsInv /\ BlocksInv
  BY DEF IInv
<1>2. sizebases \in [sizes -> Seq(Refs)] /\ q \in Seq(Refs) /\ IsInjective(q)
  BY <1>1 DEF TypeInv, RefsInv
<1>3. i \in DOMAIN q /\ q[i] = r
  <2>1. PICK k \in DOMAIN q : q[k] = r
    BY DEF ToSet
  <2>2. \A j \in 1 .. k - 1 : j \in DOMAIN q /\ j # k
    BY <1>2, <2>1
  <2>3. \A j \in 1 .. k - 1 : q[j] # r
    BY <1>2, <2>1, <2>2 DEF IsInjective
  <2>4. \E k1 \in DOMAIN q : q[k1] = r /\ \A j \in 1 .. k1 - 1 : q[j] # r
    BY <2>1, <2>3
  <2> QED  BY <2>4 DEF PlaceOf
<1> HIDE DEF i
<1>4. m \in Seq(Refs) /\ IsInjective(m) /\ ToSet(m) = ToSet(q) \ {r}
  <2> HIDE DEF q
  <2> QED  BY <1>2, <1>3, Removed
<1>5. remove_lists(r, s) = [sizebases EXCEPT ![s] = m]
  BY DEF remove_lists, i
<1> HIDE DEF m
<1>6. remove_lists(r, s) \in [sizes -> Seq(Refs)]
  BY <1>2, <1>4, <1>5
<1>7. ASSUME NEW t \in sizes
      PROVE  /\ IsInjective(remove_lists(r, s)[t])
             /\ ToSet(remove_lists(r, s)[t]) = ToSet(sizebases[t]) \ {r}
  <2>1. CASE t = s
    BY <1>2, <1>4, <1>5, <2>1
  <2>2. CASE t # s
    <3>1. remove_lists(r, s)[t] = sizebases[t]
      BY <1>2, <1>5, <2>2
    <3>2. r \notin ToSet(sizebases[t])
      BY <1>1, <2>2 DEF BlocksInv
    <3>3. IsInjective(sizebases[t])
      BY <1>1 DEF RefsInv
    <3> QED  BY <3>1, <3>2, <3>3
  <2> QED  BY <2>1, <2>2
<1> QED  BY <1>6, <1>7

\* The page of r is free as a whole and is recycled.
LEMMA FreedWhole ==
  ASSUME IInv, NEW x \in live, NEW r, NEW b, NEW fl, Freed(x, r, b, fl),
         nfree[r] + 1 = PAGE_SIZE \div blocktype[r],
         sizebases' = remove_lists(r, blocktype[r]),
         recycled_refs' = <<r>> \o recycled_refs
  PROVE  IInv'
<1>1. TypeInv /\ RefsInv /\ PagesInv /\ BlocksInv
  BY DEF IInv
<1> DEFINE s == blocktype[r]
<1>2. /\ r \in InUse /\ b \in Blocks(s) /\ IsBlock(x, r, b) /\ Small(x)
      /\ fl \in Seq(Nat) /\ Len(fl) = nfree[r] + 1 /\ IsInjective(fl)
      /\ ToSet(fl) = {b} \cup ToSet(flist[r]) /\ ToSet(fl) \subseteq Blocks(s)
      /\ live' = live \ {x}
  BY DEF Freed
<1>3. /\ \A q \in InUse \ {r} : PageOK(q)'
      /\ \A y \in live' : ~ (IsBlock(y, r, b))
      /\ \A y \in live' : ~ Small(y) => ChunkOK(y)'
      /\ \A y, z \in live' : y.at = z.at => y = z
      /\ \A y \in live' : y.at \notin strays'
      /\ \A a \in strays' : \E q \in InUse \ {r} : \E c \in Blocks(blocktype'[q]) :
           page'[q] >= FRAMES /\ a = page'[q] * PAGE_SIZE + c /\ c \notin ToSet(flist'[q])
      /\ \A c \in Blocks(blocktype[r]) : ~ Gone(r, c)
      /\ Held' = Held
      /\ flist' \in [Refs -> Seq(Nat)] /\ nfree' \in [Refs -> Int]
      /\ live' \subseteq [at : Nat, len : Requests]
      /\ flist'[r] = fl /\ nfree'[r] = Len(fl)
      /\ \A q \in Refs \ {r} : flist'[q] = flist[q] /\ nfree'[q] = nfree[q]
      /\ page' = page /\ blocktype' = blocktype /\ brk' = brk /\ fresh_refs' = fresh_refs
      /\ bigchunks' = bigchunks /\ npages' = npages /\ strays' = strays /\ ahead' = ahead
  BY FreedRest
<1>4. r \in Refs /\ page[r] \in Nat /\ s \in sizes /\ page[r] # 0
  BY <1>1, <1>2, PageOfUsed DEF BlocksInv, PageOK
<1>5. r \in ToSet(sizebases[s])
  <2>1. PICK t \in sizes : r \in ToSet(sizebases[t])
    BY <1>1, <1>2, InUseFacts
  <2>2. s = t
    BY <1>1, <2>1 DEF BlocksInv
  <2> QED  BY <2>1, <2>2
<1>6. sizebases' = remove_lists(r, s)
  OBVIOUS
<1>7. ToSet(fl) = Blocks(s)
  <2>1. Len(fl) = PAGE_SIZE \div s
    BY <1>2
  <2> QED  BY <1>2, <1>4, <2>1, FullList
<1> HIDE DEF s
<1>8. /\ sizebases' \in [sizes -> Seq(Refs)]
      /\ \A t \in sizes : /\ IsInjective(sizebases'[t])
                          /\ ToSet(sizebases'[t]) = ToSet(sizebases[t]) \ {r}
  <2>1. s \in sizes /\ r \in ToSet(sizebases[s])
    BY <1>4, <1>5
  <2>2. /\ remove_lists(r, s) \in [sizes -> Seq(Refs)]
        /\ \A t \in sizes : /\ IsInjective(remove_lists(r, s)[t])
                            /\ ToSet(remove_lists(r, s)[t]) = ToSet(sizebases[t]) \ {r}
    BY <2>1, RemoveListsFacts
  <2> QED  BY <1>6, <2>2
<1>9. InUse' = InUse \ {r}
  <2>1. \A q : q \in InUse <=> \E t \in sizes : q \in ToSet(sizebases[t])
    BY DEF InUse
  <2>2. \A q : q \in InUse' <=> \E t \in sizes : q \in ToSet(sizebases'[t])
    BY DEF InUse
  <2>3. \A t \in sizes : \A q : q \in ToSet(sizebases'[t]) <=> q \in ToSet(sizebases[t]) /\ q # r
    BY <1>8
  <2>4. ASSUME NEW q PROVE q \in InUse' <=> q \in InUse /\ q # r
    BY <2>1, <2>2, <2>3
  <2> QED  BY <2>4
<1> DEFINE old == <<r>> \o recycled_refs
<1>10. /\ recycled_refs \in Seq(Refs) /\ IsInjective(recycled_refs) /\ r \notin ToSet(recycled_refs)
       /\ r \notin ToSet(fresh_refs)
  BY <1>1, <1>2 DEF TypeInv, RefsInv, ListsApart
<1>11. /\ old \in Seq(Refs) /\ Len(old) = Len(recycled_refs) + 1 /\ old[1] = r
       /\ \A i \in 1 .. Len(recycled_refs) : old[i + 1] = recycled_refs[i]
       /\ ToSet(old) = {r} \cup ToSet(recycled_refs) /\ IsInjective(old)
  BY <1>4, <1>10, Pushed
<1>12. recycled_refs' = old
  OBVIOUS
<1> HIDE DEF old
<1>13. AllRefs' = AllRefs
  BY <1>2, <1>3, <1>9, <1>11, <1>12 DEF AllRefs
<1>14. TypeInv'
  BY <1>1, <1>3, <1>8, <1>11, <1>12 DEF TypeInv
<1>15. RefsInv'
  <2>1. ListsApart(fresh_refs, old, InUse \ {r})
    BY <1>1, <1>10, <1>11 DEF RefsInv, ListsApart
  <2>2. UnpagedLast(old, page, brk)
    <3> SUFFICES ASSUME NEW i \in DOMAIN old, page[old[i]] = 0
                 PROVE  i = Len(old) /\ brk = BASE + PAGES
      BY DEF UnpagedLast
    <3>1. i # 1
      BY <1>4, <1>11
    <3>2. /\ i - 1 \in DOMAIN recycled_refs /\ old[i] = recycled_refs[i - 1]
      <4>1. i \in 1 .. Len(recycled_refs) + 1 /\ Len(recycled_refs) \in Nat
        BY <1>10, <1>11
      <4>2. i - 1 \in 1 .. Len(recycled_refs) /\ (i - 1) + 1 = i
        BY <3>1, <4>1
      <4>3. old[(i - 1) + 1] = recycled_refs[i - 1]
        BY <1>11, <4>2
      <4> QED  BY <1>10, <4>2, <4>3
    <3>3. i - 1 = Len(recycled_refs) /\ brk = BASE + PAGES
      BY <1>1, <3>2 DEF RefsInv, UnpagedLast
    <3> QED  BY <1>10, <1>11, <3>3
  <2>3. page[r] < FRAMES
    BY DEF Freed
  <2>4. \A q \in Refs : q \notin InUse \ {r} => page[q] < FRAMES
    BY <1>1, <2>3 DEF RefsInv
  <2> QED  BY <1>1, <1>3, <1>8, <1>9, <1>12, <1>13, <2>1, <2>2, <2>4 DEF RefsInv
<1>16. PagesInv'
  BY <1>1, <1>3, <1>13, PagesKept
<1>17. ASSUME NEW y \in live', Small(y) PROVE BlockOK(y)'
  <2>1. y \in live
    BY <1>2
  <2>2. PICK q \in InUse : \E c \in Blocks(blocktype[q]) :
          /\ IsBlock(y, q, c) /\ c \notin ToSet(flist[q]) /\ blocktype[q] = blocktype_of(y.len)
    BY <1>1, <1>17, <2>1 DEF BlocksInv, BlockOK
  <2>3. PICK c \in Blocks(blocktype[q]) :
          /\ IsBlock(y, q, c) /\ c \notin ToSet(flist[q]) /\ blocktype[q] = blocktype_of(y.len)
    BY <2>2
  <2>4. q # r
    <3> SUFFICES ASSUME q = r PROVE FALSE
      OBVIOUS
    <3>1. c \in Blocks(s) /\ c \notin ToSet(flist[r]) /\ IsBlock(y, r, c)
      BY <2>3 DEF s
    <3>2. c = b
      BY <1>2, <1>7, <3>1
    <3> QED  BY <1>3, <3>1, <3>2
  <2>5. c \notin ToSet(flist'[q])
    BY <1>1, <1>3, <2>3, <2>4, InUseFacts
  <2> QED  BY <1>3, <1>9, <2>3, <2>4, <2>5 DEF BlockOK, IsBlock
<1>18. BlocksInv'
  <2>1. \A t \in sizes : \A q \in ToSet(sizebases'[t]) : blocktype'[q] = t
    BY <1>1, <1>3, <1>8 DEF BlocksInv
  <2>2. \A q \in InUse' : PageOK(q)'
    BY <1>3, <1>9
  <2>3. \A y \in live' : (IF Small(y) THEN BlockOK(y) ELSE ChunkOK(y))'
    BY <1>3, <1>17 DEF Small
  <2>4. \A a \in strays' : StrayOK(a)'
    BY <1>3, <1>9 DEF StrayOK
  <2> QED  BY <1>3, <2>1, <2>2, <2>3, <2>4 DEF BlocksInv
<1> QED  BY <1>14, <1>15, <1>16, <1>18 DEF IInv

LEMMA SubpageFreeStep ==
  ASSUME IInv, NEW x \in live, NEW r \in Owners(x.at), subpage_kfree(x, r)
  PROVE  IInv'
<1>1. PICK b, fl : Freed(x, r, b, fl)
  BY SubpageFreeFacts
<1>2. CASE nfree[r] + 1 # PAGE_SIZE \div blocktype[r]
  <2>1. UNCHANGED <<sizebases, recycled_refs>>
    BY <1>2, SubpageFreeFacts
  <2> QED  BY <1>1, <1>2, <2>1, FreedPart
<1>3. CASE nfree[r] + 1 = PAGE_SIZE \div blocktype[r]
  <2>1. sizebases' = remove_lists(r, blocktype[r]) /\ recycled_refs' = <<r>> \o recycled_refs
    BY <1>3, SubpageFreeFacts
  <2> QED  BY <1>1, <1>3, <2>1, FreedWhole
<1> QED  BY <1>2, <1>3

-----------------------------------------------------------------------------
(* Chunks. *)

\* Enough pages for the bytes and the first word.
LEMMA PagesForFacts ==
  ASSUME NEW sz \in Requests
  PROVE  PagesFor(sz) \in Nat \ {0} /\ sz + SMALLEST <= PagesFor(sz) * PAGE_SIZE
<1> DEFINE a == sz + SMALLEST + PAGE_SIZE - 1
           n == a \div PAGE_SIZE
           p == n * PAGE_SIZE
<1>1. /\ sz \in Nat \ {0} /\ SMALLEST \in Nat \ {0} /\ PAGE_SIZE \in Nat \ {0}
  BY ConstantFacts, SmallestFacts
<1>2. a \in Nat /\ a >= PAGE_SIZE
  BY <1>1
<1>3. n \in Nat /\ a % PAGE_SIZE \in 0 .. PAGE_SIZE - 1 /\ a = p + (a % PAGE_SIZE)
  <2> HIDE DEF a
  <2> QED  BY <1>1, <1>2, Division
<1>4. PagesFor(sz) = n
  BY DEF PagesFor
<1>5. p \in Nat /\ (n = 0 => p = 0)
  BY <1>1, <1>3, Products
<1> HIDE DEF n, p
<1>6. n # 0
  BY <1>1, <1>2, <1>3, <1>5
<1>7. sz + SMALLEST <= p
  BY <1>1, <1>3, <1>5
<1> QED  BY <1>3, <1>4, <1>6, <1>7 DEF p

\* The pages of blocks are not in a chunk.
LEMMA NotInChunk ==
  ASSUME TypeInv, PagesInv, BlocksInv, NEW c \in Heads, NEW f \in Nat, c <= f, f < c + npages[c]
  PROVE  \A q \in InUse : page[q] # f
<1> SUFFICES ASSUME NEW q \in InUse, page[q] = f PROVE FALSE
  OBVIOUS
<1>1. q \in Paged(AllRefs, page)
  BY PageOfUsed
<1>2. ~ (c <= page[q] /\ page[q] < c + npages[c])
  BY <1>1, DivisionFacts DEF Divided, Partition
<1> QED  BY <1>2

\* The chunk at f is handed out.
GivesChunk(f, sz) ==
  /\ live' = live \cup {[at |-> f * PAGE_SIZE + SMALLEST, len |-> sz]}
  /\ UNCHANGED refVars
  /\ npages'[f] = PagesFor(sz) /\ \A c \in Held : npages'[c] = npages[c]
  /\ strays' = strays

LEMMA GivesChunkFacts ==
  ASSUME IInv, NEW sz \in Requests, sz >= LARGEST, NEW f \in Frames, f \notin Held,
         \A q \in InUse : page[q] # f, GivesChunk(f, sz)
  PROVE  /\ BlocksInv' /\ Held' = Held \cup {f} /\ InUse' = InUse /\ AllRefs' = AllRefs
         /\ live' \subseteq [at : Nat, len : Requests]
<1> DEFINE y == [at |-> f * PAGE_SIZE + SMALLEST, len |-> sz]
<1>1. TypeInv /\ PagesInv /\ BlocksInv
  BY DEF IInv
<1>2. /\ f \in Nat /\ PAGE_SIZE \in Nat \ {0} /\ SMALLEST \in Nat /\ SMALLEST < PAGE_SIZE
      /\ f * PAGE_SIZE \in Nat
  BY FrameFacts, ConstantFacts, SmallestFacts, Products
<1>3. y.at = f * PAGE_SIZE + SMALLEST /\ y.len = sz /\ y.at \in Nat
  BY <1>2
<1>4. live' = live \cup {y} /\ live' \subseteq [at : Nat, len : Requests]
  BY <1>1, <1>3 DEF GivesChunk, TypeInv
<1> HIDE DEF y
<1>5. y.at \div PAGE_SIZE = f
  <2> DEFINE a == y.at
             p == f * PAGE_SIZE
  <2>1. a \in Nat /\ p <= a /\ a < p + PAGE_SIZE
    <3>1. a = p + SMALLEST /\ p \in Nat
      BY <1>2, <1>3
    <3> HIDE DEF a, p
    <3> QED  BY <1>2, <3>1
  <2> HIDE DEF a
  <2>2. a \div PAGE_SIZE = f
    BY <1>2, <2>1, Quotient
  <2> QED  BY <2>2 DEF a
<1>6. ~ Small(y)
  BY <1>3, LargestFacts, ConstantFacts DEF Small
<1>7. /\ sizebases' = sizebases /\ page' = page /\ blocktype' = blocktype
      /\ flist' = flist /\ nfree' = nfree /\ fresh_refs' = fresh_refs
      /\ recycled_refs' = recycled_refs /\ strays' = strays
  BY DEF GivesChunk, refVars
<1>8. Held' = Held \cup {f}
  <2>1. \A x : x \in live' /\ ~ Small(x) <=> (x \in live /\ ~ Small(x)) \/ x = y
    BY <1>4, <1>6
  <2>2. Held' = {x.at \div PAGE_SIZE : x \in {x \in live' : ~ Small(x)}}
    BY DEF Held, Small
  <2>3. {x \in live' : ~ Small(x)} = {x \in live : ~ Small(x)} \cup {y}
    BY <2>1
  <2> QED  BY <1>5, <2>2, <2>3 DEF Held
<1>9. InUse' = InUse /\ AllRefs' = AllRefs
  BY <1>7 DEF InUse, AllRefs
<1>10. \A x \in live : x.at # y.at
  <2> SUFFICES ASSUME NEW x \in live, x.at = f * PAGE_SIZE + SMALLEST PROVE FALSE
    BY <1>3
  <2>1. Small(x)
    BY <1>1, <1>2, PlaceOfBlock
  <2>2. \E q \in InUse : page[q] = f
    BY <1>1, <1>2, <2>1, PlaceOfBlock
  <2> QED  BY <2>2
<1>11. ChunkOK(y)'
  <2>1. npages'[f] = PagesFor(sz)
    BY DEF GivesChunk
  <2> QED  BY <1>3, <1>5, <2>1, PagesForFacts DEF ChunkOK
<1>12. ASSUME NEW x \in live, ~ Small(x) PROVE ChunkOK(x)'
  <2>1. ChunkOK(x) /\ x.at \div PAGE_SIZE \in Held
    BY <1>1, <1>12 DEF BlocksInv, Held
  <2>2. npages'[x.at \div PAGE_SIZE] = npages[x.at \div PAGE_SIZE]
    BY <2>1 DEF GivesChunk
  <2> QED  BY <2>1, <2>2 DEF ChunkOK
<1>13. ASSUME NEW x \in live, Small(x) PROVE BlockOK(x)'
  <2>1. BlockOK(x)
    BY <1>1, <1>13 DEF BlocksInv
  <2> QED  BY <1>7, <1>9, <2>1 DEF BlockOK, IsBlock
<1>14. ASSUME NEW q \in InUse PROVE PageOK(q)'
  <2>1. PageOK(q)
    BY <1>1 DEF BlocksInv
  <2> QED  BY <1>4, <1>7, <2>1 DEF PageOK, IsBlock, Gone
<1>15. \A x \in live' : (IF Small(x) THEN BlockOK(x) ELSE ChunkOK(x))'
  BY <1>4, <1>6, <1>11, <1>12, <1>13 DEF Small
<1>16. \A x, z \in live' : x.at = z.at => x = z
  BY <1>1, <1>4, <1>10 DEF BlocksInv
<1>17. \A t \in sizes : \A q \in ToSet(sizebases'[t]) : blocktype'[q] = t
  BY <1>1, <1>7 DEF BlocksInv
<1>18. \A a \in strays' : StrayOK(a)'
  BY <1>1, <1>7, <1>9 DEF BlocksInv, StrayOK
<1>19. \A x \in live' : x.at \notin strays'
  <2>1. y.at \notin strays
    <3> SUFFICES ASSUME f * PAGE_SIZE + SMALLEST \in strays PROVE FALSE
      BY <1>3
    <3>1. \E q \in InUse : page[q] = f
      BY <1>1, <1>2, StrayPlace
    <3> QED  BY <3>1
  <2> QED  BY <1>1, <1>4, <1>7, <2>1 DEF BlocksInv
<1>20. BlocksInv'
  BY <1>9, <1>14, <1>15, <1>16, <1>17, <1>18, <1>19 DEF BlocksInv
<1> QED  BY <1>4, <1>8, <1>9, <1>20

\* A chunk of the right size is taken off the list.
LEMMA ExactStep ==
  ASSUME IInv, NEW sz \in Requests, sz >= LARGEST, NEW i \in DOMAIN bigchunks,
         npages[bigchunks[i]] = PagesFor(sz), bigchunks' = RemoveAt(bigchunks, i),
         live' = live \cup {[at |-> bigchunks[i] * PAGE_SIZE + SMALLEST, len |-> sz]},
         ahead' = IF i <= ahead THEN ahead - 1 ELSE ahead,
         UNCHANGED npages, UNCHANGED <<brk, refVars, strays>>
  PROVE  IInv'
<1> DEFINE c == bigchunks[i]
           m == RemoveAt(bigchunks, i)
<1>1. TypeInv /\ RefsInv /\ PagesInv /\ BlocksInv
  BY DEF IInv
<1>2. /\ bigchunks \in Seq(Frames) /\ IsInjective(bigchunks) /\ c \in ToSet(bigchunks)
      /\ c \in Frames /\ Held \cap ToSet(bigchunks) = {}
  BY <1>1 DEF TypeInv, PagesInv, ToSet
<1>3. m \in Seq(Frames) /\ IsInjective(m) /\ ToSet(m) = ToSet(bigchunks) \ {c}
  BY <1>2, Removed
<1>4. GivesChunk(c, sz)
  BY DEF GivesChunk
<1>5. bigchunks' = m
  OBVIOUS
<1> HIDE DEF c, m
<1>6. c \in Heads /\ c \notin Held /\ c \in Nat /\ npages[c] \in Nat /\ 1 <= npages[c]
  BY <1>1, <1>2, DivisionFacts DEF Heads
<1>7. \A q \in InUse : page[q] # c
  BY <1>1, <1>6, NotInChunk
<1>8. /\ BlocksInv' /\ Held' = Held \cup {c} /\ InUse' = InUse /\ AllRefs' = AllRefs
      /\ live' \subseteq [at : Nat, len : Requests]
  BY <1>2, <1>4, <1>6, <1>7, GivesChunkFacts
<1>9. TypeInv'
  <2>1. ahead' \in Nat
    <3>1. i \in Nat \ {0} /\ ahead \in Nat
      BY <1>1, <1>2 DEF TypeInv
    <3> QED  BY <3>1
  <2> QED  BY <1>1, <1>3, <1>5, <1>8, <2>1 DEF TypeInv, refVars
<1>10. RefsInv'
  BY <1>1, RefsKept DEF refVars
<1>11. PagesInv'
  <2>1. Held' \cup ToSet(m) = Held \cup ToSet(bigchunks)
    BY <1>2, <1>3, <1>8
  <2>2. Held' \cap ToSet(m) = {}
    BY <1>2, <1>3, <1>8
  <2>3. page' = page /\ brk' = brk /\ npages' = npages
    BY DEF refVars
  <2> QED  BY <1>1, <1>3, <1>5, <1>8, <2>1, <2>2, <2>3 DEF PagesInv
<1> QED  BY <1>8, <1>9, <1>10, <1>11 DEF IInv

\* The end of a larger chunk is cut off.
LEMMA CarveStep ==
  ASSUME IInv, NEW sz \in Requests, sz >= LARGEST, NEW c \in ToSet(bigchunks),
         NEW n, n = PagesFor(sz), npages[c] > n, NEW e, e = CarvedAt(c, n),
         npages' = [npages EXCEPT ![c] = @ - n, ![e] = n],
         live' = live \cup {[at |-> e * PAGE_SIZE + SMALLEST, len |-> sz]},
         UNCHANGED <<bigchunks, ahead>>, UNCHANGED <<brk, refVars, strays>>
  PROVE  IInv'
<1>1. TypeInv /\ RefsInv /\ PagesInv /\ BlocksInv
  BY DEF IInv
<1>2. n \in Nat \ {0}
  BY PagesForFacts
<1>3. /\ Divided(RefPages(AllRefs), Paged(AllRefs, page), page, Heads, npages, brk)
      /\ Heads \subseteq Frames /\ Heads \subseteq Nat
      /\ brk \in Nat /\ BASE \in Nat /\ PAGES \in Nat
      /\ c \in Heads /\ c \in Frames /\ c \in Nat /\ npages[c] \in Nat /\ c + npages[c] <= brk
      /\ c \notin Held /\ brk <= BASE + PAGES /\ BASE <= c
  BY <1>1, DivisionFacts, FrameFacts DEF Heads, PagesInv
<1>4. e = c + npages[c] - n /\ n < npages[c]
  BY <1>2, <1>3 DEF CarvedAt
<1>5. e \in Nat /\ c < e /\ e < c + npages[c] /\ npages[c] - n \in Nat
  BY <1>2, <1>3, <1>4
<1>6. e \in Frames
  BY <1>3, <1>5, FrameFacts
<1>7. npages \in [Frames -> Nat]
  BY <1>1 DEF TypeInv
<1>8. /\ npages' \in [Frames -> Nat] /\ npages'[c] = npages[c] - n /\ npages'[e] = n
      /\ \A d \in Frames \ {c, e} : npages'[d] = npages[d]
  BY <1>2, <1>3, <1>5, <1>6, <1>7
<1>9. /\ e \notin Heads
      /\ \A d \in Heads \ {c} : npages'[d] = npages[d]
  <2>1. e \notin Heads
    <3> SUFFICES ASSUME e \in Heads PROVE FALSE
      OBVIOUS
    <3>1. c + npages[c] <= e
      BY <1>3, <1>5 DEF Divided, Partition
    <3> QED  BY <1>3, <1>5, <3>1
  <2> QED  BY <1>3, <1>8, <2>1
<1>10. Divided(RefPages(AllRefs), Paged(AllRefs, page), page, Heads \cup {e}, npages', brk)
  <2> DEFINE P == RefPages(AllRefs)
             C == Paged(AllRefs, page)
             H == Heads
             pg == page
             np == npages
             np2 == npages'
             top == brk
  <2>1. /\ Divided(P, C, pg, H, np, top) /\ c \in H /\ n \in Nat \ {0} /\ n < np[c]
        /\ e = c + np[c] - n /\ np2[c] = np[c] - n /\ np2[e] = n
        /\ \A d \in H \ {c} : np2[d] = np[d]
    BY <1>2, <1>3, <1>4, <1>8, <1>9
  <2> HIDE DEF P, C, H, pg, np, np2, top
  <2>2. Divided(P, C, pg, H \cup {e}, np2, top)
    BY <2>1, CutsChunk
  <2> QED  BY <2>2 DEF P, C, H, pg, np, np2, top
<1>11. \A q \in InUse : page[q] # e
  BY <1>1, <1>3, <1>5, NotInChunk
<1>12. GivesChunk(e, sz)
  <2>1. \A d \in Held : npages'[d] = npages[d]
    BY <1>3, <1>9 DEF Heads
  <2> QED  BY <1>8, <2>1 DEF GivesChunk
<1>13. /\ BlocksInv' /\ Held' = Held \cup {e} /\ InUse' = InUse /\ AllRefs' = AllRefs
       /\ live' \subseteq [at : Nat, len : Requests]
  <2>1. e \notin Held
    BY <1>9 DEF Heads
  <2> QED  BY <1>6, <1>11, <1>12, <2>1, GivesChunkFacts
<1>14. TypeInv'
  BY <1>1, <1>8, <1>13 DEF TypeInv, refVars
<1>15. RefsInv'
  BY <1>1, RefsKept DEF refVars
<1>16. PagesInv'
  <2>1. Held' \cup ToSet(bigchunks) = Heads \cup {e}
    BY <1>13 DEF Heads
  <2>2. Held' \cap ToSet(bigchunks) = {}
    BY <1>1, <1>9, <1>13 DEF Heads, PagesInv
  <2>3. page' = page /\ brk' = brk /\ bigchunks' = bigchunks
    BY DEF refVars
  <2> QED  BY <1>1, <1>10, <1>13, <2>1, <2>2, <2>3 DEF PagesInv
<1> QED  BY <1>13, <1>14, <1>15, <1>16 DEF IInv

\* No chunk is large enough: the segment grows.
LEMMA GrowStep ==
  ASSUME IInv, NEW sz \in Requests, sz >= LARGEST, NEW n, n = PagesFor(sz), mem_sbrk(brk, n),
         brk' = brk + n, npages' = [npages EXCEPT ![brk] = n],
         live' = live \cup {[at |-> brk * PAGE_SIZE + SMALLEST, len |-> sz]},
         UNCHANGED <<refVars, bigchunks, strayVars>>
  PROVE  IInv'
<1>1. TypeInv /\ RefsInv /\ PagesInv /\ BlocksInv
  BY DEF IInv
<1>2. n \in Nat \ {0}
  BY PagesForFacts
<1>3. /\ Divided(RefPages(AllRefs), Paged(AllRefs, page), page, Heads, npages, brk)
      /\ Heads \subseteq Frames /\ Heads \subseteq Nat
      /\ brk \in Nat /\ BASE \in Nat /\ PAGES \in Nat /\ BASE <= brk
      /\ \A c \in Heads : npages[c] \in Nat /\ 1 <= npages[c] /\ c + npages[c] <= brk
  BY <1>1, DivisionFacts
<1>4. brk + n <= BASE + PAGES
  BY DEF mem_sbrk
<1>5. brk \in Frames
  BY <1>2, <1>3, <1>4, FrameFacts
<1>6. brk \notin Heads
  <2> SUFFICES ASSUME brk \in Heads PROVE FALSE
    OBVIOUS
  <2>1. npages[brk] \in Nat /\ 1 <= npages[brk] /\ brk + npages[brk] <= brk
    BY <1>3
  <2> QED  BY <1>3, <2>1
<1>7. npages \in [Frames -> Nat]
  BY <1>1 DEF TypeInv
<1>8. /\ npages' \in [Frames -> Nat] /\ npages'[brk] = n
      /\ \A d \in Heads : npages'[d] = npages[d]
  BY <1>2, <1>3, <1>5, <1>6, <1>7
<1>9. Divided(RefPages(AllRefs), Paged(AllRefs, page), page, Heads \cup {brk}, npages', brk + n)
  BY <1>2, <1>3, <1>8, GainsChunk
<1>10. \A q \in InUse : page[q] # brk
  <2> SUFFICES ASSUME NEW q \in InUse PROVE page[q] # brk
    OBVIOUS
  <2>1. page[q] \in Nat /\ page[q] < brk
    BY <1>1, PageOfUsed
  <2> QED  BY <1>3, <2>1
<1>11. GivesChunk(brk, sz)
  BY <1>8 DEF GivesChunk, Heads, strayVars
<1>12. /\ BlocksInv' /\ Held' = Held \cup {brk} /\ InUse' = InUse /\ AllRefs' = AllRefs
       /\ live' \subseteq [at : Nat, len : Requests]
  <2>1. brk \notin Held
    BY <1>6 DEF Heads
  <2> QED  BY <1>5, <1>10, <1>11, <2>1, GivesChunkFacts
<1>13. /\ sizebases' = sizebases /\ page' = page /\ blocktype' = blocktype
       /\ flist' = flist /\ nfree' = nfree /\ fresh_refs' = fresh_refs
       /\ recycled_refs' = recycled_refs /\ bigchunks' = bigchunks
       /\ strays' = strays /\ ahead' = ahead
  BY DEF refVars, strayVars
<1>14. TypeInv'
  <2>1. brk' \in BASE .. BASE + PAGES
    BY <1>2, <1>3, <1>4
  <2> QED  BY <1>1, <1>8, <1>12, <1>13, <2>1 DEF TypeInv
<1>15. RefsInv'
  <2>1. UnpagedLast(recycled_refs, page, brk')
    <3>1. brk # BASE + PAGES
      BY <1>2, <1>3, <1>4
    <3> QED  BY <1>1, <3>1 DEF RefsInv, UnpagedLast
  <2> QED  BY <1>1, <1>12, <1>13, <2>1 DEF RefsInv
<1>16. PagesInv'
  <2>1. Held' \cup ToSet(bigchunks) = Heads \cup {brk}
    BY <1>12 DEF Heads
  <2>2. Held' \cap ToSet(bigchunks) = {}
    BY <1>1, <1>6, <1>12 DEF Heads, PagesInv
  <2> QED  BY <1>1, <1>9, <1>12, <1>13, <2>1, <2>2 DEF PagesInv
<1> QED  BY <1>12, <1>14, <1>15, <1>16 DEF IInv

LEMMA FromChunkStep ==
  ASSUME IInv, NEW sz \in Requests, sz >= LARGEST, FromChunk(PagesFor(sz), sz)
  PROVE  IInv'
<1> DEFINE n == PagesFor(sz)
<1>1. PICK i \in DOMAIN bigchunks :
        LET c == bigchunks[i] IN
        /\ \/ /\ npages[c] > n
              /\ npages' = [npages EXCEPT ![c] = @ - n, ![CarvedAt(c, n)] = n]
              /\ live' = live \cup {[at |-> CarvedAt(c, n) * PAGE_SIZE + SMALLEST, len |-> sz]}
              /\ UNCHANGED <<bigchunks, ahead>>
           \/ /\ npages[c] = n
              /\ bigchunks' = RemoveAt(bigchunks, i)
              /\ ahead' = IF i <= ahead THEN ahead - 1 ELSE ahead
              /\ live' = live \cup {[at |-> c * PAGE_SIZE + SMALLEST, len |-> sz]}
              /\ UNCHANGED npages
        /\ UNCHANGED <<brk, refVars, strays, wild>>
  BY DEF FromChunk, Give
<1> DEFINE c == bigchunks[i]
           e == CarvedAt(c, n)
<1>2. CASE npages[c] > n /\ npages' = [npages EXCEPT ![c] = @ - n, ![e] = n]
           /\ live' = live \cup {[at |-> e * PAGE_SIZE + SMALLEST, len |-> sz]}
           /\ UNCHANGED <<bigchunks, ahead>>
  <2>1. c \in ToSet(bigchunks)
    BY DEF ToSet
  <2>2. UNCHANGED <<brk, refVars, strays>>
    BY <1>1
  <2>3. e = CarvedAt(c, n) /\ n = PagesFor(sz)
    OBVIOUS
  <2> HIDE DEF c, e, n
  <2> QED  BY <1>2, <2>1, <2>2, <2>3, CarveStep
<1>3. CASE npages[c] = n /\ bigchunks' = RemoveAt(bigchunks, i)
           /\ ahead' = (IF i <= ahead THEN ahead - 1 ELSE ahead)
           /\ live' = live \cup {[at |-> c * PAGE_SIZE + SMALLEST, len |-> sz]}
           /\ UNCHANGED npages
  <2>1. UNCHANGED <<brk, refVars, strays>>
    BY <1>1
  <2> QED  BY <1>3, <2>1, ExactStep
<1> QED  BY <1>1, <1>2, <1>3

\* A request for a chunk that is not given a stray block.
LEMMA BigMallocStep ==
  ASSUME IInv, NEW sz \in Requests, sz >= LARGEST, big_kmalloc(sz)
  PROVE  wild' \/ IInv'
<1> DEFINE n == PagesFor(sz)
<1>1. CASE FromChunk(n, sz)
  BY <1>1, FromChunkStep
<1>2. CASE FromSbrk(n, sz)
  <2>1. /\ mem_sbrk(brk, n) /\ brk' = brk + n /\ npages' = [npages EXCEPT ![brk] = n]
        /\ live' = live \cup {[at |-> brk * PAGE_SIZE + SMALLEST, len |-> sz]}
        /\ UNCHANGED <<refVars, bigchunks, strayVars>>
    BY <1>2 DEF FromSbrk, Give
  <2> QED  BY <2>1, GrowStep
<1>3. CASE FromStray(n, sz)
  BY <1>3 DEF FromStray
<1> QED  BY <1>1, <1>2, <1>3 DEF big_kmalloc

\* A chunk given back goes to the front of the list of free chunks.
LEMMA BigFreeStep ==
  ASSUME IInv, NEW x \in live, ~ Small(x), big_kfree(x)
  PROVE  IInv'
<1> DEFINE c == x.at \div PAGE_SIZE
           m == <<c>> \o bigchunks
<1>1. TypeInv /\ RefsInv /\ PagesInv /\ BlocksInv
  BY DEF IInv
<1>2. PAGE_SIZE \in Nat \ {0} /\ x.at \in Nat /\ SMALLEST \in Nat /\ SMALLEST < PAGE_SIZE
  BY <1>1, ConstantFacts, SmallestFacts DEF TypeInv
<1>3. c \in Nat
  BY <1>2, Division
<1>4. x.at = c * PAGE_SIZE + SMALLEST /\ c \in Held
  BY <1>1 DEF BlocksInv, ChunkOK, Held
<1>5. (x.at - SMALLEST) \div PAGE_SIZE = c
  <2> DEFINE a == x.at - SMALLEST
             p == c * PAGE_SIZE
  <2> HIDE DEF c
  <2>1. p \in Nat
    BY <1>2, <1>3, Products
  <2>2. a = p
    <3>1. x.at = p + SMALLEST
      BY <1>4
    <3> HIDE DEF p
    <3> QED  BY <1>2, <2>1, <3>1
  <2>3. p <= p /\ p < p + PAGE_SIZE
    <3> HIDE DEF p
    <3> QED  BY <1>2, <2>1
  <2>4. p \div PAGE_SIZE = c
    BY <1>2, <1>3, <2>1, <2>3, Quotient
  <2> QED  BY <2>2, <2>4
<1>6. /\ bigchunks' = m /\ live' = live \ {x} /\ UNCHANGED <<brk, refVars, npages>>
      /\ strays' = strays /\ ahead' = IF strays = {} THEN 0 ELSE ahead + 1
  BY <1>5 DEF big_kfree
<1>7. \A y \in live : ~ Small(y) /\ y.at \div PAGE_SIZE = c => y = x
  <2> SUFFICES ASSUME NEW y \in live, ~ Small(y), y.at \div PAGE_SIZE = c PROVE y = x
    OBVIOUS
  <2>1. y.at = (y.at \div PAGE_SIZE) * PAGE_SIZE + SMALLEST
    BY <1>1 DEF BlocksInv, ChunkOK
  <2>2. y.at = x.at
    BY <1>4, <2>1
  <2> QED  BY <1>1, <2>2 DEF BlocksInv
<1> HIDE DEF c, m
<1>8. Held' = Held \ {c}
  <2>1. Held' = {y.at \div PAGE_SIZE : y \in {y \in live' : ~ Small(y)}}
    BY DEF Held, Small
  <2>2. Held = {y.at \div PAGE_SIZE : y \in {y \in live : ~ Small(y)}}
    BY DEF Held
  <2>3. \A f : f \in Held' <=> \E y \in live' : ~ Small(y) /\ y.at \div PAGE_SIZE = f
    BY <2>1
  <2>4. \A f : f \in Held <=> \E y \in live : ~ Small(y) /\ y.at \div PAGE_SIZE = f
    BY <2>2
  <2>5. x.at \div PAGE_SIZE = c
    BY DEF c
  <2>6. \A f : f \in Held' <=> f \in Held /\ f # c
    BY <1>6, <1>7, <2>3, <2>4, <2>5
  <2> QED  BY <2>6
<1>9. /\ bigchunks \in Seq(Frames) /\ IsInjective(bigchunks) /\ c \notin ToSet(bigchunks)
      /\ Held \cap ToSet(bigchunks) = {}
  BY <1>1, <1>4 DEF TypeInv, PagesInv
<1>10. c \in Frames
  BY <1>1, <1>4, DivisionFacts DEF Heads
<1>11. m \in Seq(Frames) /\ IsInjective(m) /\ ToSet(m) = {c} \cup ToSet(bigchunks)
  BY <1>9, <1>10, Pushed DEF m
<1>12. /\ sizebases' = sizebases /\ page' = page /\ blocktype' = blocktype
       /\ flist' = flist /\ nfree' = nfree /\ fresh_refs' = fresh_refs
       /\ recycled_refs' = recycled_refs /\ brk' = brk /\ npages' = npages
  BY <1>6 DEF refVars
<1>13. InUse' = InUse /\ AllRefs' = AllRefs
  BY <1>12 DEF InUse, AllRefs
<1>14. TypeInv'
  <2>1. ahead' \in Nat
    BY <1>1, <1>6 DEF TypeInv
  <2> QED  BY <1>1, <1>6, <1>11, <1>12, <2>1 DEF TypeInv
<1>15. RefsInv'
  BY <1>1, <1>12, RefsKept
<1>16. PagesInv'
  <2>1. Held' \cup ToSet(m) = Held \cup ToSet(bigchunks)
    BY <1>4, <1>8, <1>11
  <2>2. Held' \cap ToSet(m) = {}
    BY <1>8, <1>9, <1>11
  <2> QED  BY <1>1, <1>6, <1>11, <1>12, <1>13, <2>1, <2>2 DEF PagesInv
<1>17. ASSUME NEW q \in InUse PROVE PageOK(q)'
  <2>1. PageOK(q) /\ page[q] \in Nat /\ page[q] \notin Held /\ blocktype[q] \in sizes
    BY <1>1, PageOfUsed DEF BlocksInv
  <2>2. \A b \in Blocks(blocktype[q]) : ~ IsBlock(x, q, b)
    <3> SUFFICES ASSUME NEW b \in Blocks(blocktype[q]), IsBlock(x, q, b) PROVE FALSE
      OBVIOUS
    <3>1. b \in Nat /\ b < PAGE_SIZE /\ x.at = page[q] * PAGE_SIZE + b
      BY <2>1, BlockFacts DEF IsBlock
    <3>2. page[q] \in Held
      BY <1>1, <2>1, <3>1, PlaceOfBlock
    <3> QED  BY <2>1, <3>2
  <2>3. \A y \in live : \A b \in Blocks(blocktype[q]) : IsBlock(y, q, b) => y \in live'
    BY <1>6, <2>2
  <2> QED  BY <1>6, <1>12, <2>1, <2>3 DEF PageOK, IsBlock, Gone
<1>18. \A y \in live' : (IF Small(y) THEN BlockOK(y) ELSE ChunkOK(y))'
  <2> SUFFICES ASSUME NEW y \in live' PROVE (IF Small(y) THEN BlockOK(y) ELSE ChunkOK(y))'
    OBVIOUS
  <2>1. IF Small(y) THEN BlockOK(y) ELSE ChunkOK(y)
    BY <1>1, <1>6 DEF BlocksInv
  <2> QED  BY <1>12, <1>13, <2>1 DEF BlockOK, ChunkOK, IsBlock, Small
<1>19. BlocksInv'
  <2>1. \A y, z \in live' : y.at = z.at => y = z
    BY <1>1, <1>6 DEF BlocksInv
  <2>2. \A t \in sizes : \A q \in ToSet(sizebases'[t]) : blocktype'[q] = t
    BY <1>1, <1>12 DEF BlocksInv
  <2>3. \A a \in strays' : StrayOK(a)'
    BY <1>1, <1>6, <1>12, <1>13 DEF BlocksInv, StrayOK
  <2>4. \A y \in live' : y.at \notin strays'
    BY <1>1, <1>6 DEF BlocksInv
  <2> QED  BY <1>13, <1>17, <1>18, <2>1, <2>2, <2>3, <2>4 DEF BlocksInv
<1> QED  BY <1>14, <1>15, <1>16, <1>19 DEF IInv

\* A small block that is not found on a page goes astray.
LEMMA StrayFreeStep ==
  ASSUME IInv, NEW x \in live, Small(x), Owners(x.at) = {}, big_kfree(x)
  PROVE  IInv'
<1>1. TypeInv /\ RefsInv /\ PagesInv /\ BlocksInv
  BY DEF IInv
<1>2. /\ strays' = strays \cup {x.at} /\ ahead' = 0 /\ bigchunks' = bigchunks
      /\ live' = live \ {x} /\ npages' = npages /\ brk' = brk
      /\ sizebases' = sizebases /\ page' = page /\ blocktype' = blocktype
      /\ flist' = flist /\ nfree' = nfree /\ fresh_refs' = fresh_refs
      /\ recycled_refs' = recycled_refs
  BY DEF big_kfree, refVars
<1>3. PICK r \in InUse : \E b \in Blocks(blocktype[r]) :
        /\ Owners(x.at) = IF page[r] < FRAMES THEN {r} ELSE {}
        /\ IsBlock(x, r, b) /\ b \notin ToSet(flist[r])
  BY <1>1, OwnersFacts
<1>4. PICK b \in Blocks(blocktype[r]) :
        /\ Owners(x.at) = IF page[r] < FRAMES THEN {r} ELSE {}
        /\ IsBlock(x, r, b) /\ b \notin ToSet(flist[r])
  BY <1>3
<1>5. /\ page[r] \in Nat /\ blocktype[r] \in sizes /\ FRAMES \in Nat
      /\ PAGE_SIZE \in Nat \ {0}
  BY <1>1, PageOfUsed, ConstantFacts
<1>6. page[r] >= FRAMES
  BY <1>4, <1>5
<1>7. b \in Nat /\ b < PAGE_SIZE /\ x.at = page[r] * PAGE_SIZE + b
  BY <1>4, <1>5, BlockFacts DEF IsBlock
<1>8. InUse' = InUse /\ AllRefs' = AllRefs /\ Held' = Held
  BY <1>2 DEF InUse, AllRefs, Held, Small
<1>9. TypeInv'
  BY <1>1, <1>2 DEF TypeInv
<1>10. RefsInv' /\ PagesInv'
  BY <1>1, <1>2, <1>8, RefsKept, PagesKept
<1>11. ASSUME NEW q \in InUse PROVE PageOK(q)'
  <2>1. PageOK(q) /\ page[q] \in Nat /\ blocktype[q] \in sizes
    BY <1>1, PageOfUsed DEF BlocksInv
  <2>2. \A c \in Blocks(blocktype[q]) : IsBlock(x, q, c) => page[q] = page[r]
    <3> SUFFICES ASSUME NEW c \in Blocks(blocktype[q]), IsBlock(x, q, c) PROVE page[q] = page[r]
      OBVIOUS
    <3>1. c \in Nat /\ c < PAGE_SIZE /\ page[q] * PAGE_SIZE + c = page[r] * PAGE_SIZE + b
      BY <1>7, <2>1, BlockFacts DEF IsBlock
    <3> QED  BY <1>5, <1>7, <2>1, <3>1, SplitUnique
  <2>3. /\ page'[q] # 0 /\ nfree'[q] = Len(flist'[q]) /\ IsInjective(flist'[q])
        /\ ToSet(flist'[q]) \subseteq Blocks(blocktype'[q])
    BY <1>2, <2>1 DEF PageOK
  <2>4. \A c \in Blocks(blocktype[q]) :
          \/ c \in ToSet(flist[q]) \/ page[q] * PAGE_SIZE + c \in strays'
          \/ \E y \in live' : IsBlock(y, q, c)
    BY <1>2, <2>1 DEF PageOK, IsBlock, Gone
  <2>5. ASSUME page[q] < FRAMES
        PROVE  \E y \in live' : \E c \in Blocks(blocktype[q]) : IsBlock(y, q, c)
    <3>1. page[q] # page[r]
      BY <1>5, <1>6, <2>1, <2>5
    <3> QED  BY <1>2, <2>1, <2>2, <2>5, <3>1 DEF PageOK
  <2> QED  BY <1>2, <2>3, <2>4, <2>5 DEF PageOK, IsBlock, Gone
<1>12. \A y \in live' : (IF Small(y) THEN BlockOK(y) ELSE ChunkOK(y))'
  <2> SUFFICES ASSUME NEW y \in live' PROVE (IF Small(y) THEN BlockOK(y) ELSE ChunkOK(y))'
    OBVIOUS
  <2>1. IF Small(y) THEN BlockOK(y) ELSE ChunkOK(y)
    BY <1>1, <1>2 DEF BlocksInv
  <2> QED  BY <1>2, <1>8, <2>1 DEF BlockOK, ChunkOK, IsBlock, Small
<1>13. ASSUME NEW a \in strays' PROVE StrayOK(a)'
  <2>1. CASE a = x.at
    BY <1>2, <1>4, <1>6, <1>7, <1>8, <2>1 DEF StrayOK
  <2>2. CASE a \in strays
    BY <1>1, <1>2, <1>8, <2>2 DEF BlocksInv, StrayOK
  <2> QED  BY <1>2, <2>1, <2>2
<1>14. \A y \in live' : y.at \notin strays'
  BY <1>1, <1>2 DEF BlocksInv
<1>15. BlocksInv'
  <2>1. \A y, z \in live' : y.at = z.at => y = z
    BY <1>1, <1>2 DEF BlocksInv
  <2>2. \A t \in sizes : \A q \in ToSet(sizebases'[t]) : blocktype'[q] = t
    BY <1>1, <1>2 DEF BlocksInv
  <2> QED  BY <1>8, <1>11, <1>12, <1>13, <1>14, <2>1, <2>2 DEF BlocksInv
<1> QED  BY <1>9, <1>10, <1>15 DEF IInv

-----------------------------------------------------------------------------
(* The invariant. *)

\* At the start there is no page.
LEMMA InitInvariant == Init => IInv
<1> SUFFICES ASSUME Init PROVE IInv
  OBVIOUS
<1>1. /\ brk = BASE /\ fresh_refs = <<>> /\ recycled_refs = <<>> /\ bigchunks = <<>>
      /\ sizebases = [s \in sizes |-> <<>>] /\ live = {}
      /\ page = [r \in Refs |-> 0] /\ blocktype = [r \in Refs |-> SMALLEST]
      /\ flist = [r \in Refs |-> <<>>] /\ nfree = [r \in Refs |-> 0]
      /\ npages = [f \in Frames |-> 0] /\ strays = {} /\ ahead = 0
  BY DEF Init
<1>2. ToSet(<<>>) = {} /\ IsInjective(<<>>)
  BY DEF ToSet, IsInjective
<1>3. InUse = {} /\ AllRefs = {} /\ Held = {}
  BY <1>1, <1>2 DEF InUse, AllRefs, Held
<1>4. BASE \in Nat \ {0} /\ PAGES \in Nat
  BY ConstantFacts
<1>5. TypeInv
  <2>1. BASE \in BASE .. BASE + PAGES
    BY <1>4
  <2>2. page \in [Refs -> Frames \cup {0}] /\ blocktype \in [Refs -> sizes]
    BY <1>1, SmallestFacts
  <2>3. flist \in [Refs -> Seq(Nat)] /\ nfree \in [Refs -> Int] /\ npages \in [Frames -> Nat]
    BY <1>1
  <2>4. sizebases \in [sizes -> Seq(Refs)]
    BY <1>1
  <2> QED  BY <1>1, <2>1, <2>2, <2>3, <2>4 DEF TypeInv
<1>6. RefsInv
  BY <1>1, <1>2, <1>3, ConstantFacts DEF RefsInv, ListsApart, WholePages, UnpagedLast
<1>7. PagesInv
  <2>1. BASE .. BASE - 1 = {}
    BY <1>4
  <2>2. Partition({}, {}, page, {}, npages, BASE)
    BY <2>1 DEF Partition
  <2>3. Divided({}, {}, page, {}, npages, BASE)
    BY <1>4, <2>2 DEF Divided
  <2>4. RefPages(AllRefs) = {} /\ Paged(AllRefs, page) = {}
    BY <1>3 DEF RefPages, Paged
  <2> QED  BY <1>1, <1>2, <1>3, <2>3, <2>4 DEF PagesInv
<1>8. BlocksInv
  BY <1>1, <1>2, <1>3 DEF BlocksInv
<1> QED  BY <1>5, <1>6, <1>7, <1>8 DEF IInv

\* A step that changes nothing.
LEMMA StutterStep ==
  ASSUME IInv, UNCHANGED vars
  PROVE  IInv'
<1>1. /\ sizebases' = sizebases /\ page' = page /\ blocktype' = blocktype
      /\ flist' = flist /\ nfree' = nfree /\ fresh_refs' = fresh_refs
      /\ recycled_refs' = recycled_refs /\ brk' = brk /\ npages' = npages
      /\ bigchunks' = bigchunks /\ live' = live /\ strays' = strays /\ ahead' = ahead
  BY DEF vars, refVars, bigVars, strayVars
<1>2. InUse' = InUse /\ AllRefs' = AllRefs /\ Held' = Held
  BY <1>1 DEF InUse, AllRefs, Held, Small
<1>3. TypeInv'
  BY <1>1 DEF IInv, TypeInv
<1>4. RefsInv'
  BY <1>1, RefsKept DEF IInv
<1>5. PagesInv'
  BY <1>1, <1>2, PagesKept DEF IInv
<1>6. BlocksInv'
  BY <1>1, <1>2 DEF IInv, BlocksInv, PageOK, BlockOK, ChunkOK, StrayOK, IsBlock, Gone, Small
<1> QED  BY <1>3, <1>4, <1>5, <1>6 DEF IInv

LEMMA MallocStep ==
  ASSUME IInv, NEW sz \in Requests, mm_malloc(sz)
  PROVE  wild' \/ IInv'
<1>1. sz \in Nat /\ LARGEST \in Nat
  BY ConstantFacts, LargestFacts
<1>2. CASE sz >= LARGEST
  BY <1>2, BigMallocStep DEF mm_malloc
<1>3. CASE sz < LARGEST
  <2>1. subpage_kmalloc(sz)
    BY <1>1, <1>3 DEF mm_malloc
  <2> QED  BY <1>3, <2>1, FromPageStep, FromNewPageStep, NoPageLeftStep DEF subpage_kmalloc
<1> QED  BY <1>1, <1>2, <1>3

\* A chunk is freed for what it is, and so is a small block with a 32-bit address.
LEMMA FreeStep ==
  ASSUME IInv, NEW x \in live, mm_free(x)
  PROVE  IInv'
<1>1. CASE Owners(x.at) # {}
  BY <1>1, SubpageFreeStep DEF mm_free
<1>2. CASE Owners(x.at) = {}
  BY <1>2, BigFreeStep, StrayFreeStep DEF mm_free
<1> QED  BY <1>1, <1>2

\* What holds of every state: the invariant, until a stray block is given out.
KnownInv == wild \/ IInv

LEMMA NextInvariant == KnownInv /\ [Next]_vars => KnownInv'
<1> SUFFICES ASSUME KnownInv, [Next]_vars PROVE KnownInv'
  OBVIOUS
<1>1. ASSUME ~ wild, NEW sz \in Requests, mm_malloc(sz) PROVE wild' \/ IInv'
  BY <1>1, MallocStep DEF KnownInv
<1>2. ASSUME ~ wild, NEW x \in live, mm_free(x) PROVE IInv'
  BY <1>2, FreeStep DEF KnownInv
<1>3. CASE UNCHANGED vars
  <2>1. wild' = wild
    BY <1>3 DEF vars, bigVars, strayVars
  <2> QED  BY <1>3, <2>1, StutterStep DEF KnownInv
<1> QED  BY <1>1, <1>2, <1>3 DEF Next, Lost, KnownInv

\* The lists of references, the division of the pages and the blocks of each page are as
\* IInv says after any sequence of mm_malloc and mm_free (kheap.c:535-566), wherever the
\* data segment lies, as long as no request was given a block that went astray.
THEOREM InvariantHolds == Spec => []KnownInv
<1>1. Init => KnownInv
  BY InitInvariant DEF KnownInv
<1> QED  BY <1>1, NextInvariant, PTL DEF Spec

\* No block goes astray in a data segment with 32-bit addresses (MKPAB, kheap.c:74).
THEOREM NothingAstray ==
  ASSUME BASE + PAGES <= FRAMES
  PROVE  Spec => [](IInv /\ strays = {} /\ wild = FALSE)
<1> DEFINE I == IInv /\ strays = {} /\ wild = FALSE
<1>1. Init => I
  BY InitInvariant DEF Init
<1>2. I /\ [Next]_vars => I'
  <2> SUFFICES ASSUME I, [Next]_vars PROVE strays' = {} /\ wild' = FALSE /\ IInv'
    OBVIOUS
  <2>1. ASSUME NEW sz \in Requests, mm_malloc(sz) PROVE strays' = {} /\ wild' = FALSE /\ IInv'
    <3>1. ~ FromStray(PagesFor(sz), sz)
      BY DEF FromStray
    <3>2. wild' \/ IInv'
      BY <2>1, MallocStep
    <3>3. strays' = strays /\ wild' = wild
      BY <2>1, <3>1 DEF mm_malloc, subpage_kmalloc, FromPage, FromNewPage, NoPageLeft,
                        big_kmalloc, FromChunk, FromSbrk, bigVars, strayVars
    <3> QED  BY <3>2, <3>3
  <2>2. ASSUME NEW x \in live, mm_free(x) PROVE strays' = {} /\ wild' = FALSE /\ IInv'
    <3>1. IInv'
      BY <2>2, FreeStep
    <3>2. Owners(x.at) = {} => ~ Small(x)
      <4> SUFFICES ASSUME Small(x) PROVE Owners(x.at) # {}
        OBVIOUS
      <4>1. PICK r \in InUse : Owners(x.at) = IF page[r] < FRAMES THEN {r} ELSE {}
        BY OwnersFacts DEF IInv
      <4>2. page[r] \in Nat /\ page[r] < BASE + PAGES
        BY PageOfUsed, FrameFacts DEF IInv
      <4> QED  BY <4>1, <4>2, ConstantFacts
    <3>3. strays' = strays /\ wild' = wild
      BY <2>2, <3>2 DEF mm_free, subpage_kfree, big_kfree, bigVars, strayVars
    <3> QED  BY <3>1, <3>3
  <2>3. CASE UNCHANGED vars
    BY <2>3, StutterStep DEF vars, bigVars, strayVars
  <2> QED  BY <2>1, <2>2, <2>3 DEF Next, Lost
<1> QED  BY <1>1, <1>2, PTL DEF Spec

-----------------------------------------------------------------------------
(* The properties. *)

\* The chunk that begins at c holds the page at frame f.
InChunk(f, c) == c <= f /\ f < c + npages[c]

\* The uses of a page, one by one.
LEMMA UsesFacts ==
  ASSUME IInv, NEW f \in Frames
  PROVE  \A u : u \in Uses(f) <=>
           \/ f \in RefPages(AllRefs) /\ u = <<"refs", f>>
           \/ \E r \in Paged(AllRefs, page) : page[r] = f /\ u = <<"page", r>>
           \/ \E x \in live : ~ Small(x) /\ InChunk(f, x.at \div PAGE_SIZE) /\ u = <<"block", x.at>>
           \/ \E i \in DOMAIN bigchunks : InChunk(f, bigchunks[i]) /\ u = <<"chunk", i>>
<1>1. TypeInv /\ PagesInv
  BY DEF IInv
<1>2. f \in Nat /\ f # 0
  BY FrameFacts
<1> DEFINE A == {<<"refs", q>> : q \in {q \in {r \div REFS : r \in AllRefs} : q = f}}
           B == {<<"page", r>> : r \in {r \in AllRefs : page[r] = f}}
           C == {<<"block", x.at>> : x \in {x \in live :
                  ~ Small(x) /\ LET c == x.at \div PAGE_SIZE IN f \in c .. c + npages[c] - 1}}
           D == {<<"chunk", i>> : i \in {i \in DOMAIN bigchunks :
                  LET c == bigchunks[i] IN f \in c .. c + npages[c] - 1}}
<1>3. \A c \in Heads : f \in c .. c + npages[c] - 1 <=> InChunk(f, c)
  <2> SUFFICES ASSUME NEW c \in Heads PROVE f \in c .. c + npages[c] - 1 <=> InChunk(f, c)
    OBVIOUS
  <2>1. c \in Nat /\ npages[c] \in Nat
    BY <1>1, DivisionFacts
  <2> QED  BY <1>2, <2>1 DEF InChunk
<1>4. \A u : u \in A <=> f \in RefPages(AllRefs) /\ u = <<"refs", f>>
  BY DEF RefPages
<1>5. \A u : u \in B <=> \E r \in Paged(AllRefs, page) : page[r] = f /\ u = <<"page", r>>
  BY <1>2 DEF Paged
<1>6. \A u : u \in C <=>
        \E x \in live : ~ Small(x) /\ InChunk(f, x.at \div PAGE_SIZE) /\ u = <<"block", x.at>>
  <2>1. \A x \in live : ~ Small(x) =>
          (f \in x.at \div PAGE_SIZE .. x.at \div PAGE_SIZE + npages[x.at \div PAGE_SIZE] - 1
             <=> InChunk(f, x.at \div PAGE_SIZE))
    BY <1>3 DEF Heads, Held
  <2> QED  BY <2>1
<1>7. \A u : u \in D <=>
        \E i \in DOMAIN bigchunks : InChunk(f, bigchunks[i]) /\ u = <<"chunk", i>>
  <2>1. \A i \in DOMAIN bigchunks : bigchunks[i] \in Heads
    BY DEF Heads, ToSet
  <2> QED  BY <1>3, <2>1
<1>8. Uses(f) = A \cup B \cup C \cup D
  BY DEF Uses
<1> HIDE DEF A, B, C, D
<1> QED  BY <1>4, <1>5, <1>6, <1>7, <1>8

\* The parts of the division do not meet.
LEMMA PartsApart ==
  ASSUME TypeInv, PagesInv, NEW f \in Nat
  PROVE  /\ \A r \in Paged(AllRefs, page) : page[r] = f =>
              f \notin RefPages(AllRefs) /\ \A c \in Heads : ~ InChunk(f, c)
         /\ \A r, q \in Paged(AllRefs, page) : page[r] = f /\ page[q] = f => q = r
         /\ \A c \in Heads : InChunk(f, c) => f \notin RefPages(AllRefs)
         /\ \A c, d \in Heads : InChunk(f, c) /\ InChunk(f, d) => c = d
         /\ BASE <= f /\ f < brk => \/ f \in RefPages(AllRefs)
                                    \/ \E r \in Paged(AllRefs, page) : page[r] = f
                                    \/ \E c \in Heads : InChunk(f, c)
         /\ f >= brk => /\ f \notin RefPages(AllRefs)
                        /\ \A r \in Paged(AllRefs, page) : page[r] # f
                        /\ \A c \in Heads : ~ InChunk(f, c)
<1>1. Partition(RefPages(AllRefs), Paged(AllRefs, page), page, Heads, npages, brk)
  BY DivisionFacts DEF Divided
<1>2. brk \in Nat /\ BASE \in Nat /\ \A c \in Heads : c \in Nat /\ npages[c] \in Nat
  BY DivisionFacts
<1>3. ASSUME NEW c \in Heads, NEW d \in Heads, InChunk(f, c), InChunk(f, d) PROVE c = d
  <2>1. (c < d => c + npages[c] <= d) /\ (d < c => d + npages[d] <= c)
    BY <1>1 DEF Partition
  <2> QED  BY <1>2, <1>3, <2>1 DEF InChunk
<1>4. BASE <= f /\ f < brk => \/ f \in RefPages(AllRefs)
                              \/ \E r \in Paged(AllRefs, page) : page[r] = f
                              \/ \E c \in Heads : InChunk(f, c)
  <2> SUFFICES ASSUME BASE <= f, f < brk
               PROVE  \/ f \in RefPages(AllRefs)
                      \/ \E r \in Paged(AllRefs, page) : page[r] = f
                      \/ \E c \in Heads : InChunk(f, c)
    OBVIOUS
  <2>1. f \in BASE .. brk - 1
    BY <1>2
  <2> QED  BY <1>1, <2>1 DEF Partition, InChunk
<1>5. ASSUME f >= brk, NEW c \in Heads PROVE ~ InChunk(f, c)
  <2>1. c + npages[c] <= brk
    BY <1>1 DEF Partition
  <2> QED  BY <1>2, <1>5, <2>1 DEF InChunk
<1>6. f >= brk => f \notin RefPages(AllRefs) /\ \A r \in Paged(AllRefs, page) : page[r] # f
  BY <1>1, <1>2 DEF Partition
<1>7. \A r \in Paged(AllRefs, page) : page[r] = f =>
        f \notin RefPages(AllRefs) /\ \A c \in Heads : ~ InChunk(f, c)
  BY <1>1 DEF Partition, InChunk
<1>8. \A r, q \in Paged(AllRefs, page) : page[r] = f /\ page[q] = f => q = r
  BY <1>1 DEF Partition
<1>9. \A c \in Heads : InChunk(f, c) => f \notin RefPages(AllRefs)
  BY <1>1 DEF Partition, InChunk
<1> QED  BY <1>3, <1>4, <1>5, <1>6, <1>7, <1>8, <1>9

\* A page below the break has one use.
LEMMA OneUse ==
  ASSUME IInv, NEW f \in Frames, f < brk
  PROVE  \E u \in Uses(f) : Uses(f) = {u}
<1>1. TypeInv /\ PagesInv /\ BlocksInv
  BY DEF IInv
<1>2. f \in Nat /\ BASE <= f
  BY FrameFacts
<1>3. SUFFICES \E u \in Uses(f) : \A v \in Uses(f) : v = u
  OBVIOUS
<1>4. CASE f \in RefPages(AllRefs)
  <2>1. <<"refs", f>> \in Uses(f)
    BY <1>4, UsesFacts
  <2>2. \A r \in Paged(AllRefs, page) : page[r] # f
    BY <1>1, <1>2, <1>4, PartsApart
  <2>3. \A c \in Heads : ~ InChunk(f, c)
    BY <1>1, <1>2, <1>4, PartsApart
  <2>4. \A x \in live : ~ Small(x) => x.at \div PAGE_SIZE \in Heads
    BY DEF Heads, Held
  <2>5. \A i \in DOMAIN bigchunks : bigchunks[i] \in Heads
    BY DEF Heads, ToSet
  <2>6. \A v \in Uses(f) : v = <<"refs", f>>
    BY <2>2, <2>3, <2>4, <2>5, UsesFacts
  <2> QED  BY <2>1, <2>6
<1>5. CASE \E r \in Paged(AllRefs, page) : page[r] = f
  <2>1. PICK r \in Paged(AllRefs, page) : page[r] = f
    BY <1>5
  <2>2. <<"page", r>> \in Uses(f)
    BY <2>1, UsesFacts
  <2>3. \A q \in Paged(AllRefs, page) : page[q] = f => q = r
    BY <1>1, <1>2, <2>1, PartsApart
  <2>4. f \notin RefPages(AllRefs) /\ \A c \in Heads : ~ InChunk(f, c)
    BY <1>1, <1>2, <2>1, PartsApart
  <2>5. \A x \in live : ~ Small(x) => x.at \div PAGE_SIZE \in Heads
    BY DEF Heads, Held
  <2>6. \A i \in DOMAIN bigchunks : bigchunks[i] \in Heads
    BY DEF Heads, ToSet
  <2>7. \A v \in Uses(f) : v = <<"page", r>>
    BY <2>3, <2>4, <2>5, <2>6, UsesFacts
  <2> QED  BY <2>2, <2>7
<1>6. CASE \E c \in Heads : InChunk(f, c)
  <2>1. PICK c \in Heads : InChunk(f, c)
    BY <1>6
  <2>2. f \notin RefPages(AllRefs)
    BY <1>1, <1>2, <2>1, PartsApart
  <2>3. \A r \in Paged(AllRefs, page) : page[r] # f
    BY <1>1, <1>2, <2>1, PartsApart
  <2>4. \A d \in Heads : InChunk(f, d) => d = c
    BY <1>1, <1>2, <2>1, PartsApart
  <2>5. \A x \in live : ~ Small(x) /\ InChunk(f, x.at \div PAGE_SIZE) => x.at \div PAGE_SIZE = c
    BY <2>4 DEF Heads, Held
  <2>6. \A i \in DOMAIN bigchunks : InChunk(f, bigchunks[i]) => bigchunks[i] = c
    BY <2>4 DEF Heads, ToSet
  <2>7. CASE c \in Held
    <3>1. PICK x \in live : ~ Small(x) /\ x.at \div PAGE_SIZE = c
      BY <2>7 DEF Held
    <3>2. <<"block", x.at>> \in Uses(f)
      BY <2>1, <3>1, UsesFacts
    <3>3. \A y \in live : ~ Small(y) /\ InChunk(f, y.at \div PAGE_SIZE) => y.at = x.at
      BY <1>1, <2>5, <3>1 DEF BlocksInv, ChunkOK
    <3>4. \A i \in DOMAIN bigchunks : ~ InChunk(f, bigchunks[i])
      BY <1>1, <2>6, <2>7 DEF PagesInv, ToSet
    <3>5. \A v \in Uses(f) : v = <<"block", x.at>>
      BY <2>2, <2>3, <3>3, <3>4, UsesFacts
    <3> QED  BY <3>2, <3>5
  <2>8. CASE c \notin Held
    <3>1. PICK i \in DOMAIN bigchunks : bigchunks[i] = c
      BY <2>8 DEF Heads, ToSet
    <3>2. <<"chunk", i>> \in Uses(f)
      BY <2>1, <3>1, UsesFacts
    <3>3. \A j \in DOMAIN bigchunks : InChunk(f, bigchunks[j]) => j = i
      BY <1>1, <2>6, <3>1 DEF PagesInv, IsInjective
    <3>4. \A x \in live : ~ (~ Small(x) /\ InChunk(f, x.at \div PAGE_SIZE))
      BY <2>5, <2>8 DEF Held
    <3>5. \A v \in Uses(f) : v = <<"chunk", i>>
      BY <2>2, <2>3, <3>3, <3>4, UsesFacts
    <3> QED  BY <3>2, <3>5
  <2> QED  BY <2>7, <2>8
<1> QED  BY <1>1, <1>2, <1>4, <1>5, <1>6, PartsApart

LEMMA IInvPagesOnce == KnownInv => PagesOnce
<1> SUFFICES ASSUME IInv, NEW f \in Frames
             PROVE  IF f < brk THEN \E u \in Uses(f) : Uses(f) = {u} ELSE Uses(f) = {}
  BY DEF PagesOnce, KnownInv
<1>1. TypeInv /\ PagesInv
  BY DEF IInv
<1>2. f \in Nat /\ brk \in Nat
  BY <1>1, FrameFacts, DivisionFacts
<1>3. CASE f >= brk
  <2>1. /\ f \notin RefPages(AllRefs) /\ \A r \in Paged(AllRefs, page) : page[r] # f
        /\ \A c \in Heads : ~ InChunk(f, c)
    BY <1>1, <1>2, <1>3, PartsApart
  <2>2. \A x \in live : ~ Small(x) => x.at \div PAGE_SIZE \in Heads
    BY DEF Heads, Held
  <2>3. \A i \in DOMAIN bigchunks : bigchunks[i] \in Heads
    BY DEF Heads, ToSet
  <2>4. \A u : u \notin Uses(f)
    BY <2>1, <2>2, <2>3, UsesFacts
  <2> QED  BY <1>2, <1>3, <2>4
<1> QED  BY <1>2, <1>3, OneUse

\* Every page is used exactly once: none of allocpageref, remove_lists, big_kmalloc and
\* big_kfree loses a page, uses one twice, or uses one that mem_sbrk has not given.
THEOREM PagesOnceCorrect == Spec => []PagesOnce
<1> QED  BY InvariantHolds, IInvPagesOnce, PTL

\* The offsets in the page of r.
LEMMA OnPageFacts ==
  ASSUME NEW r, page[r] \in Nat, NEW S, S \subseteq Nat
  PROVE  \A b : b \in OnPage(S, r) <=> /\ b \in Nat /\ b < PAGE_SIZE
                                       /\ page[r] * PAGE_SIZE + b \in S
<1> DEFINE p == page[r] * PAGE_SIZE
<1>1. PAGE_SIZE \in Nat \ {0} /\ p \in Nat
  BY ConstantFacts, Products
<1>2. ASSUME NEW a \in S, a \div PAGE_SIZE = page[r]
      PROVE  a - p \in Nat /\ a - p < PAGE_SIZE /\ p + (a - p) = a
  <2>1. a \in Nat /\ a % PAGE_SIZE \in 0 .. PAGE_SIZE - 1 /\ a = p + (a % PAGE_SIZE)
    BY <1>1, <1>2, Division
  <2> HIDE DEF p
  <2> QED  BY <1>1, <2>1
<1>3. ASSUME NEW b \in Nat, b < PAGE_SIZE, p + b \in S
      PROVE  b \in OnPage(S, r)
  <2> DEFINE a == p + b
  <2>1. a \in Nat /\ p <= a /\ a < p + PAGE_SIZE /\ a - p = b
    <3> HIDE DEF p
    <3> QED  BY <1>1, <1>3
  <2>2. a \div PAGE_SIZE = page[r]
    <3> HIDE DEF a
    <3> QED  BY <1>1, <2>1, Quotient
  <2> QED  BY <1>3, <2>1, <2>2 DEF OnPage
<1>4. ASSUME NEW b \in OnPage(S, r)
      PROVE  b \in Nat /\ b < PAGE_SIZE /\ p + b \in S
  <2>1. PICK a \in S : a \div PAGE_SIZE = page[r] /\ b = a - p
    BY DEF OnPage
  <2> QED  BY <1>2, <2>1
<1> QED  BY <1>3, <1>4

\* A page of blocks, whether its address has 32 bits or not.
LEMMA PageExact ==
  ASSUME TypeInv, PagesInv, BlocksInv, NEW s \in sizes, NEW r \in ToSet(sizebases[s])
  PROVE  LET held == OnPage({x.at : x \in live}, r)
             gone == OnPage(strays, r)
             free == ToSet(flist[r]) IN
         /\ blocktype[r] = s
         /\ held \cap free = {} /\ held \cap gone = {} /\ free \cap gone = {}
         /\ held \cup free \cup gone = Blocks(s)
         /\ nfree[r] = Len(flist[r]) /\ IsInjective(flist[r])
         /\ page[r] < FRAMES => held # {} /\ gone = {}
<1> DEFINE held == OnPage({x.at : x \in live}, r)
           gone == OnPage(strays, r)
           free == ToSet(flist[r])
<1>1. r \in InUse /\ blocktype[r] = s
  BY InUseFacts DEF BlocksInv
<1>2. PageOK(r) /\ page[r] \in Nat /\ \A q \in InUse : page[q] = page[r] => q = r
  BY <1>1, PageOfUsed DEF BlocksInv
<1>3. \A b : b \in held <=> b \in Nat /\ b < PAGE_SIZE /\ \E x \in live : IsBlock(x, r, b)
  <2>1. {x.at : x \in live} \subseteq Nat
    BY DEF TypeInv
  <2>2. \A b : b \in held <=> b \in Nat /\ b < PAGE_SIZE
                              /\ page[r] * PAGE_SIZE + b \in {x.at : x \in live}
    BY <1>2, <2>1, OnPageFacts
  <2> QED  BY <2>2 DEF IsBlock
<1>4. \A b : b \in gone <=> b \in Nat /\ b < PAGE_SIZE /\ Gone(r, b)
  BY <1>2, OnPageFacts DEF TypeInv, Gone
<1>5. free \subseteq Blocks(s) /\ nfree[r] = Len(flist[r]) /\ IsInjective(flist[r])
  BY <1>1, <1>2 DEF PageOK
<1>6. ASSUME NEW b \in held PROVE b \in Blocks(s) /\ b \notin free /\ b \notin gone
  <2>1. PICK x \in live : b \in Nat /\ b < PAGE_SIZE /\ x.at = page[r] * PAGE_SIZE + b
    BY <1>3 DEF IsBlock
  <2>2. Small(x)
    BY <1>1, <1>2, <2>1, PageOfUsed, PlaceOfBlock
  <2>3. PICK q \in InUse : page[q] = page[r] /\ b \in Blocks(blocktype[q]) /\ b \notin ToSet(flist[q])
    BY <1>2, <2>1, <2>2, PlaceOfBlock
  <2>4. x.at \notin strays
    BY DEF BlocksInv
  <2> QED  BY <1>1, <1>2, <1>4, <2>1, <2>3, <2>4 DEF Gone
<1>7. ASSUME NEW b \in gone PROVE b \in Blocks(s) /\ b \notin free /\ page[r] >= FRAMES
  <2>1. b \in Nat /\ b < PAGE_SIZE /\ page[r] * PAGE_SIZE + b \in strays
    BY <1>4 DEF Gone
  <2>2. PICK q \in InUse : /\ page[q] = page[r] /\ page[r] >= FRAMES
                           /\ b \in Blocks(blocktype[q]) /\ b \notin ToSet(flist[q])
    BY <1>2, <2>1, StrayPlace
  <2> QED  BY <1>1, <1>2, <2>2
<1>8. ASSUME NEW b \in Blocks(s) PROVE b \in held \cup free \cup gone
  <2>1. b \in Nat /\ b < PAGE_SIZE
    BY BlockFacts
  <2>2. b \in free \/ Gone(r, b) \/ \E x \in live : IsBlock(x, r, b)
    BY <1>1, <1>2 DEF PageOK
  <2> QED  BY <1>3, <1>4, <2>1, <2>2
<1>9. ASSUME page[r] < FRAMES PROVE held # {} /\ gone = {}
  <2>1. PICK x \in live, b \in Blocks(s) : IsBlock(x, r, b)
    BY <1>1, <1>2, <1>9 DEF PageOK
  <2>2. b \in held
    BY <1>3, <2>1, BlockFacts
  <2>3. ~ (page[r] >= FRAMES)
    BY <1>2, <1>9, ConstantFacts
  <2> QED  BY <1>7, <2>2, <2>3
<1> HIDE DEF held, gone, free
<1>10. /\ held \cap free = {} /\ held \cap gone = {} /\ free \cap gone = {}
       /\ held \cup free \cup gone = Blocks(s)
  BY <1>5, <1>6, <1>7, <1>8
<1> QED  BY <1>1, <1>5, <1>9, <1>10 DEF held, gone, free

LEMMA IInvBlocksExact == KnownInv => BlocksExact
<1> SUFFICES ASSUME ~ wild, IInv PROVE BlocksExact
  BY DEF KnownInv, BlocksExact
<1>1. TypeInv /\ PagesInv /\ BlocksInv
  BY DEF IInv
<1>2. PAGE_SIZE \in Nat \ {0} /\ FRAMES \in Nat
  BY ConstantFacts
<1>3. ASSUME NEW x \in live
      PROVE  IF Small(x) /\ x.at \div PAGE_SIZE < FRAMES
             THEN \E r \in Owners(x.at) :
                    /\ Owners(x.at) = {r}
                    /\ page[r] = x.at \div PAGE_SIZE /\ blocktype[r] = blocktype_of(x.len)
             ELSE Owners(x.at) = {}
  <2>1. CASE Small(x)
    <3>1. PICK r \in InUse : \E b \in Blocks(blocktype[r]) :
            /\ Owners(x.at) = IF page[r] < FRAMES THEN {r} ELSE {}
            /\ IsBlock(x, r, b) /\ blocktype[r] = blocktype_of(x.len)
      BY <1>1, <2>1, OwnersFacts
    <3>2. PICK b \in Blocks(blocktype[r]) : x.at = page[r] * PAGE_SIZE + b
      BY <3>1 DEF IsBlock
    <3>3. page[r] \in Nat /\ b \in Nat /\ b < PAGE_SIZE /\ x.at \in Nat
      BY <1>1, PageOfUsed, BlockFacts DEF TypeInv
    <3>4. x.at \div PAGE_SIZE = page[r]
      <4> DEFINE p == page[r] * PAGE_SIZE
      <4>1. p \in Nat /\ x.at = p + b
        BY <1>2, <3>2, <3>3, Products
      <4>2. p <= x.at /\ x.at < p + PAGE_SIZE
        <5> HIDE DEF p
        <5> QED  BY <1>2, <3>3, <4>1
      <4> QED  BY <1>2, <3>3, <4>2, Quotient
    <3> QED  BY <2>1, <3>1, <3>4
  <2>2. CASE ~ Small(x)
    BY <1>1, <2>2, OwnersFacts
  <2> QED  BY <2>1, <2>2
<1> QED  BY <1>1, <1>3, PageExact DEF BlocksExact

\* Every page of blocks is accounted for, block by block, and mm_free finds for every block
\* of the program's with a 32-bit address the page it was taken from (subpage_kfree,
\* checksubpage), wherever the data segment lies.
THEOREM BlocksExactCorrect == Spec => []BlocksExact
<1> QED  BY InvariantHolds, IInvBlocksExact, PTL

LEMMA IInvRefsOnce == KnownInv => RefsOnce
<1> SUFFICES ASSUME IInv PROVE RefsOnce
  BY DEF KnownInv, RefsOnce
<1>1. TypeInv /\ RefsInv /\ BlocksInv
  BY DEF IInv
<1>2. 0 \notin sizes /\ -1 \notin sizes
  BY ConstantFacts
<1>3. /\ DOMAIN RefLists = sizes \cup {0, -1}
      /\ RefLists[0] = fresh_refs /\ RefLists[-1] = recycled_refs
      /\ \A s \in sizes : RefLists[s] = sizebases[s]
  BY <1>2 DEF RefLists
<1>4. /\ IsInjective(fresh_refs) /\ IsInjective(recycled_refs)
      /\ \A s \in sizes : IsInjective(sizebases[s])
      /\ ToSet(fresh_refs) \cap ToSet(recycled_refs) = {}
      /\ ToSet(fresh_refs) \cap InUse = {} /\ ToSet(recycled_refs) \cap InUse = {}
  BY <1>1 DEF RefsInv, ListsApart
<1>5. \A s \in sizes : ToSet(sizebases[s]) \subseteq InUse
  BY <1>1, InUseFacts
<1>6. \A s, t \in sizes : s # t => ToSet(sizebases[s]) \cap ToSet(sizebases[t]) = {}
  BY <1>1 DEF BlocksInv
<1>7. \A k \in DOMAIN RefLists : IsInjective(RefLists[k])
  BY <1>3, <1>4
<1>8. ASSUME NEW k \in DOMAIN RefLists, NEW m \in DOMAIN RefLists, k # m
      PROVE  ToSet(RefLists[k]) \cap ToSet(RefLists[m]) = {}
  <2>1. CASE k \in sizes /\ m \in sizes
    BY <1>3, <1>6, <1>8, <2>1
  <2>2. CASE k \in sizes /\ m \notin sizes
    <3>1. ToSet(RefLists[k]) \subseteq InUse
      BY <1>3, <1>5, <2>2
    <3>2. RefLists[m] = fresh_refs \/ RefLists[m] = recycled_refs
      BY <1>3, <2>2
    <3> QED  BY <1>4, <3>1, <3>2
  <2>3. CASE k \notin sizes /\ m \in sizes
    <3>1. ToSet(RefLists[m]) \subseteq InUse
      BY <1>3, <1>5, <2>3
    <3>2. RefLists[k] = fresh_refs \/ RefLists[k] = recycled_refs
      BY <1>3, <2>3
    <3> QED  BY <1>4, <3>1, <3>2
  <2>4. CASE k \notin sizes /\ m \notin sizes
    BY <1>3, <1>4, <1>8, <2>4
  <2> QED  BY <2>1, <2>2, <2>3, <2>4
<1>9. ASSUME NEW r \in AllRefs, NEW i \in 0 .. REFS - 1
      PROVE  (r \div REFS) * REFS + i \in AllRefs
  <2>1. r \in Refs
    BY <1>1, InUseFacts
  <2>2. r \div REFS \in Frames
    BY <2>1, RefFacts
  <2> DEFINE f == r \div REFS
             q == f * REFS + i
  <2>3. q \in Refs /\ q \div REFS = f
    BY <2>2, RefFacts
  <2> HIDE DEF q
  <2>4. q \in AllRefs
    BY <1>1, <2>3 DEF RefsInv, WholePages
  <2> QED  BY <2>4 DEF q
<1>10. \A r \in ToSet(fresh_refs) : page[r] = 0
  BY <1>1, InUseFacts DEF RefsInv, AllRefs
<1>11. \A i \in DOMAIN recycled_refs :
         page[recycled_refs[i]] = 0 => i = Len(recycled_refs) /\ brk = BASE + PAGES
  BY <1>1 DEF RefsInv, UnpagedLast
<1> QED  BY <1>7, <1>8, <1>9, <1>10, <1>11 DEF RefsOnce

\* The lists of references never share one nor drop one, and a reference that got no page
\* is the last to be recycled (allocpageref, freepageref, remove_lists).
THEOREM RefsOnceCorrect == Spec => []RefsOnce
<1> QED  BY InvariantHolds, IInvRefsOnce, PTL

-----------------------------------------------------------------------------
(* The program's blocks. *)

\* The bytes of x lie in the n pages that begin at frame f.
Spans(x, f, n) ==
  /\ f \in Nat /\ n \in Nat /\ BASE <= f /\ f + n <= BASE + PAGES
  /\ f * PAGE_SIZE <= x.at /\ x.at + x.len <= (f + n) * PAGE_SIZE

\* A small block lies in its page and within its own block there.
LEMMA SmallSpans ==
  ASSUME TypeInv, PagesInv, BlocksInv, NEW x \in live, Small(x)
  PROVE  \E r \in InUse : \E b \in Blocks(blocktype[r]) :
           IsBlock(x, r, b) /\ x.len <= blocktype[r] /\ Spans(x, page[r], 1)
<1>1. PICK r \in InUse : \E b \in Blocks(blocktype[r]) :
        IsBlock(x, r, b) /\ blocktype[r] = blocktype_of(x.len)
  BY OwnersFacts
<1>2. PICK b \in Blocks(blocktype[r]) : IsBlock(x, r, b) /\ blocktype[r] = blocktype_of(x.len)
  BY <1>1
<1>3. /\ page[r] \in Nat /\ blocktype[r] \in sizes /\ BASE <= page[r]
      /\ page[r] < BASE + PAGES
  BY PageOfUsed, FrameFacts
<1>4. PAGE_SIZE \in Nat \ {0} /\ BASE \in Nat /\ PAGES \in Nat /\ blocktype[r] \in Nat
  BY <1>3, ConstantFacts
<1>5. x.len \in Nat /\ x.len <= blocktype[r]
  BY <1>2, BlocktypeFacts, ConstantFacts DEF TypeInv, Small
<1>6. b \in Nat /\ b + blocktype[r] <= PAGE_SIZE
  BY <1>3, BlockFacts
<1> DEFINE p == page[r] * PAGE_SIZE
<1>7. p \in Nat /\ (page[r] + 1) * PAGE_SIZE = p + PAGE_SIZE /\ x.at = p + b
  BY <1>2, <1>3, <1>4, Products DEF IsBlock
<1>8. p <= x.at /\ x.at + x.len <= p + PAGE_SIZE
  <2> HIDE DEF p
  <2> QED  BY <1>4, <1>5, <1>6, <1>7
<1>9. page[r] + 1 <= BASE + PAGES
  BY <1>3, <1>4
<1>10. Spans(x, page[r], 1)
  BY <1>3, <1>7, <1>8, <1>9 DEF Spans
<1> QED  BY <1>2, <1>5, <1>10

\* A large one lies in its chunk, behind the first word.
LEMMA BigSpans ==
  ASSUME TypeInv, PagesInv, BlocksInv, NEW x \in live, ~ Small(x)
  PROVE  /\ x.at \div PAGE_SIZE \in Held
         /\ Spans(x, x.at \div PAGE_SIZE, npages[x.at \div PAGE_SIZE])
<1> DEFINE c == x.at \div PAGE_SIZE
           n == npages[c]
           p == c * PAGE_SIZE
           w == n * PAGE_SIZE
<1>1. /\ c \in Held /\ x.at = p + SMALLEST /\ x.len + SMALLEST <= w
  BY DEF BlocksInv, ChunkOK, Held
<1>2. /\ PAGE_SIZE \in Nat /\ SMALLEST \in Nat /\ x.len \in Nat /\ x.at \in Nat
  BY ConstantFacts, SmallestFacts DEF TypeInv
<1> HIDE DEF c
<1>3. /\ c \in Nat /\ n \in Nat /\ BASE <= c /\ c + n <= brk /\ brk <= BASE + PAGES
      /\ brk \in Nat /\ BASE \in Nat /\ PAGES \in Nat
  BY <1>1, DivisionFacts, FrameFacts DEF Heads
<1> HIDE DEF n
<1>4. p \in Nat /\ w \in Nat /\ (c + n) * PAGE_SIZE = p + w
  BY <1>2, <1>3, Products, Distributes
<1>5. p <= x.at /\ x.at + x.len <= p + w /\ c + n <= BASE + PAGES
  <2> HIDE DEF p, w
  <2> QED  BY <1>1, <1>2, <1>3, <1>4
<1>6. Spans(x, c, n)
  BY <1>3, <1>4, <1>5 DEF Spans
<1> QED  BY <1>1, <1>6 DEF c, n

\* Blocks in different pages are apart.
LEMMA SpansApart ==
  ASSUME NEW x \in live, NEW y \in live, live \subseteq [at : Nat, len : Requests],
         NEW f, NEW n, NEW g, NEW m, Spans(x, f, n), Spans(y, g, m), f + n <= g
  PROVE  ~ Malloc!Overlap(x, y) /\ ~ Malloc!Overlap(y, x)
<1> DEFINE e == (f + n) * PAGE_SIZE
           b == g * PAGE_SIZE
<1>1. /\ x.at \in Nat /\ y.at \in Nat /\ x.len \in Nat /\ y.len \in Nat
      /\ PAGE_SIZE \in Nat
  BY ConstantFacts
<1>2. /\ f + n \in Nat /\ g \in Nat /\ x.at + x.len <= e /\ b <= y.at
  BY DEF Spans
<1>3. e \in Nat /\ b \in Nat /\ e <= b
  BY <1>1, <1>2, Products, ProductMono
<1> HIDE DEF e, b
<1>4. x.at + x.len <= y.at
  BY <1>1, <1>2, <1>3
<1> QED  BY <1>1, <1>4 DEF Malloc!Overlap

\* No two of the program's blocks overlap.
Apart == \A x, y \in live : x # y => ~ Malloc!Overlap(x, y)

\* They lie in the data segment.
Within ==
  \A x \in live :
    /\ x.len \in Requests
    /\ x.at \in BASE * PAGE_SIZE .. (BASE + PAGES) * PAGE_SIZE - 1
    /\ x.at + x.len - 1 \in BASE * PAGE_SIZE .. (BASE + PAGES) * PAGE_SIZE - 1

LEMMA IInvWithin == IInv => Within
<1> SUFFICES ASSUME IInv, NEW x \in live
             PROVE  /\ x.len \in Requests
                    /\ x.at \in BASE * PAGE_SIZE .. (BASE + PAGES) * PAGE_SIZE - 1
                    /\ x.at + x.len - 1 \in BASE * PAGE_SIZE .. (BASE + PAGES) * PAGE_SIZE - 1
  BY DEF Within
<1>1. TypeInv /\ PagesInv /\ BlocksInv
  BY DEF IInv
<1>2. \E f, n : Spans(x, f, n)
  BY <1>1, SmallSpans, BigSpans
<1>3. PICK f, n : Spans(x, f, n)
  BY <1>2
<1>4. /\ f \in Nat /\ n \in Nat /\ BASE <= f /\ f + n <= BASE + PAGES
      /\ f * PAGE_SIZE <= x.at /\ x.at + x.len <= (f + n) * PAGE_SIZE
  BY <1>3 DEF Spans
<1>5. /\ x.len \in Requests /\ x.len \in Nat \ {0} /\ x.at \in Nat
      /\ PAGE_SIZE \in Nat /\ BASE \in Nat /\ PAGES \in Nat
  BY <1>1, ConstantFacts DEF TypeInv
<1> DEFINE lo == BASE * PAGE_SIZE
           hi == (BASE + PAGES) * PAGE_SIZE
           p == f * PAGE_SIZE
           e == (f + n) * PAGE_SIZE
<1>6. lo \in Nat /\ hi \in Nat /\ p \in Nat /\ e \in Nat /\ lo <= p /\ e <= hi
  BY <1>4, <1>5, Products, ProductMono
<1>7. p <= x.at /\ x.at + x.len <= e
  BY <1>4
<1>8. x.at \in lo .. hi - 1 /\ x.at + x.len - 1 \in lo .. hi - 1
  <2> HIDE DEF lo, hi, p, e
  <2> QED  BY <1>5, <1>6, <1>7
<1> QED  BY <1>5, <1>8

LEMMA IInvApart == IInv => Apart
<1> SUFFICES ASSUME IInv, NEW x \in live, NEW y \in live, x # y PROVE ~ Malloc!Overlap(x, y)
  BY DEF Apart
<1>1. /\ TypeInv /\ PagesInv /\ BlocksInv /\ live \subseteq [at : Nat, len : Requests]
  BY DEF IInv, TypeInv
<1>2. Partition(RefPages(AllRefs), Paged(AllRefs, page), page, Heads, npages, brk)
  BY <1>1, DivisionFacts DEF Divided
<1>3. \A c \in Heads : c \in Nat /\ npages[c] \in Nat
  BY <1>1, DivisionFacts
\* A small block u and a large one z.
<1>4. ASSUME NEW u \in live, NEW z \in live, Small(u), ~ Small(z)
      PROVE  ~ Malloc!Overlap(u, z) /\ ~ Malloc!Overlap(z, u)
  <2>1. PICK r \in InUse : Spans(u, page[r], 1)
    BY <1>1, <1>4, SmallSpans
  <2>2. PICK c \in Heads : Spans(z, c, npages[c])
    BY <1>1, <1>4, BigSpans DEF Heads
  <2>3. r \in Paged(AllRefs, page) /\ page[r] \in Nat
    BY <1>1, PageOfUsed
  <2>4. ~ (c <= page[r] /\ page[r] < c + npages[c])
    BY <1>2, <2>3 DEF Partition
  <2>5. page[r] + 1 <= c \/ c + npages[c] <= page[r]
    BY <1>3, <2>3, <2>4
  <2> QED  BY <1>1, <2>1, <2>2, <2>5, SpansApart
<1>5. CASE Small(x) /\ Small(y)
  <2>1. PICK r \in InUse : \E b \in Blocks(blocktype[r]) :
          IsBlock(x, r, b) /\ x.len <= blocktype[r] /\ Spans(x, page[r], 1)
    BY <1>1, <1>5, SmallSpans
  <2>2. PICK b \in Blocks(blocktype[r]) :
          IsBlock(x, r, b) /\ x.len <= blocktype[r] /\ Spans(x, page[r], 1)
    BY <2>1
  <2>3. PICK q \in InUse : \E c \in Blocks(blocktype[q]) :
          IsBlock(y, q, c) /\ y.len <= blocktype[q] /\ Spans(y, page[q], 1)
    BY <1>1, <1>5, SmallSpans
  <2>4. PICK c \in Blocks(blocktype[q]) :
          IsBlock(y, q, c) /\ y.len <= blocktype[q] /\ Spans(y, page[q], 1)
    BY <2>3
  <2>5. page[r] \in Nat /\ page[q] \in Nat /\ blocktype[r] \in sizes
    BY <1>1, PageOfUsed
  <2>6. CASE page[r] # page[q]
    <3>1. page[r] + 1 <= page[q] \/ page[q] + 1 <= page[r]
      BY <2>5, <2>6
    <3> QED  BY <1>1, <2>2, <2>4, <3>1, SpansApart
  <2>7. CASE page[r] = page[q]
    <3>1. r = q
      BY <1>1, <2>7, PageOfUsed
    <3> DEFINE p == page[r] * PAGE_SIZE
               s == blocktype[r]
    <3>2. /\ p \in Nat /\ s \in Nat /\ x.at = p + b /\ y.at = p + c
          /\ x.len <= s /\ y.len <= s /\ b \in Blocks(s) /\ c \in Blocks(s)
      BY <2>2, <2>4, <2>5, <3>1, Products, ConstantFacts DEF IsBlock
    <3>3. b \in Nat /\ c \in Nat /\ (b < c => b + s <= c) /\ (c < b => c + s <= b)
      BY <2>5, <3>2, BlockFacts
    <3>4. b # c
      BY <1>1, <3>2 DEF BlocksInv
    <3>5. x.len \in Nat /\ y.len \in Nat
      BY <1>1, ConstantFacts
    <3> HIDE DEF p, s
    <3>6. x.at + x.len <= y.at \/ y.at + y.len <= x.at
      BY <3>2, <3>3, <3>4, <3>5
    <3>7. x.at \in Nat /\ y.at \in Nat
      BY <1>1
    <3> QED  BY <3>5, <3>6, <3>7 DEF Malloc!Overlap
  <2> QED  BY <2>6, <2>7
<1>6. CASE ~ Small(x) /\ ~ Small(y)
  <2> DEFINE c == x.at \div PAGE_SIZE
             d == y.at \div PAGE_SIZE
  <2>1. /\ c \in Heads /\ d \in Heads /\ Spans(x, c, npages[c]) /\ Spans(y, d, npages[d])
    BY <1>1, <1>6, BigSpans DEF Heads
  <2>2. c # d
    <3>1. x.at = c * PAGE_SIZE + SMALLEST /\ y.at = d * PAGE_SIZE + SMALLEST
      BY <1>1, <1>6 DEF BlocksInv, ChunkOK
    <3> HIDE DEF c, d
    <3> QED  BY <1>1, <3>1 DEF BlocksInv
  <2> HIDE DEF c, d
  <2>3. c + npages[c] <= d \/ d + npages[d] <= c
    <3>1. c \in Nat /\ d \in Nat
      BY <1>3, <2>1
    <3>2. (c < d => c + npages[c] <= d) /\ (d < c => d + npages[d] <= c)
      BY <1>2, <2>1 DEF Partition
    <3> QED  BY <2>2, <3>1, <3>2
  <2> QED  BY <1>1, <2>1, <2>3, SpansApart
<1> QED  BY <1>4, <1>5, <1>6

\* A step hands out a block, takes one back or does neither.
LEMMA LiveSteps ==
  ASSUME [Next]_vars
  PROVE  \/ live' = live
         \/ \E x : live' = live \cup {x}
         \/ \E x \in live : live' = live \ {x}
<1>1. ASSUME NEW sz \in Requests, mm_malloc(sz)
      PROVE  live' = live \/ \E x : live' = live \cup {x}
  <2>1. FromPage(sz) => \E x : live' = live \cup {x}
    BY DEF FromPage, TakeBlock
  <2>2. FromNewPage(sz) => \E x : live' = live \cup {x}
    BY DEF FromNewPage, TakeBlock
  <2>3. NoPageLeft(sz) => live' = live
    BY DEF NoPageLeft
  <2>4. big_kmalloc(sz) => \E x : live' = live \cup {x}
    BY DEF big_kmalloc, FromChunk, FromSbrk, FromStray, Give
  <2> QED  BY <1>1, <2>1, <2>2, <2>3, <2>4 DEF mm_malloc, subpage_kmalloc
<1>2. ASSUME NEW x \in live, mm_free(x) PROVE live' = live \ {x}
  BY <1>2 DEF mm_free, subpage_kfree, big_kfree
<1>3. UNCHANGED vars => live' = live
  BY DEF vars
<1> QED  BY <1>1, <1>2, <1>3 DEF Next, Lost

\* kheap keeps the promise of an allocator: what mm_malloc returns lies in the data
\* segment and overlaps none of the program's blocks, whatever was freed and reused before,
\* up to the request for a chunk that is given a block that went astray (NothingAstray: with
\* 32-bit addresses there is no such request).
THEOREM ImplementsAllocatorCorrect == Spec => ImplementsAllocator
<1>1. Init => Malloc!Init
  BY DEF Init, Malloc!Init
<1>2. IInv' => Within' /\ Apart'
  BY IInvWithin, IInvApart, PTL
<1>3. KnownInv' /\ [Next]_vars => [Malloc!Next \/ wild']_live
  <2> SUFFICES ASSUME Within', Apart', [Next]_vars PROVE [Malloc!Next]_live
    BY <1>2 DEF KnownInv
  <2>1. CASE live' = live
    BY <2>1
  <2>2. ASSUME NEW x, x \notin live, live' = live \cup {x} PROVE Malloc!Next
    <3>1. /\ x.len \in Requests
          /\ x.at \in BASE * PAGE_SIZE .. (BASE + PAGES) * PAGE_SIZE - 1
          /\ x.at + x.len - 1 \in BASE * PAGE_SIZE .. (BASE + PAGES) * PAGE_SIZE - 1
      BY <2>2 DEF Within
    <3>2. \A y \in live : ~ Malloc!Overlap(x, y)
      BY <2>2 DEF Apart, Malloc!Overlap
    <3>3. Malloc!Malloc(x)
      BY <2>2, <3>1, <3>2 DEF Malloc!Malloc
    <3> QED  BY <2>2, <3>3 DEF Malloc!Next
  <2>3. ASSUME NEW x \in live, live' = live \ {x} PROVE Malloc!Next
    BY <2>3 DEF Malloc!Next, Malloc!Free
  <2>4. ASSUME NEW x, live' = live \cup {x} PROVE [Malloc!Next]_live
    <3>1. CASE x \in live
      BY <2>4, <3>1
    <3>2. CASE x \notin live
      BY <2>2, <2>4, <3>2
    <3> QED  BY <3>1, <3>2
  <2> QED  BY <2>1, <2>3, <2>4, LiveSteps
<1> QED  BY <1>1, <1>3, InvariantHolds, PTL DEF Spec, Malloc!Spec, ImplementsAllocator
=============================================================================
