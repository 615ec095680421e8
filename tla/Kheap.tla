--------------------------------- MODULE Kheap ---------------------------------
(***************************************************************************)
(* The allocator kheap (A2/allocators/kheap/kheap.c) over the data segment of *)
(* memlib: pages of blocks of one size, page references, chunks of pages.     *)
(* mm_malloc and mm_free hold malloc_lock throughout, so each is one step.    *)
(* Addresses are numbers, pages are known by their frame number.              *)
(*                                                                           *)
(* A page reference keeps the lower 32 bits of its page's address.  A small   *)
(* block of a page beyond them is not recognised when it is freed: it goes    *)
(* among the free chunks, and the word in front of it, which belongs to       *)
(* another block, is taken for the number of its pages.                       *)
(***************************************************************************)
EXTENDS Integers, SequencesExt

CONSTANTS
  PAGE_SIZE,
  sizes,            \* block sizes of the subpage allocator
  REFS,             \* page references in a page: PAGE_SIZE / sizeof(struct pageref)
  BASE,             \* frame of dseg_lo
  PAGES,            \* bound: pages in the data segment, DSEG_MAX / PAGE_SIZE
  FRAMES,           \* frames of 32-bit addresses: PAGE_FRAME keeps a frame modulo FRAMES
  Requests          \* sizes the program asks for

ASSUME SizesAssumption ==
  /\ PAGE_SIZE \in Nat \ {0} /\ REFS \in Nat \ {0}
  /\ sizes \subseteq 1 .. PAGE_SIZE - 1 /\ sizes # {}
  /\ \A s \in sizes : PAGE_SIZE % s = 0
  /\ Requests \subseteq Nat \ {0}

\* The data segment may lie anywhere; it is smaller than 4 GB (256 MB).
ASSUME FrameAssumption ==
  BASE \in Nat \ {0} /\ PAGES \in Nat /\ FRAMES \in Nat \ {0} /\ PAGES <= FRAMES

VARIABLES
  brk,              \* first frame not yet obtained, dseg_hi + 1
  fresh_refs,       \* page references without a page
  recycled_refs,    \* page references of wholly free pages
  sizebases,        \* size -> page references in use for it
  page, blocktype,  \* pageref -> the page its blocks are on (see PR_PAGEADDR), their size
  flist, nfree,     \* pageref -> offsets of the free blocks, and their number
  bigchunks,        \* free chunks: frames of their first pages
  npages,           \* frame of a chunk -> its first word
  strays,           \* small blocks among the free chunks, by address
  ahead,            \* chunks of bigchunks in front of the first of them
  wild,             \* one of them was taken for a chunk: nothing is known any more
  live              \* blocks the program holds: address, length asked for

refVars == <<fresh_refs, recycled_refs, sizebases, page, blocktype, flist, nfree>>
strayVars == <<strays, ahead, wild>>
bigVars == <<bigchunks, npages, strayVars>>
vars == <<brk, refVars, bigVars, live>>

SMALLEST == CHOOSE s \in sizes : \A t \in sizes : s <= t
LARGEST == CHOOSE s \in sizes : \A t \in sizes : t <= s

Frames == BASE .. BASE + PAGES - 1
Refs == BASE * REFS .. (BASE + PAGES) * REFS - 1

Init ==
  /\ brk = BASE
  /\ fresh_refs = <<>> /\ recycled_refs = <<>> /\ bigchunks = <<>>
  /\ sizebases = [s \in sizes |-> <<>>]
  /\ page = [r \in Refs |-> 0] /\ blocktype = [r \in Refs |-> SMALLEST]
  /\ flist = [r \in Refs |-> <<>>] /\ nfree = [r \in Refs |-> 0]
  /\ npages = [f \in Frames |-> 0]
  /\ strays = {} /\ ahead = 0 /\ wild = FALSE
  /\ live = {}

\* mem_sbrk has n more pages behind those up to top.
mem_sbrk(top, n) == top + n <= BASE + PAGES

\* What MKPAB has kept of the address of r's page; the pointers of the free list are whole.
PR_PAGEADDR(r) == page[r] % FRAMES

\* The smallest size that sz fits.
blocktype_of(sz) == CHOOSE s \in sizes : s >= sz /\ \A t \in sizes : t >= sz => s <= t

-----------------------------------------------------------------------------
(* Blocks smaller than LARGEST. *)

\* Where a reference for a new page comes from; "ref" is 0 if there is none.  The
\* references of a new page are cleared: they have no page yet.
allocpageref ==
  IF recycled_refs # <<>> THEN
    [ref |-> Head(recycled_refs), recycled |-> Tail(recycled_refs),
     fresh |-> fresh_refs, top |-> brk]
  ELSE IF fresh_refs # <<>> THEN
    [ref |-> Head(fresh_refs), recycled |-> <<>>, fresh |-> Tail(fresh_refs), top |-> brk]
  ELSE IF mem_sbrk(brk, 1) THEN
    [ref |-> brk * REFS, recycled |-> <<>>,
     fresh |-> [i \in 1 .. REFS - 1 |-> brk * REFS + i], top |-> brk + 1]
  ELSE [ref |-> 0, recycled |-> <<>>, fresh |-> <<>>, top |-> brk]

\* Mutant: the reference goes to the end of the list.
freepagerefLast(r, recycled) == Append(recycled, r)

freepageref(r, recycled) == <<r>> \o recycled

Blocks(s) == {i * s : i \in 0 .. PAGE_SIZE \div s - 1}

\* The free list of a new page is built from the front: its head is the last block.
NewList(s) == LET n == PAGE_SIZE \div s IN [i \in 1 .. n |-> (n - i) * s]

\* References of size s with a free block, as places in their list.
WithSpace(s) == {i \in DOMAIN sizebases[s] : nfree[sizebases[s][i]] > 0}

\* "doalloc": the head of the free list fl, of n blocks, of the page at frame f.
TakeBlock(r, f, fl, n, sz) ==
  /\ flist' = [flist EXCEPT ![r] = Tail(fl)]
  /\ nfree' = [nfree EXCEPT ![r] = n - 1]
  /\ live' = live \cup {[at |-> f * PAGE_SIZE + Head(fl), len |-> sz]}

FromPage(sz) ==
  LET s == blocktype_of(sz) IN
  \E i \in WithSpace(s) :
    LET r == sizebases[s][i] IN
    /\ \A j \in WithSpace(s) : i <= j
    /\ TakeBlock(r, page[r], flist[r], nfree[r], sz)
    /\ UNCHANGED <<brk, fresh_refs, recycled_refs, sizebases, page, blocktype, bigVars>>

\* No page of the size has a block: a page of its own or a recycled one is cut up.
FromNewPage(sz) ==
  LET s == blocktype_of(sz)
      got == allocpageref
      r == got.ref
      recycled == PR_PAGEADDR(r) # 0
      f == IF recycled THEN PR_PAGEADDR(r) ELSE got.top IN
  /\ WithSpace(s) = {} /\ r # 0
  /\ recycled \/ mem_sbrk(got.top, 1)
  /\ brk' = IF recycled THEN got.top ELSE got.top + 1
  /\ recycled_refs' = got.recycled /\ fresh_refs' = got.fresh
  /\ page' = [page EXCEPT ![r] = f]
  /\ blocktype' = [blocktype EXCEPT ![r] = s]
  /\ sizebases' = [sizebases EXCEPT ![s] = <<r>> \o @]
  /\ TakeBlock(r, f, NewList(s), PAGE_SIZE \div s, sz)
  /\ UNCHANGED bigVars

\* There is a reference but no page for it: mm_malloc returns NULL.
NoPageLeft(sz) ==
  LET got == allocpageref IN
  /\ WithSpace(blocktype_of(sz)) = {} /\ got.ref # 0
  /\ PR_PAGEADDR(got.ref) = 0 /\ ~ mem_sbrk(got.top, 1)
  /\ brk' = got.top
  /\ fresh_refs' = got.fresh
  /\ recycled_refs' = freepageref(got.ref, got.recycled)
  /\ UNCHANGED <<sizebases, page, blocktype, flist, nfree, bigVars, live>>

\* If there is no reference either, NULL is returned and nothing changed.
subpage_kmalloc(sz) == FromPage(sz) \/ FromNewPage(sz) \/ NoPageLeft(sz)

\* The references in use whose page seems to hold address a; subpage_kfree takes the first.
Owners(a) ==
  {r \in UNION {ToSet(sizebases[s]) : s \in sizes} :
     PR_PAGEADDR(r) * PAGE_SIZE <= a /\ a < (PR_PAGEADDR(r) + 1) * PAGE_SIZE}

\* Mutant: the reference of a wholly free page stays in its list.
remove_lists_forgotten(r, s) == sizebases

\* The first place of r in the list of size s.
PlaceOf(r, s) ==
  CHOOSE i \in DOMAIN sizebases[s] :
    sizebases[s][i] = r /\ \A j \in 1 .. i - 1 : sizebases[s][j] # r

remove_lists(r, s) == [sizebases EXCEPT ![s] = RemoveAt(@, PlaceOf(r, s))]

subpage_kfree(x, r) ==
  LET whole == nfree[r] + 1 = PAGE_SIZE \div blocktype[r] IN
  /\ r \in Owners(x.at)
  /\ flist' = [flist EXCEPT ![r] = <<x.at - PR_PAGEADDR(r) * PAGE_SIZE>> \o @]
  /\ nfree' = [nfree EXCEPT ![r] = @ + 1]
  /\ sizebases' = IF whole THEN remove_lists(r, blocktype[r]) ELSE sizebases
  /\ recycled_refs' = IF whole THEN freepageref(r, recycled_refs) ELSE recycled_refs
  /\ live' = live \ {x}
  /\ UNCHANGED <<brk, fresh_refs, page, blocktype, bigVars>>

-----------------------------------------------------------------------------
(* Chunks of pages; the first word holds their number, the program's bytes follow *)
(* after SMALLEST.                                                              *)

\* Mutant: no room is left for the first word.
PagesForBytesOnly(sz) == (sz + PAGE_SIZE - 1) \div PAGE_SIZE

PagesFor(sz) == (sz + SMALLEST + PAGE_SIZE - 1) \div PAGE_SIZE

\* The first chunk of n pages or more, as its place in the list.
FirstFit(n, i) ==
  /\ npages[bigchunks[i]] >= n
  /\ \A j \in 1 .. i - 1 : npages[bigchunks[j]] < n

\* Mutant: the front of the chunk is handed out, not its end.
CarveFront(c, n) == c

\* A larger chunk keeps its front; the block is cut off its end.
CarvedAt(c, n) == c + npages[c] - n

Give(at, sz) == live' = live \cup {[at |-> at, len |-> sz]}

FromChunk(n, sz) ==
  \E i \in DOMAIN bigchunks :
    LET c == bigchunks[i] IN
    /\ FirstFit(n, i)
    /\ \/ /\ npages[c] > n
          /\ npages' = [npages EXCEPT ![c] = @ - n, ![CarvedAt(c, n)] = n]
          /\ Give(CarvedAt(c, n) * PAGE_SIZE + SMALLEST, sz)
          /\ UNCHANGED <<bigchunks, ahead>>
       \/ /\ npages[c] = n
          /\ bigchunks' = RemoveAt(bigchunks, i)
          /\ ahead' = IF i <= ahead THEN ahead - 1 ELSE ahead
          /\ Give(c * PAGE_SIZE + SMALLEST, sz)
          /\ UNCHANGED npages
    /\ UNCHANGED <<brk, refVars, strays, wild>>

\* With no chunk large enough, from mem_sbrk, which may fail: then nothing changes.
FromSbrk(n, sz) ==
  /\ \A i \in DOMAIN bigchunks : ~ FirstFit(n, i)
  /\ mem_sbrk(brk, n)
  /\ brk' = brk + n
  /\ npages' = [npages EXCEPT ![brk] = n]
  /\ Give(brk * PAGE_SIZE + SMALLEST, sz)
  /\ UNCHANGED <<refVars, bigchunks, strayVars>>

\* The walk comes to a stray block before a chunk that is large enough, and the word in
\* front of it is n, or k more: the block, or one k pages on, is given out.  (If it is
\* less, the walk goes on: FromChunk, FromSbrk.)
FromStray(n, sz) ==
  /\ strays # {}
  /\ \A i \in DOMAIN bigchunks : i <= ahead => npages[bigchunks[i]] < n
  /\ \E a \in strays, k \in 0 .. PAGES : Give(a + k * PAGE_SIZE, sz)
  /\ wild' = TRUE
  /\ UNCHANGED <<brk, refVars, bigchunks, npages, strays, ahead>>

big_kmalloc(sz) ==
  LET n == PagesFor(sz) IN FromChunk(n, sz) \/ FromSbrk(n, sz) \/ FromStray(n, sz)

Small(x) == x.len < LARGEST

\* The chunk becomes the first of bigchunks; so does what is no chunk.
big_kfree(x) ==
  /\ live' = live \ {x}
  /\ \/ /\ ~ Small(x)
        /\ bigchunks' = <<(x.at - SMALLEST) \div PAGE_SIZE>> \o bigchunks
        /\ ahead' = IF strays = {} THEN 0 ELSE ahead + 1
        /\ UNCHANGED strays
     \/ /\ Small(x)
        /\ strays' = strays \cup {x.at}
        /\ ahead' = 0
        /\ UNCHANGED bigchunks
  /\ UNCHANGED <<brk, refVars, npages, wild>>

-----------------------------------------------------------------------------

mm_malloc(sz) ==
  IF sz >= LARGEST THEN big_kmalloc(sz) ELSE subpage_kmalloc(sz)

\* A pointer on no page of blocks is taken for that of a chunk.
mm_free(x) ==
  IF Owners(x.at) # {} THEN \E r \in Owners(x.at) : subpage_kfree(x, r) ELSE big_kfree(x)

\* From then on the model says nothing.
Lost == wild /\ UNCHANGED vars

Next ==
  \/ ~ wild /\ \E sz \in Requests : mm_malloc(sz)
  \/ ~ wild /\ \E x \in live : mm_free(x)
  \/ Lost

Spec == Init /\ [][Next]_vars

-----------------------------------------------------------------------------
(* Properties. *)

InUse == UNION {ToSet(sizebases[s]) : s \in sizes}
AllRefs == ToSet(fresh_refs) \cup ToSet(recycled_refs) \cup InUse
RefLists ==
  [k \in sizes \cup {0, -1} |->
     IF k = 0 THEN fresh_refs ELSE IF k = -1 THEN recycled_refs ELSE sizebases[k]]

\* Who holds the page at frame f: page references, one reference as its blocks, a
\* chunk in the program's hands or a free chunk.
Uses(f) ==
  {<<"refs", q>> : q \in {q \in {r \div REFS : r \in AllRefs} : q = f}}
  \cup {<<"page", r>> : r \in {r \in AllRefs : page[r] = f}}
  \cup {<<"block", x.at>> : x \in {x \in live :
          ~ Small(x) /\ LET c == x.at \div PAGE_SIZE IN f \in c .. c + npages[c] - 1}}
  \cup {<<"chunk", i>> : i \in {i \in DOMAIN bigchunks :
          LET c == bigchunks[i] IN f \in c .. c + npages[c] - 1}}

\* Every page obtained from mem_sbrk has exactly one use, and no other page has any:
\* none is lost or used twice, however pages are cut up, recycled for another size,
\* carved off a chunk and given back (allocpageref, remove_lists, big_kmalloc).
PagesOnce ==
  ~ wild =>
    \A f \in Frames :
      IF f < brk THEN \E u \in Uses(f) : Uses(f) = {u} ELSE Uses(f) = {}

\* The offsets, in the page of r, of the addresses in S.
OnPage(S, r) ==
  {a - page[r] * PAGE_SIZE : a \in {a \in S : a \div PAGE_SIZE = page[r]}}

\* The blocks of a page in use are those in its free list, those the program holds and
\* those that went astray; nfree counts the first; a page with a 32-bit address is never
\* wholly free; no block of such a page goes astray, and its blocks in the program's
\* hands are found by their address; a chunk is found on no page.  That is what
\* checksubpage asserts, and what the comment "Each page also has a freecount, so we
\* know when the page is completely free" (kheap.c:48) rests on.
BlocksExact ==
  ~ wild =>
    /\ \A s \in sizes : \A r \in ToSet(sizebases[s]) :
         LET held == OnPage({x.at : x \in live}, r)
             gone == OnPage(strays, r)
             free == ToSet(flist[r]) IN
         /\ blocktype[r] = s
         /\ held \cap free = {} /\ held \cap gone = {} /\ free \cap gone = {}
         /\ held \cup free \cup gone = Blocks(s)
         /\ nfree[r] = Len(flist[r]) /\ IsInjective(flist[r])
         /\ page[r] < FRAMES => held # {} /\ gone = {}
    /\ \A x \in live :
         IF Small(x) /\ x.at \div PAGE_SIZE < FRAMES
         THEN \E r \in Owners(x.at) :
                /\ Owners(x.at) = {r}
                /\ page[r] = x.at \div PAGE_SIZE /\ blocktype[r] = blocktype_of(x.len)
         ELSE Owners(x.at) = {}

\* The references are in one list each, and every one of a page of references is in one.
\* One that got no page (freepageref after mem_sbrk failed) lies below all recycled
\* pages, or memory that is free would be refused.
RefsOnce ==
  ~ wild =>
    /\ \A k \in DOMAIN RefLists : IsInjective(RefLists[k])
    /\ \A k, m \in DOMAIN RefLists : k # m => ToSet(RefLists[k]) \cap ToSet(RefLists[m]) = {}
    /\ \A r \in AllRefs : \A i \in 0 .. REFS - 1 : (r \div REFS) * REFS + i \in AllRefs
    /\ \A r \in ToSet(fresh_refs) : page[r] = 0
    /\ \A i \in DOMAIN recycled_refs :
         page[recycled_refs[i]] = 0 => i = Len(recycled_refs) /\ brk = BASE + PAGES

Malloc == INSTANCE Allocator WITH
  Segment <- BASE * PAGE_SIZE .. (BASE + PAGES) * PAGE_SIZE - 1

\* The program's blocks never overlap one another and lie in the data segment, up to the
\* request for a chunk that is given a stray block.
ImplementsAllocator == Malloc!Init /\ [][Malloc!Next \/ wild']_live
=============================================================================
