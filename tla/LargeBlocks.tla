------------------------------- MODULE LargeBlocks -------------------------------
(***************************************************************************)
(* malloc_large and free_large of a2alloc.c: chunks of pages, in a list of   *)
(* the heap of the CPU that allocated them or, when free, in the list of     *)
(* heap 0.  One action is one section under a lock.                          *)
(***************************************************************************)
EXTENDS LinkedLists, Integers

CONSTANTS
  Threads, NumProcessors,
  PAGES,              \* pages mem_sbrk can hand out
  MAX_PAGES           \* bound: pages of a request

VARIABLES
  cpu,                          \* of a thread, from its affinity mask
  pc, want, target,             \* locals of the call a thread is in
  brk,                          \* pages 1 .. brk have been handed out
  num_pages, heap_id, prev, next,         \* header of a chunk, in its first page
  bin_large,                    \* of a heap: the first of its chunks
  live                          \* first pages of the chunks the program holds

vars == <<cpu, pc, want, target, brk, num_pages, heap_id, prev, next, bin_large, live>>

Heaps == 0 .. NumProcessors
Pages == 1 .. PAGES

Init ==
  /\ cpu \in [Threads -> 0 .. NumProcessors - 1]
  /\ pc = [t \in Threads |-> "idle"]
  /\ want = [t \in Threads |-> 0] /\ target = [t \in Threads |-> NULL]
  /\ brk = 0
  /\ num_pages = [p \in Pages |-> 0] /\ heap_id = [p \in Pages |-> 0]
  /\ prev = [p \in Pages |-> NULL] /\ next = [p \in Pages |-> NULL]
  /\ bin_large = [h \in Heaps |-> NULL]
  /\ live = {}

Goto(t, label) == pc' = [pc EXCEPT ![t] = label]

\* Pushing c in front of the list of h.
Push(h, c) ==
  /\ next' = [next EXCEPT ![c] = bin_large[h]]
  /\ prev' = [p \in Pages |-> CASE p = c -> NULL
                                [] p # c /\ p = bin_large[h] -> c
                                [] OTHER -> prev[p]]
  /\ bin_large' = [bin_large EXCEPT ![h] = c]

-----------------------------------------------------------------------------
(* malloc_large *)

Free == Walk(bin_large[0], next)
Fits(n) == {c \in Free : num_pages[c] >= n}

\* The first chunk that fits leaves the free list; what is left of it stays there.
TakeFree(t, n) ==
  \E c \in Fits(n) :
    LET rest == c + n
        split == num_pages[c] > n
        new_next == IF split THEN rest ELSE next[c]
        new_prev == IF split THEN rest ELSE prev[c]
    IN  /\ Fits(n) \subseteq Walk(c, next)
        /\ target' = [target EXCEPT ![t] = c]
        /\ num_pages' = IF split THEN [num_pages EXCEPT ![rest] = num_pages[c] - n] ELSE num_pages
        /\ heap_id' = IF split THEN [heap_id EXCEPT ![rest] = 0] ELSE heap_id
        /\ next' = [p \in Pages |-> CASE p = prev[c] -> new_next
                                      [] p # prev[c] /\ split /\ p = rest -> next[c]
                                      [] OTHER -> next[p]]
        /\ prev' = [p \in Pages |-> CASE p = next[c] -> new_prev
                                      [] p # next[c] /\ split /\ p = rest -> prev[c]
                                      [] OTHER -> prev[p]]
        /\ bin_large' = IF prev[c] = NULL THEN [bin_large EXCEPT ![0] = new_next] ELSE bin_large

Search(t, n) ==
  /\ pc[t] = "idle"
  /\ want' = [want EXCEPT ![t] = n]
  /\ \/ TakeFree(t, n) /\ Goto(t, "insert")
     \/ /\ Fits(n) = {}
        /\ Goto(t, "sbrk")
        /\ UNCHANGED <<target, num_pages, heap_id, next, prev, bin_large>>
  /\ UNCHANGED <<cpu, brk, live>>

Sbrk(t) ==
  /\ pc[t] = "sbrk"
  /\ brk + want[t] <= PAGES
  /\ brk' = brk + want[t]
  /\ target' = [target EXCEPT ![t] = brk + 1]
  /\ Goto(t, "insert")
  /\ UNCHANGED <<cpu, want, num_pages, heap_id, prev, next, bin_large, live>>

\* Into the list of heap cpu + 1; heap_id becomes cpu.
Insert(t) ==
  /\ pc[t] = "insert"
  /\ Push(cpu[t] + 1, target[t])
  /\ num_pages' = [num_pages EXCEPT ![target[t]] = want[t]]
  /\ heap_id' = [heap_id EXCEPT ![target[t]] = cpu[t]]
  /\ live' = live \cup {target[t]}
  /\ Goto(t, "idle")
  /\ UNCHANGED <<cpu, want, target, brk>>

-----------------------------------------------------------------------------
(* free_large *)

Unlink(t, c) ==
  /\ pc[t] = "idle"
  /\ c \in live
  /\ live' = live \ {c}
  /\ target' = [target EXCEPT ![t] = c]
  /\ bin_large' = [bin_large EXCEPT ![heap_id[c]] = UnlinkedHead(@, next, prev, c)]
  /\ next' = UnlinkedNext(next, prev, c)
  /\ prev' = UnlinkedPrev(next, prev, c)
  /\ Goto(t, "release")
  /\ UNCHANGED <<cpu, want, brk, num_pages, heap_id>>

Release(t) ==
  /\ pc[t] = "release"
  /\ Push(0, target[t])
  /\ Goto(t, "idle")
  /\ UNCHANGED <<cpu, want, target, brk, num_pages, heap_id, live>>

Next ==
  \E t \in Threads :
    \/ \E n \in 1 .. MAX_PAGES : Search(t, n)
    \/ Sbrk(t) \/ Insert(t)
    \/ \E c \in live : Unlink(t, c)
    \/ Release(t)

Spec == Init /\ [][Next]_vars

-----------------------------------------------------------------------------
\* "If this belongs to the global heap, indicates that the chunk is free"
\* (a2alloc.c:53): no chunk in the program's hands is in the list of heap 0, from
\* where malloc_large would hand it out again.
GlobalChunksFree == Free \cap live = {}
=============================================================================
