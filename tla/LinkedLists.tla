----------------------------- MODULE LinkedLists -----------------------------
(***************************************************************************)
(* The pointer lists of the chat server (A3/server_util.c).  A list is the  *)
(* address of its first node, h, and one function per pointer field, from   *)
(* the address of a node to the address the field holds.  The server links  *)
(* and unlinks nodes by hand in five places; the operators below are those  *)
(* assignments, and IsList says when they leave a list behind.              *)
(***************************************************************************)
CONSTANT NULL       \* the null pointer

-----------------------------------------------------------------------------
(* Walking a list: "for(p = h; p != NULL; p = p->next)". *)

\* T contains every node the walk from h comes to, once it contains one of them.
Closed(T, h, next) ==
  /\ h # NULL => h \in T
  /\ \A x \in T : next[x] # NULL => next[x] \in T

\* The nodes the walk from h visits: the least closed set of addresses.
Walk(h, next) ==
  {a \in DOMAIN next : \A T \in SUBSET DOMAIN next : Closed(T, h, next) => a \in T}

-----------------------------------------------------------------------------
(* Unlinking the node m of a doubly linked list: if m has a predecessor,   *)
(* its next pointer skips m, otherwise the head moves on; if m has a       *)
(* successor, its prev pointer skips m, otherwise the tail moves back.     *)

UnlinkedNext(next, prev, m) ==
  IF prev[m] = NULL THEN next ELSE [next EXCEPT ![prev[m]] = next[m]]

UnlinkedPrev(next, prev, m) ==
  IF next[m] = NULL THEN prev ELSE [prev EXCEPT ![next[m]] = prev[m]]

UnlinkedHead(h, next, prev, m) == IF prev[m] = NULL THEN next[m] ELSE h

\* Mutant: unlinking the last node does not move the tail back.
UnlinkedTailStays(t, next, prev, m) == t

UnlinkedTail(t, next, prev, m) == IF next[m] = NULL THEN prev[m] ELSE t

-----------------------------------------------------------------------------
(* Appending the node m, whose pointers are NULL, to the list h .. t. *)

AppendedNext(h, t, next, m) == IF h = NULL THEN next ELSE [next EXCEPT ![t] = m]

AppendedPrev(h, t, prev, m) == IF h = NULL THEN prev ELSE [prev EXCEPT ![m] = t]

\* Mutant: the new node becomes the head of a list that has one.
AppendedHeadAlways(h, m) == m

AppendedHead(h, m) == IF h = NULL THEN m ELSE h

-----------------------------------------------------------------------------
(* What a list is. *)

\* h heads a singly linked list of exactly the nodes of S: no pointer leaves
\* S, no two nodes have the same successor, none precedes h, and the walk from
\* h misses no node of S.
IsChain(S, h, next) ==
  /\ h \in S \cup {NULL}
  /\ h = NULL <=> S = {}
  /\ \A x \in S : next[x] \in S \cup {NULL} /\ next[x] # h
  /\ \A x, y \in S : next[x] = next[y] /\ next[x] # NULL => x = y
  /\ \A T \in SUBSET S : Closed(T, h, next) => T = S

\* h heads a doubly linked list of exactly the nodes of S, of which no tail is kept.
IsDoublyLinked(S, h, next, prev) ==
  /\ IsChain(S, h, next)
  /\ \A x \in S : prev[x] \in S \cup {NULL} /\ (prev[x] = NULL <=> x = h)
  /\ \A x, y \in S : next[x] = y <=> prev[y] = x

\* h and t are the ends of a doubly linked list of exactly the nodes of S: the
\* prev pointers are the next pointers turned round and t is the last node.
IsList(S, h, t, next, prev) ==
  /\ IsChain(S, h, next)
  /\ t \in S \cup {NULL}
  /\ t = NULL <=> S = {}
  /\ \A x \in S : /\ next[x] = NULL <=> x = t
                  /\ prev[x] \in S \cup {NULL}
                  /\ prev[x] = NULL <=> x = h
  /\ \A x, y \in S : next[x] = y <=> prev[y] = x
=============================================================================
