-------------------------- MODULE LinkedListsProofs --------------------------
(***************************************************************************)
(* What linking and unlinking a node does to a list, for lists of any        *)
(* length.  No induction is needed: that a walk misses no node is stated as  *)
(* a property of every closed set of nodes, and survives because a set       *)
(* closed under the new pointers is closed, or nearly, under the old ones.   *)
(***************************************************************************)
EXTENDS LinkedLists, TLAPS

\* A search of a list visits exactly its nodes.
LEMMA WalkVisitsChain ==
  ASSUME NEW A, NEW S \in SUBSET A, NEW h, NEW next \in [A -> A \cup {NULL}],
         IsChain(S, h, next)
  PROVE  Walk(h, next) = S
<1>1. S \in SUBSET DOMAIN next /\ Closed(S, h, next)
  BY DEF IsChain, Closed
<1>2. ASSUME NEW a \in S, NEW T \in SUBSET DOMAIN next, Closed(T, h, next)
      PROVE  a \in T
  <2>1. T \cap S \in SUBSET S /\ Closed(T \cap S, h, next)
    BY <1>1, <1>2 DEF Closed
  <2> QED  BY <2>1 DEF IsChain
<1> QED  BY <1>1, <1>2 DEF Walk

\* The rest of a list, from one of its nodes, is part of the list.
LEMMA WalkStaysInChain ==
  ASSUME NEW A, NEW S \in SUBSET A, NEW h, NEW next \in [A -> A \cup {NULL}],
         IsChain(S, h, next), NEW x \in S \cup {NULL}
  PROVE  Walk(x, next) \subseteq S
<1>1. S \in SUBSET DOMAIN next /\ Closed(S, x, next)
  BY DEF IsChain, Closed
<1> QED  BY <1>1 DEF Walk

\* No node is its own successor.
LEMMA ChainHasNoLoop ==
  ASSUME NEW S, NULL \notin S, NEW h, NEW next, IsChain(S, h, next), NEW x \in S
  PROVE  next[x] # x
<1> SUFFICES ASSUME next[x] = x PROVE FALSE
  OBVIOUS
<1>1. h # NULL /\ h # x /\ h \in S
  BY DEF IsChain
<1>2. Closed(S \ {x}, h, next)
  BY <1>1 DEF Closed, IsChain
<1> QED  BY <1>2 DEF IsChain

\* Only the pointers of a list's own nodes matter to it.
LEMMA ChainFrame ==
  ASSUME NEW S, NULL \notin S, NEW h, NEW n1, NEW n2, IsChain(S, h, n1),
         \A x \in S : n2[x] = n1[x]
  PROVE  IsChain(S, h, n2)
<1>1. \A T \in SUBSET S : Closed(T, h, n2) => Closed(T, h, n1)
  BY DEF Closed
<1> QED  BY <1>1 DEF IsChain

LEMMA ListFrame ==
  ASSUME NEW S, NULL \notin S, NEW h, NEW t, NEW n1, NEW n2, NEW p1, NEW p2,
         IsList(S, h, t, n1, p1), \A x \in S : n2[x] = n1[x] /\ p2[x] = p1[x]
  PROVE  IsList(S, h, t, n2, p2)
<1>1. IsChain(S, h, n2)
  BY ChainFrame DEF IsList
<1> QED  BY <1>1 DEF IsList

\* No nodes, no list.
LEMMA EmptyList ==
  ASSUME NEW next, NEW prev
  PROVE  IsList({}, NULL, NULL, next, prev)
BY DEF IsList, IsChain

\* Appending m behind the last node t (create_room, and the two appends of
\* members) makes a list of one node more.
LEMMA ChainAppend ==
  ASSUME NEW A, NULL \notin A, NEW S \in SUBSET A, NEW h, NEW t,
         NEW next \in [A -> A \cup {NULL}], IsChain(S, h, next),
         h # NULL => t \in S /\ next[t] = NULL,
         NEW m \in A \ S, next[m] = NULL
  PROVE  /\ AppendedNext(h, t, next, m) \in [A -> A \cup {NULL}]
         /\ IsChain(S \cup {m}, AppendedHead(h, m), AppendedNext(h, t, next, m))
<1> DEFINE n == AppendedNext(h, t, next, m)
           g == AppendedHead(h, m)
<1>1. CASE h = NULL
  BY <1>1 DEF IsChain, Closed, AppendedNext, AppendedHead
<1>2. CASE h # NULL
  <2>1. /\ g = h /\ n = [next EXCEPT ![t] = m] /\ n \in [A -> A \cup {NULL}]
        /\ h \in S /\ t \in S /\ n[t] = m /\ n[m] = NULL
        /\ \A x \in S : x # t => n[x] = next[x]
    BY <1>2 DEF AppendedNext, AppendedHead, IsChain
  <2>2. \A x \in S \cup {m} : n[x] \in (S \cup {m}) \cup {NULL} /\ n[x] # h
    BY <2>1 DEF IsChain
  <2>3. ASSUME NEW x \in S \cup {m}, NEW y \in S \cup {m}, n[x] = n[y], n[x] # NULL
        PROVE  x = y
    BY <2>1, <2>3 DEF IsChain
  <2>4. ASSUME NEW T \in SUBSET (S \cup {m}), Closed(T, h, n)
        PROVE  T = S \cup {m}
    <3>1. Closed(T \cap S, h, next)
      BY <2>1, <2>4 DEF Closed, IsChain
    <3>2. T \cap S = S
      BY <3>1 DEF IsChain
    <3> QED  BY <2>1, <2>4, <3>2 DEF Closed
  <2>5. IsChain(S \cup {m}, h, n)
    <3> HIDE DEF n
    <3> QED  BY <2>1, <2>2, <2>3, <2>4 DEF IsChain
  <2> QED  BY <2>1, <2>5
<1> QED  BY <1>1, <1>2

LEMMA ListAppend ==
  ASSUME NEW A, NULL \notin A, NEW S \in SUBSET A, NEW h, NEW t,
         NEW next \in [A -> A \cup {NULL}], NEW prev \in [A -> A \cup {NULL}],
         IsList(S, h, t, next, prev),
         NEW m \in A \ S, next[m] = NULL, prev[m] = NULL
  PROVE  /\ AppendedNext(h, t, next, m) \in [A -> A \cup {NULL}]
         /\ AppendedPrev(h, t, prev, m) \in [A -> A \cup {NULL}]
         /\ IsList(S \cup {m}, AppendedHead(h, m), m,
                   AppendedNext(h, t, next, m), AppendedPrev(h, t, prev, m))
<1> DEFINE n == AppendedNext(h, t, next, m)
           p == AppendedPrev(h, t, prev, m)
           g == AppendedHead(h, m)
<1>0. IsChain(S, h, next)
  BY DEF IsList
<1>1. h # NULL => t \in S /\ next[t] = NULL
  BY DEF IsList, IsChain
<1>2. n \in [A -> A \cup {NULL}] /\ IsChain(S \cup {m}, g, n)
  BY <1>0, <1>1, ChainAppend
<1>3. p \in [A -> A \cup {NULL}]
  BY <1>1 DEF AppendedPrev
<1>4. CASE h = NULL
  <2>1. S = {} /\ n = next /\ p = prev /\ g = m
    BY <1>4 DEF IsList, IsChain, AppendedNext, AppendedPrev, AppendedHead
  <2> QED  BY <1>2, <1>3, <2>1 DEF IsList
<1>5. CASE h # NULL
  <2>1. /\ g = h /\ h \in S /\ t \in S /\ m # t
        /\ n[t] = m /\ n[m] = NULL /\ \A x \in S : x # t => n[x] = next[x]
        /\ p[m] = t /\ \A x \in S : p[x] = prev[x]
    BY <1>1, <1>5 DEF IsList, IsChain, AppendedNext, AppendedPrev, AppendedHead
  <2>2. \A x \in S \cup {m} : /\ n[x] = NULL <=> x = m
                              /\ p[x] \in (S \cup {m}) \cup {NULL}
                              /\ p[x] = NULL <=> x = g
    BY <2>1 DEF IsList
  <2>3. ASSUME NEW x \in S \cup {m}, NEW y \in S \cup {m}
        PROVE  n[x] = y <=> p[y] = x
    <3>1. CASE x \in S /\ y \in S
      BY <2>1, <3>1 DEF IsList
    <3>2. CASE x \in S /\ y = m
      BY <2>1, <3>2 DEF IsList, IsChain
    <3>3. CASE x = m
      BY <2>1, <3>3 DEF IsList
    <3> QED  BY <3>1, <3>2, <3>3
  <2>4. IsList(S \cup {m}, g, m, n, p)
    <3> HIDE DEF n, p, g
    <3> QED  BY <1>2, <2>2, <2>3 DEF IsList
  <2> QED  BY <1>2, <1>3, <2>4
<1> QED  BY <1>4, <1>5

\* Unlinking the head of a chain, or the successor m of b (remove_room).
LEMMA ChainUnlinkHead ==
  ASSUME NEW A, NULL \notin A, NEW S \in SUBSET A, NEW h \in S,
         NEW next \in [A -> A \cup {NULL}], IsChain(S, h, next)
  PROVE  IsChain(S \ {h}, next[h], next)
<1>1. next[h] # h /\ next[h] \in (S \ {h}) \cup {NULL}
  BY DEF IsChain
<1>2. next[h] = NULL => S = {h}
  <2>1. next[h] = NULL => Closed({h}, h, next)
    BY DEF Closed
  <2> QED  BY <2>1 DEF IsChain
<1>3. \A x \in S \ {h} : /\ next[x] \in (S \ {h}) \cup {NULL}
                         /\ next[x] # next[h]
  BY <1>1, <1>2 DEF IsChain
<1>4. ASSUME NEW T \in SUBSET (S \ {h}), Closed(T, next[h], next)
      PROVE  T = S \ {h}
  <2>1. Closed(T \cup {h}, h, next)
    BY <1>4 DEF Closed
  <2> QED  BY <2>1 DEF IsChain
<1> QED  BY <1>1, <1>2, <1>3, <1>4 DEF IsChain

LEMMA ChainUnlink ==
  ASSUME NEW A, NULL \notin A, NEW S \in SUBSET A, NEW h,
         NEW next \in [A -> A \cup {NULL}], IsChain(S, h, next),
         NEW b \in S, NEW m \in S, next[b] = m
  PROVE  IsChain(S \ {m}, h, [next EXCEPT ![b] = next[m]])
<1> DEFINE n == [next EXCEPT ![b] = next[m]]
<1>1. /\ h \in S \ {m} /\ b # m /\ next[m] # m /\ m # NULL
      /\ n[b] = next[m] /\ \A x \in S : x # b => n[x] = next[x] /\ n[x] # m
  BY ChainHasNoLoop DEF IsChain
<1>2. \A x \in S \ {m} : n[x] \in (S \ {m}) \cup {NULL} /\ n[x] # h
  BY <1>1 DEF IsChain
<1>3. ASSUME NEW x \in S \ {m}, NEW y \in S \ {m}, n[x] = n[y], n[x] # NULL
      PROVE  x = y
  BY <1>1, <1>3 DEF IsChain
<1>4. ASSUME NEW T \in SUBSET (S \ {m}), Closed(T, h, n)
      PROVE  T = S \ {m}
  <2>1. CASE b \in T
    <3>1. Closed(T \cup {m}, h, next)
      BY <1>1, <1>4, <2>1 DEF Closed
    <3> QED  BY <3>1 DEF IsChain
  <2>2. CASE b \notin T
    <3>1. Closed(T, h, next)
      BY <1>1, <1>4, <2>2 DEF Closed
    <3> QED  BY <3>1, <2>2 DEF IsChain
  <2> QED  BY <2>1, <2>2
<1> QED  BY <1>1, <1>2, <1>3, <1>4 DEF IsChain

\* Unlinking m by its own pointers (remove_member and the switch of rooms),
\* which are then reset, makes a list of one node less.
LEMMA ListUnlink ==
  ASSUME NEW A, NULL \notin A, NEW S \in SUBSET A, NEW h, NEW t,
         NEW next \in [A -> A \cup {NULL}], NEW prev \in [A -> A \cup {NULL}],
         IsList(S, h, t, next, prev), NEW m \in S
  PROVE  LET n == [UnlinkedNext(next, prev, m) EXCEPT ![m] = NULL]
             p == [UnlinkedPrev(next, prev, m) EXCEPT ![m] = NULL]
         IN  /\ n \in [A -> A \cup {NULL}]
             /\ p \in [A -> A \cup {NULL}]
             /\ n[m] = NULL /\ p[m] = NULL
             /\ \A x \in A \ S : n[x] = next[x] /\ p[x] = prev[x]
             /\ IsList(S \ {m}, UnlinkedHead(h, next, prev, m),
                       UnlinkedTail(t, next, prev, m), n, p)
<1> DEFINE n0 == UnlinkedNext(next, prev, m)
           p0 == UnlinkedPrev(next, prev, m)
           n == [n0 EXCEPT ![m] = NULL]
           p == [p0 EXCEPT ![m] = NULL]
           g == UnlinkedHead(h, next, prev, m)
           u == UnlinkedTail(t, next, prev, m)
<1>0. IsChain(S, h, next) /\ NULL \notin S /\ h \in S /\ h # NULL
  BY DEF IsList, IsChain
<1>1. /\ next[m] \in (S \ {m}) \cup {NULL}
      /\ prev[m] \in (S \ {m}) \cup {NULL}
  BY <1>0, ChainHasNoLoop DEF IsList, IsChain
<1>2. /\ n0 \in [A -> A \cup {NULL}] /\ p0 \in [A -> A \cup {NULL}]
      /\ \A x \in A : x # prev[m] => n0[x] = next[x]
      /\ \A x \in A : x # next[m] => p0[x] = prev[x]
      /\ prev[m] # NULL => n0[prev[m]] = next[m]
      /\ next[m] # NULL => p0[next[m]] = prev[m]
  BY <1>1 DEF UnlinkedNext, UnlinkedPrev
<1>3. /\ n \in [A -> A \cup {NULL}] /\ p \in [A -> A \cup {NULL}]
      /\ n[m] = NULL /\ p[m] = NULL
      /\ \A x \in A : x # m => n[x] = n0[x] /\ p[x] = p0[x]
  BY <1>2
<1>4. \A x \in A \ S : n[x] = next[x] /\ p[x] = prev[x]
  BY <1>1, <1>2, <1>3
<1>5. IsChain(S \ {m}, g, n0)
  <2>1. CASE prev[m] = NULL
    <3>1. h = m /\ g = next[h] /\ n0 = next
      BY <2>1 DEF IsList, UnlinkedNext, UnlinkedHead
    <3> QED  BY <1>0, <3>1, ChainUnlinkHead
  <2>2. CASE prev[m] # NULL
    <3>1. /\ prev[m] \in S /\ next[prev[m]] = m
          /\ g = h /\ n0 = [next EXCEPT ![prev[m]] = next[m]]
      BY <1>1, <2>2 DEF IsList, UnlinkedNext, UnlinkedHead
    <3>2. IsChain(S \ {m}, h, [next EXCEPT ![prev[m]] = next[m]])
      BY <1>0, <3>1, ChainUnlink
    <3> QED  BY <3>1, <3>2
  <2> QED  BY <2>1, <2>2
<1>6. IsChain(S \ {m}, g, n)
  BY <1>0, <1>3, <1>5, ChainFrame
<1>7. u \in (S \ {m}) \cup {NULL} /\ (u = NULL <=> S \ {m} = {})
  <2>1. CASE next[m] = NULL
    <3>1. t = m /\ u = prev[m] /\ t \in S
      BY <1>0, <2>1 DEF IsList, UnlinkedTail
    <3>2. prev[m] = NULL => h = m
      BY DEF IsList
    <3>3. prev[m] = NULL => S = {m}
      BY <1>0, <2>1, <3>2, <1>6 DEF UnlinkedHead, IsChain
    <3> QED  BY <1>0, <1>1, <3>1, <3>3
  <2>2. CASE next[m] # NULL
    BY <1>0, <1>1, <2>2 DEF IsList, UnlinkedTail
  <2> QED  BY <2>1, <2>2
<1>8. ASSUME NEW x \in S \ {m}
      PROVE  /\ n[x] = NULL <=> x = u
             /\ p[x] \in (S \ {m}) \cup {NULL}
             /\ p[x] = NULL <=> x = g
  <2>1. n[x] = NULL <=> x = u
    BY <1>0, <1>1, <1>2, <1>3 DEF IsList, IsChain, UnlinkedTail
  <2>2. p[x] \in (S \ {m}) \cup {NULL}
    BY <1>0, <1>1, <1>2, <1>3 DEF IsList, IsChain
  <2>3. p[x] = NULL <=> x = g
    BY <1>0, <1>1, <1>2, <1>3 DEF IsList, IsChain, UnlinkedHead
  <2> QED  BY <2>1, <2>2, <2>3
<1>9. ASSUME NEW x \in S \ {m}, NEW y \in S \ {m}
      PROVE  n[x] = y <=> p[y] = x
  <2>1. n[x] = n0[x] /\ p[y] = p0[y]
    BY <1>3
  <2>2. CASE x = prev[m]
    BY <1>0, <1>1, <1>2, <2>1, <2>2 DEF IsList, IsChain
  <2>3. CASE x # prev[m]
    BY <1>0, <1>1, <1>2, <2>1, <2>3 DEF IsList, IsChain
  <2> QED  BY <2>2, <2>3
<1> QED  BY <1>3, <1>4, <1>6, <1>7, <1>8, <1>9 DEF IsList

-----------------------------------------------------------------------------
(* The rest of a list: what a cursor has yet to visit. *)

\* The nodes a walk visits are closed, and the walk from NULL visits none.
LEMMA WalkIsClosed ==
  ASSUME NEW A, NEW next \in [A -> A \cup {NULL}], NEW x \in A \cup {NULL}
  PROVE  Closed(Walk(x, next), x, next) /\ Walk(x, next) \in SUBSET A
<1>1. DOMAIN next = A
  OBVIOUS
<1>2. Walk(x, next) \in SUBSET A
  BY <1>1 DEF Walk
<1>3. x # NULL => x \in Walk(x, next)
  BY <1>1 DEF Walk, Closed
<1>4. ASSUME NEW a \in Walk(x, next), next[a] # NULL PROVE next[a] \in Walk(x, next)
  <2>1. a \in A /\ next[a] \in A
    BY <1>2, <1>4
  <2>2. ASSUME NEW T \in SUBSET A, Closed(T, x, next) PROVE next[a] \in T
    <3>1. a \in T
      BY <1>1, <2>2 DEF Walk
    <3> QED  BY <1>4, <2>2, <3>1 DEF Closed
  <2> QED  BY <1>1, <2>1, <2>2 DEF Walk
<1> QED  BY <1>2, <1>3, <1>4 DEF Closed

LEMMA WalkFromNull ==
  ASSUME NEW A, NEW next \in [A -> A \cup {NULL}]
  PROVE  Walk(NULL, next) = {}
<1>1. {} \in SUBSET DOMAIN next /\ Closed({}, NULL, next)
  BY DEF Closed
<1> QED  BY <1>1 DEF Walk

\* The walk from x is x and the walk from its successor.
LEMMA WalkUnfolds ==
  ASSUME NEW A, NULL \notin A, NEW next \in [A -> A \cup {NULL}], NEW x \in A
  PROVE  Walk(x, next) = {x} \cup Walk(next[x], next)
<1> DEFINE W == Walk(x, next)
           V == Walk(next[x], next)
<1>1. Closed(W, x, next) /\ W \in SUBSET A
  BY WalkIsClosed
<1>2. next[x] \in A \cup {NULL}
  OBVIOUS
<1>3. Closed(V, next[x], next) /\ V \in SUBSET A
  BY <1>2, WalkIsClosed
<1>4. x # NULL /\ DOMAIN next = A
  OBVIOUS
<1>5. W \subseteq {x} \cup V
  <2>1. Closed({x} \cup V, x, next)
    BY <1>3 DEF Closed
  <2> QED  BY <1>3, <1>4, <2>1 DEF Walk
<1>6. V \subseteq W
  <2>1. Closed(W, next[x], next)
    BY <1>1, <1>4 DEF Closed
  <2> QED  BY <1>1, <1>4, <2>1 DEF Walk
<1>7. x \in W
  BY <1>1, <1>4 DEF Closed
<1> QED  BY <1>5, <1>6, <1>7

\* A list does not come back to a node: if it did, the nodes on the loop would have no
\* predecessor off it, and the walk from the head would never reach them.
LEMMA WalkNeverReturns ==
  ASSUME NEW A, NULL \notin A, NEW S \in SUBSET A, NEW h,
         NEW next \in [A -> A \cup {NULL}], IsChain(S, h, next), NEW x \in S
  PROVE  x \notin Walk(next[x], next)
<1> DEFINE W == Walk(next[x], next)
<1> SUFFICES ASSUME x \in W PROVE FALSE
  OBVIOUS
<1>1. next[x] \in A \cup {NULL} /\ x \in A /\ x # NULL /\ DOMAIN next = A
  OBVIOUS
<1>2. Closed(W, next[x], next) /\ W \in SUBSET A
  BY <1>1, WalkIsClosed
<1>3. next[x] # NULL
  BY WalkFromNull
<1>4. W \subseteq S
  <2>1. next[x] \in S \cup {NULL}
    BY DEF IsChain
  <2> QED  BY <2>1, WalkStaysInChain
<1>5. \A z \in W : \E w \in W : next[w] = z
  <2> DEFINE T == {z \in W : \E w \in W : next[w] = z}
  <2>1. Closed(T, next[x], next)
    BY <1>1, <1>2, <1>3 DEF Closed
  <2>2. W \subseteq T
    BY <1>1, <1>2, <2>1 DEF Walk
  <2> QED  BY <2>2
<1>6. Closed(S \ W, h, next)
  <2>1. h \in S
    BY DEF IsChain
  <2>2. h \notin W
    BY <1>4, <1>5 DEF IsChain
  <2>3. ASSUME NEW y \in S \ W, next[y] # NULL PROVE next[y] \in S \ W
    <3>1. next[y] \in S
      BY <2>3 DEF IsChain
    <3>2. next[y] \notin W
      BY <1>4, <1>5, <2>3 DEF IsChain
    <3> QED  BY <3>1, <3>2
  <2> QED  BY <2>1, <2>2, <2>3 DEF Closed
<1>7. S \ W = S
  BY <1>6 DEF IsChain
<1> QED  BY <1>7

\* A walk depends on the pointers of the nodes it visits only.
LEMMA WalkFrame ==
  ASSUME NEW A, NEW n1 \in [A -> A \cup {NULL}], NEW n2 \in [A -> A \cup {NULL}],
         NEW x \in A \cup {NULL}, \A a \in Walk(x, n1) : n2[a] = n1[a]
  PROVE  Walk(x, n2) = Walk(x, n1)
<1>1. /\ Closed(Walk(x, n1), x, n1) /\ Walk(x, n1) \in SUBSET A
      /\ Closed(Walk(x, n2), x, n2) /\ Walk(x, n2) \in SUBSET A
      /\ DOMAIN n1 = A /\ DOMAIN n2 = A
  BY WalkIsClosed
<1>2. Closed(Walk(x, n1), x, n2)
  BY <1>1 DEF Closed
<1>3. Walk(x, n2) \subseteq Walk(x, n1)
  BY <1>1, <1>2 DEF Walk
<1>4. Closed(Walk(x, n2), x, n1)
  BY <1>1, <1>3 DEF Closed
<1>5. Walk(x, n1) \subseteq Walk(x, n2)
  BY <1>1, <1>4 DEF Walk
<1> QED  BY <1>3, <1>5

\* Unlinking a node does not change what a cursor behind it has yet to visit: neither
\* the node nor a predecessor of it lies there.
LEMMA WalkBehindUnlinked ==
  ASSUME NEW A, NULL \notin A, NEW S \in SUBSET A, NEW h,
         NEW n1 \in [A -> A \cup {NULL}], IsChain(S, h, n1), NEW x \in S,
         NEW n2 \in [A -> A \cup {NULL}],
         \A a \in A : a # x /\ n1[a] # x => n2[a] = n1[a]
  PROVE  Walk(n1[x], n2) = Walk(n1[x], n1)
<1>1. n1[x] \in A \cup {NULL} /\ x # NULL
  OBVIOUS
<1>2. x \notin Walk(n1[x], n1)
  BY WalkNeverReturns
<1>3. Closed(Walk(n1[x], n1), n1[x], n1) /\ Walk(n1[x], n1) \in SUBSET A
  BY <1>1, WalkIsClosed
<1>4. \A a \in Walk(n1[x], n1) : a \in A /\ a # x /\ n1[a] # x
  BY <1>1, <1>2, <1>3 DEF Closed
<1>5. \A a \in Walk(n1[x], n1) : n2[a] = n1[a]
  BY <1>4
<1> QED  BY <1>1, <1>5, WalkFrame

-----------------------------------------------------------------------------
(* Doubly linked lists without a tail (transfer_bins of a2alloc.c). *)

\* n, p and g are the pointers and the head after m has been taken off the list h.
AfterUnlink(h, next, prev, m, g, n, p) ==
  /\ n = UnlinkedNext(next, prev, m) /\ p = UnlinkedPrev(next, prev, m)
  /\ g = UnlinkedHead(h, next, prev, m)

\* n and p are the pointers after m has been put in front of the list h.
AfterPush(h, next, prev, m, n, p) ==
  /\ n = [next EXCEPT ![m] = h]
  /\ p = LET p0 == [prev EXCEPT ![m] = NULL]
         IN  IF h = NULL THEN p0 ELSE [p0 EXCEPT ![h] = m]

\* Only the pointers of its own nodes matter.
LEMMA DoublyFrame ==
  ASSUME NEW S, NULL \notin S, NEW h, NEW n1, NEW n2, NEW p1, NEW p2,
         IsDoublyLinked(S, h, n1, p1), \A x \in S : n2[x] = n1[x] /\ p2[x] = p1[x]
  PROVE  IsDoublyLinked(S, h, n2, p2)
<1>1. IsChain(S, h, n2)
  BY ChainFrame DEF IsDoublyLinked
<1> QED  BY <1>1 DEF IsDoublyLinked

\* Unlinking m leaves a list of one node less; m's own pointers stay.
LEMMA DoublyUnlink ==
  ASSUME NEW A, NULL \notin A, NEW S \in SUBSET A, NEW h,
         NEW next \in [A -> A \cup {NULL}], NEW prev \in [A -> A \cup {NULL}],
         IsDoublyLinked(S, h, next, prev), NEW m \in S,
         NEW g, NEW n, NEW p, AfterUnlink(h, next, prev, m, g, n, p)
  PROVE  /\ n \in [A -> A \cup {NULL}] /\ p \in [A -> A \cup {NULL}]
         /\ \A x \in A \ S : n[x] = next[x] /\ p[x] = prev[x]
         /\ IsDoublyLinked(S \ {m}, g, n, p)
<1>0. IsChain(S, h, next) /\ NULL \notin S /\ h \in S /\ h # NULL
  BY DEF IsDoublyLinked, IsChain
<1>1. /\ next[m] \in (S \ {m}) \cup {NULL}
      /\ prev[m] \in (S \ {m}) \cup {NULL}
  BY <1>0, ChainHasNoLoop DEF IsDoublyLinked, IsChain
<1>2. /\ n \in [A -> A \cup {NULL}] /\ p \in [A -> A \cup {NULL}]
      /\ \A x \in A : x # prev[m] => n[x] = next[x]
      /\ \A x \in A : x # next[m] => p[x] = prev[x]
      /\ prev[m] # NULL => n[prev[m]] = next[m]
      /\ next[m] # NULL => p[next[m]] = prev[m]
  BY <1>1 DEF AfterUnlink, UnlinkedNext, UnlinkedPrev
<1>3. \A x \in A \ S : n[x] = next[x] /\ p[x] = prev[x]
  BY <1>1, <1>2
<1>4. IsChain(S \ {m}, g, n)
  <2>1. CASE prev[m] = NULL
    <3>1. h = m /\ g = next[h] /\ n = next
      BY <2>1 DEF IsDoublyLinked, AfterUnlink, UnlinkedNext, UnlinkedHead
    <3> QED  BY <1>0, <3>1, ChainUnlinkHead
  <2>2. CASE prev[m] # NULL
    <3>1. /\ prev[m] \in S /\ next[prev[m]] = m
          /\ g = h /\ n = [next EXCEPT ![prev[m]] = next[m]]
      BY <1>1, <2>2 DEF IsDoublyLinked, AfterUnlink, UnlinkedNext, UnlinkedHead
    <3>2. IsChain(S \ {m}, h, [next EXCEPT ![prev[m]] = next[m]])
      BY <1>0, <3>1, ChainUnlink
    <3> QED  BY <3>1, <3>2
  <2> QED  BY <2>1, <2>2
<1>5. ASSUME NEW x \in S \ {m}
      PROVE  p[x] \in (S \ {m}) \cup {NULL} /\ (p[x] = NULL <=> x = g)
  <2>1. p[x] \in (S \ {m}) \cup {NULL}
    BY <1>0, <1>1, <1>2 DEF IsDoublyLinked, IsChain
  <2>2. p[x] = NULL <=> x = g
    BY <1>0, <1>1, <1>2 DEF IsDoublyLinked, IsChain, AfterUnlink, UnlinkedHead
  <2> QED  BY <2>1, <2>2
<1>6. ASSUME NEW x \in S \ {m}, NEW y \in S \ {m}
      PROVE  n[x] = y <=> p[y] = x
  <2>1. CASE x = prev[m]
    BY <1>0, <1>1, <1>2, <2>1 DEF IsDoublyLinked, IsChain
  <2>2. CASE x # prev[m]
    BY <1>0, <1>1, <1>2, <2>2 DEF IsDoublyLinked, IsChain
  <2> QED  BY <2>1, <2>2
<1> QED  BY <1>2, <1>3, <1>4, <1>5, <1>6 DEF IsDoublyLinked

\* Putting m in front of the list h.
LEMMA DoublyPush ==
  ASSUME NEW A, NULL \notin A, NEW S \in SUBSET A, NEW h,
         NEW next \in [A -> A \cup {NULL}], NEW prev \in [A -> A \cup {NULL}],
         IsDoublyLinked(S, h, next, prev), NEW m \in A \ S,
         NEW n, NEW p, AfterPush(h, next, prev, m, n, p)
  PROVE  /\ n \in [A -> A \cup {NULL}] /\ p \in [A -> A \cup {NULL}]
         /\ \A x \in A \ (S \cup {m}) : n[x] = next[x] /\ p[x] = prev[x]
         /\ IsDoublyLinked(S \cup {m}, m, n, p)
<1>0. /\ IsChain(S, h, next) /\ NULL \notin S /\ h \in S \cup {NULL}
      /\ (h = NULL <=> S = {}) /\ m # NULL /\ m \notin S
  BY DEF IsDoublyLinked, IsChain
<1>1. /\ n \in [A -> A \cup {NULL}] /\ n[m] = h /\ \A x \in A : x # m => n[x] = next[x]
      /\ p \in [A -> A \cup {NULL}] /\ p[m] = NULL
      /\ \A x \in A : x # m /\ x # h => p[x] = prev[x]
      /\ h # NULL => p[h] = m
  BY <1>0 DEF AfterPush
<1>2. IsChain(S \cup {m}, m, n)
  <2>1. \A x \in S \cup {m} : n[x] \in (S \cup {m}) \cup {NULL} /\ n[x] # m
    BY <1>0, <1>1 DEF IsChain
  <2>2. ASSUME NEW x \in S \cup {m}, NEW y \in S \cup {m}, n[x] = n[y], n[x] # NULL
        PROVE  x = y
    BY <1>0, <1>1, <2>2 DEF IsChain
  <2>3. ASSUME NEW T \in SUBSET (S \cup {m}), Closed(T, m, n) PROVE T = S \cup {m}
    <3>1. m \in T
      BY <1>0, <2>3 DEF Closed
    <3>2. Closed(T \ {m}, h, next)
      BY <1>0, <1>1, <2>3, <3>1 DEF Closed, IsChain
    <3>3. T \ {m} \in SUBSET S
      OBVIOUS
    <3> QED  BY <1>0, <3>1, <3>2, <3>3 DEF IsChain
  <2> QED  BY <1>0, <2>1, <2>2, <2>3 DEF IsChain
<1>3. ASSUME NEW x \in S \cup {m}
      PROVE  p[x] \in (S \cup {m}) \cup {NULL} /\ (p[x] = NULL <=> x = m)
  BY <1>0, <1>1 DEF IsDoublyLinked
<1>4. ASSUME NEW x \in S \cup {m}, NEW y \in S \cup {m}
      PROVE  n[x] = y <=> p[y] = x
  BY <1>0, <1>1 DEF IsDoublyLinked, IsChain
<1>5. IsDoublyLinked(S \cup {m}, m, n, p)
  BY <1>2, <1>3, <1>4 DEF IsDoublyLinked
<1>6. \A x \in A \ (S \cup {m}) : n[x] = next[x] /\ p[x] = prev[x]
  BY <1>0, <1>1
<1> QED  BY <1>1, <1>5, <1>6

\* Disjoint lists, one for each i: B[i] its nodes, first[i] its head.
ListFamily(A, I, B, first, next, prev) ==
  /\ B \in [I -> SUBSET A] /\ \A i \in I : \A j \in I : i # j => B[i] \cap B[j] = {}
  /\ first \in [I -> A \cup {NULL}]
  /\ next \in [A -> A \cup {NULL}] /\ prev \in [A -> A \cup {NULL}]
  /\ \A i \in I : IsDoublyLinked(B[i], first[i], next, prev)

\* s may be taken off the list orig: it is in it, or nowhere and the list is empty.
Removable(I, B, first, next, prev, orig, s) ==
  \/ s \in B[orig]
  \/ /\ next[s] = NULL /\ prev[s] = NULL /\ first[orig] = NULL
     /\ \A i \in I : s \notin B[i]

\* s is in front of the list dest, and nothing else has changed.
Moved(A, I, B, first, next, prev, orig, dest, s, g, n2, p2) ==
  /\ g \in A \cup {NULL}
  /\ n2 \in [A -> A \cup {NULL}] /\ p2 \in [A -> A \cup {NULL}]
  /\ \A x \in A : x # s /\ (\A i \in I : x \notin B[i])
                    => n2[x] = next[x] /\ p2[x] = prev[x]
  /\ IsDoublyLinked(B[orig] \ {s}, g, n2, p2)
  /\ IsDoublyLinked(B[dest] \cup {s}, s, n2, p2)
  /\ \A i \in I \ {orig, dest} : IsDoublyLinked(B[i] \ {s}, first[i], n2, p2)

\* The node s moves from the list orig to the front of the list dest; a node that is
\* in no list yet, whose pointers are NULL, may come from an empty one.
LEMMA DoublyMove ==
  ASSUME NEW A, NULL \notin A, NEW I, NEW B, NEW first, NEW next, NEW prev,
         ListFamily(A, I, B, first, next, prev),
         NEW orig \in I, NEW dest \in I, orig # dest, NEW s \in A,
         Removable(I, B, first, next, prev, orig, s),
         NEW g, NEW n1, NEW p1, AfterUnlink(first[orig], next, prev, s, g, n1, p1),
         NEW n2, NEW p2, AfterPush(first[dest], n1, p1, s, n2, p2)
  PROVE  Moved(A, I, B, first, next, prev, orig, dest, s, g, n2, p2)
<1>0. /\ B \in [I -> SUBSET A] /\ \A i \in I : \A j \in I : i # j => B[i] \cap B[j] = {}
      /\ first \in [I -> A \cup {NULL}]
      /\ next \in [A -> A \cup {NULL}] /\ prev \in [A -> A \cup {NULL}]
      /\ \A i \in I : IsDoublyLinked(B[i], first[i], next, prev)
  BY DEF ListFamily
<1>1. /\ n1 \in [A -> A \cup {NULL}] /\ p1 \in [A -> A \cup {NULL}]
      /\ g \in A \cup {NULL}
      /\ \A x \in A \ B[orig] : n1[x] = next[x] /\ p1[x] = prev[x]
      /\ IsDoublyLinked(B[orig] \ {s}, g, n1, p1)
  <2>1. CASE s \in B[orig]
    <3> DEFINE S == B[orig]
               h == first[orig]
    <3>1. /\ IsDoublyLinked(S, h, next, prev) /\ S \in SUBSET A /\ s \in S
          /\ AfterUnlink(h, next, prev, s, g, n1, p1)
      BY <1>0, <2>1
    <3>2. g \in A \cup {NULL}
      BY <1>0 DEF AfterUnlink, UnlinkedHead
    <3> HIDE DEF S, h
    <3>3. /\ n1 \in [A -> A \cup {NULL}] /\ p1 \in [A -> A \cup {NULL}]
          /\ \A x \in A \ S : n1[x] = next[x] /\ p1[x] = prev[x]
          /\ IsDoublyLinked(S \ {s}, g, n1, p1)
      BY <1>0, <3>1, DoublyUnlink
    <3> QED  BY <3>2, <3>3 DEF S
  <2>2. CASE s \notin B[orig]
    <3>1. n1 = next /\ p1 = prev /\ g = first[orig] /\ B[orig] \ {s} = B[orig]
      BY <2>2 DEF Removable, AfterUnlink, UnlinkedNext, UnlinkedPrev, UnlinkedHead
    <3> QED  BY <1>0, <3>1
  <2> QED  BY <2>1, <2>2
<1>2. \A i \in I : /\ B[i] \in SUBSET A /\ NULL \notin B[i]
                   /\ i # orig => s \notin B[i] /\ B[i] \ {s} = B[i]
                                  /\ B[i] \cap B[orig] = {}
  <2>1. s \in B[orig] \/ \A i \in I : s \notin B[i]
    BY DEF Removable
  <2> QED  BY <1>0, <2>1
<1>3. ASSUME NEW i \in I \ {orig} PROVE IsDoublyLinked(B[i], first[i], n1, p1)
  <2>1. NULL \notin B[i] /\ IsDoublyLinked(B[i], first[i], next, prev)
    BY <1>0
  <2>2. \A x \in B[i] : n1[x] = next[x] /\ p1[x] = prev[x]
    BY <1>1, <1>2
  <2> QED  BY <2>1, <2>2, DoublyFrame
<1>4. /\ n2 \in [A -> A \cup {NULL}] /\ p2 \in [A -> A \cup {NULL}]
      /\ \A x \in A \ (B[dest] \cup {s}) : n2[x] = n1[x] /\ p2[x] = p1[x]
      /\ IsDoublyLinked(B[dest] \cup {s}, s, n2, p2)
  <2>1. B[dest] \in SUBSET A /\ s \in A \ B[dest]
        /\ IsDoublyLinked(B[dest], first[dest], n1, p1)
    BY <1>2, <1>3
  <2> QED  BY <1>1, <2>1, DoublyPush
<1>5. IsDoublyLinked(B[orig] \ {s}, g, n2, p2)
  <2> DEFINE S == B[orig] \ {s}
  <2>1. NULL \notin S /\ S \cap (B[dest] \cup {s}) = {}
    BY <1>2
  <2>2. IsDoublyLinked(S, g, n1, p1) /\ \A x \in S : n2[x] = n1[x] /\ p2[x] = p1[x]
    BY <1>1, <1>2, <1>4, <2>1
  <2> HIDE DEF S
  <2>3. IsDoublyLinked(S, g, n2, p2)
    BY <2>1, <2>2, DoublyFrame
  <2> QED  BY <2>3 DEF S
<1>6. ASSUME NEW i \in I \ {orig, dest}
      PROVE  IsDoublyLinked(B[i] \ {s}, first[i], n2, p2)
  <2>1. NULL \notin B[i] /\ B[i] \ {s} = B[i] /\ B[i] \cap (B[dest] \cup {s}) = {}
    BY <1>0, <1>2
  <2>2. \A x \in B[i] : n2[x] = n1[x] /\ p2[x] = p1[x]
    BY <1>2, <1>4, <2>1
  <2>3. IsDoublyLinked(B[i], first[i], n2, p2)
    BY <1>3, <2>1, <2>2, DoublyFrame
  <2> QED  BY <2>1, <2>3
<1>7. \A x \in A : x # s /\ (\A i \in I : x \notin B[i])
                     => n2[x] = next[x] /\ p2[x] = prev[x]
  BY <1>1, <1>4
<1> QED  BY <1>1, <1>4, <1>5, <1>6, <1>7 DEF Moved
=============================================================================
