------------------------- MODULE ControlSessionsProofs -------------------------
(***************************************************************************)
(* Proofs about ControlSessions, for any number of clients and of slots: the  *)
(* table, the descriptor set and the kernel agree until the table overflows,  *)
(* and the countdown of ready descriptors is exact, also after that.          *)
(*                                                                           *)
(* Three things are kept in agreement: who is queued or accepted, and the     *)
(* kernel's backlog and descriptors (EnvOK); the descriptors and the server's *)
(* table (TableInv); what select() returned and what is left of it            *)
(* (ReadyInv, ScanInv).                                                       *)
(***************************************************************************)
EXTENDS ControlSessions, FiniteSetTheorems, SequenceTheorems, TLAPS

Queued == {backlog[n] : n \in 1 .. Len(backlog)}

\* Who is queued is in the backlog once, who is accepted has one descriptor.
EnvOK ==
  /\ \A c \in Queued : client[c] = "queued"
  /\ \A m, n \in 1 .. Len(backlog) : backlog[m] = backlog[n] => m = n
  /\ \A f \in Open : client[sock[f]] = "accepted"
  /\ \A f, g \in Open : sock[f] = sock[g] => f = g

Beyond == {f \in allset : f <= maxfd /\ f \notin Open}

\* The table holds the kernel's descriptors, each once and within the bounds;
\* after an overflow select() is going to fail.
TableInv ==
  /\ {fd_table[s] : s \in Used} = Open
  /\ \A s, t \in Used : fd_table[s] = fd_table[t] => s = t
  /\ \A s \in Used : s <= max_fd_idx
  /\ \A f \in Open : f <= maxfd
  /\ ~ Overflowed => allset = Open
  /\ Overflowed => /\ pc \in {"select", "scan", "down"}
                   /\ \E f \in Beyond : pc = "scan" => f \notin rset

\* The slots in use whose descriptors are ready and not yet served.
Unserved == {s \in Used : fd_table[s] \in rset /\ (pc = "scan" => s >= i)}

Working == pc \in {"udp", "accept", "scan"}

\* What select() returned: open descriptors, a connection in the backlog.
ReadyInv ==
  /\ Working => num_ready_fds > 0
  /\ pc \in {"udp", "accept"} => rset \subseteq Open
  /\ pc \in {"udp", "accept"} /\ tcp_ready => backlog # <<>>

\* tmp_fd_idx is a slot that was passed, and no slot in use between it and i was missed.
ScanInv == pc = "scan" => tmp_fd_idx < i /\ \A s \in Used : s < i => s <= tmp_fd_idx

IInv == TypeOK /\ EnvOK /\ TableInv /\ ReadyInv /\ ScanInv /\ CountdownExact

-----------------------------------------------------------------------------
(* Descriptors, slots, and the least of them. *)

\* There are as many descriptors as clients, and they are positive.
LEMMA FdsFacts ==
  /\ Fds \subseteq Nat \ {0} /\ IsFiniteSet(Fds)
  /\ Cardinality(Fds) = Cardinality(Clients)
  /\ -1 \notin Fds /\ 0 \notin Fds
<1>1. Cardinality(Clients) \in Nat
  BY SessionsAssumption, FS_CardinalityType
<1>2. /\ IsFiniteSet(1 .. Cardinality(Clients))
      /\ Cardinality(1 .. Cardinality(Clients)) =
           IF 1 > Cardinality(Clients) THEN 0 ELSE Cardinality(Clients) - 1 + 1
  BY <1>1, FS_Interval
<1> QED
  BY <1>1, <1>2 DEF Fds

\* The slots are natural numbers, below the one behind the table; so are those in use.
LEMMA SlotsFacts ==
  /\ Slots \subseteq Nat /\ Behind \in Nat \ {0} /\ \A s \in Slots : s < Behind
  /\ IsFiniteSet(Slots) /\ Used \subseteq Slots /\ IsFiniteSet(Used)
<1>1. MAX_CONTROL_SESSIONS \in Nat \ {0}
  BY SessionsAssumption
<1>2. IsFiniteSet(Slots)
  BY <1>1, FS_Interval DEF Slots
<1>3. Used \subseteq Slots
  BY DEF Used
<1>4. IsFiniteSet(Used)
  BY <1>2, <1>3, FS_Subset
<1> QED
  BY <1>1, <1>2, <1>3, <1>4 DEF Slots, Behind

\* The least of a set of natural numbers is one of it.
LEMMA MinIsMember ==
  ASSUME NEW S, S \subseteq Nat, S # {}
  PROVE  Min(S) \in S
<1> DEFINE Less == {ss \in Nat \X Nat : ss[1] < ss[2]}
<1>1. IsWellFoundedOn(Less, Nat)
  BY NatLessThanWellFounded DEF OpToRel
<1>2. \E x \in S : \A y \in S : ~ (<<y, x>> \in Less)
  <2> HIDE DEF Less
  <2> QED
    BY <1>1, WFMin
<1>3. PICK x \in S : \A y \in S : ~ (<<y, x>> \in Less)
  BY <1>2
<1>4. \A y \in S : x <= y
  <2> SUFFICES ASSUME NEW y \in S PROVE x <= y
    OBVIOUS
  <2>1. x \in Nat /\ y \in Nat
    OBVIOUS
  <2>2. <<y, x>> \in Less <=> y < x
    BY <2>1
  <2> QED
    BY <2>1, <2>2, <1>3
<1> QED
  BY <1>4 DEF Min

\* While a connection waits in the backlog, its client holds no descriptor: one is free.
LEMMA DescriptorFree ==
  ASSUME TypeOK, EnvOK, backlog # <<>>
  PROVE  Min(Fds \ Open) \in Fds \ Open
<1> DEFINE h == Head(backlog)
           Rest == Clients \ {h}
<1>1. h \in Clients /\ client[h] = "queued"
  BY DEF TypeOK, EnvOK, Queued
<1>2. Fds \ Open # {}
  <2> SUFFICES ASSUME Fds \ Open = {} PROVE FALSE
    OBVIOUS
  <2>1. \A f \in Fds : f \in Open
    OBVIOUS
  <2>2. \A f \in Fds : sock[f] \in Rest
    <3> SUFFICES ASSUME NEW f \in Fds PROVE sock[f] \in Rest
      OBVIOUS
    <3>1. f \in Open
      BY <2>1
    <3>2. sock[f] \in Clients
      BY <3>1 DEF TypeOK, Open
    <3>3. client[sock[f]] = "accepted"
      BY <3>1 DEF EnvOK
    <3> QED
      BY <3>2, <3>3, <1>1
  <2>3. sock \in Injection(Fds, Rest)
    <3>1. sock \in [Fds -> Rest]
      BY <2>2 DEF TypeOK
    <3>2. \A f, g \in Fds : sock[f] = sock[g] => f = g
      BY <2>1 DEF EnvOK
    <3> QED
      BY <3>1, <3>2 DEF Injection, IsInjective
  <2>4. /\ IsFiniteSet(Rest)
        /\ Cardinality(Rest) = Cardinality(Clients) - 1
    BY <1>1, SessionsAssumption, FS_RemoveElement
  <2>5. Cardinality(Fds) <= Cardinality(Rest)
    <3> HIDE DEF Rest
    <3> QED
      BY <2>3, <2>4, FS_Injection
  <2>6. Cardinality(Clients) \in Nat
    BY SessionsAssumption, FS_CardinalityType
  <2> QED
    BY <2>4, <2>5, <2>6, FdsFacts
<1>3. Fds \ Open \subseteq Nat
  BY FdsFacts
<1> QED
  BY <1>2, <1>3, MinIsMember

-----------------------------------------------------------------------------
(* The invariant holds at first, and a step of a client keeps it. *)

\* At first nobody is connected and nothing is in use.
LEMMA InitInv == Init => IInv
<1> SUFFICES ASSUME Init PROVE IInv
  OBVIOUS
<1>1. Open = {} /\ Used = {} /\ Queued = {}
  BY DEF Init, Open, Used, Queued, Slots, Behind
<1>2. TypeOK
  <2>1. fd_table \in [Slots \cup {Behind} -> Fds \cup {-1}]
    BY DEF Init
  <2>2. /\ max_fd_idx \in -1 .. MAX_CONTROL_SESSIONS
        /\ i \in 0 .. MAX_CONTROL_SESSIONS + 1
        /\ tmp_fd_idx \in -1 .. MAX_CONTROL_SESSIONS /\ num_ready_fds \in Int
    BY SessionsAssumption DEF Init
  <2>3. /\ client \in [Clients -> {"idle", "queued", "accepted"}]
        /\ sock \in [Fds -> Clients \cup {NoClient}]
        /\ backlog \in Seq(Clients)
    BY DEF Init
  <2> QED
    BY <2>1, <2>2, <2>3 DEF Init, TypeOK
<1>3. EnvOK
  BY <1>1 DEF Init, EnvOK
<1>4. TableInv
  BY <1>1, SessionsAssumption DEF Init, TableInv, Overflowed, Behind
<1>5. ReadyInv /\ ScanInv /\ CountdownExact
  BY DEF Init, ReadyInv, ScanInv, CountdownExact, Working
<1> QED
  BY <1>2, <1>3, <1>4, <1>5 DEF IInv

\* What the server knows does not change in a step of a client.
ServerUnchanged == UNCHANGED <<sock, pc, tableVars, readyVars, scanVars>>

LEMMA ServerFrame ==
  ASSUME IInv, ServerUnchanged, backlog # <<>> => backlog' # <<>>
  PROVE  TableInv' /\ ReadyInv' /\ ScanInv' /\ CountdownExact'
<1>1. UNCHANGED <<sock, pc, fd_table, max_fd_idx, maxfd, allset, rset, tcp_ready, udp_ready,
                  num_ready_fds, i, tmp_fd_idx>>
  BY DEF ServerUnchanged, tableVars, readyVars, scanVars
<1>2. Open' = Open /\ Used' = Used /\ Overflowed' = Overflowed
  BY <1>1 DEF Open, Used, Overflowed
<1>3. TableInv'
  BY <1>1, <1>2 DEF IInv, TableInv, Beyond
<1>4. ReadyInv'
  BY <1>1, <1>2 DEF IInv, ReadyInv, Working
<1>5. ScanInv'
  BY <1>1, <1>2 DEF IInv, ScanInv
<1>6. CountdownExact'
  BY <1>1, <1>2 DEF IInv, CountdownExact
<1> QED
  BY <1>3, <1>4, <1>5, <1>6

\* A client that connects is queued, at the end of the backlog.
LEMMA ConnectStep ==
  ASSUME IInv, NEW c \in Clients, Connect(c)
  PROVE  IInv'
<1>1. TypeOK /\ EnvOK
  BY DEF IInv
<1>2. /\ client[c] = "idle" /\ client' = [client EXCEPT ![c] = "queued"]
      /\ backlog' = Append(backlog, c) /\ ServerUnchanged
      /\ UNCHANGED <<sent, datagram>>
  BY DEF Connect, ServerUnchanged
<1>3. backlog \in Seq(Clients) /\ client \in [Clients -> {"idle", "queued", "accepted"}]
      /\ sock \in [Fds -> Clients \cup {NoClient}]
  BY <1>1 DEF TypeOK
<1>4. UNCHANGED sock
  BY <1>2 DEF ServerUnchanged
<1>5. TypeOK'
  <2>1. /\ client' \in [Clients -> {"idle", "queued", "accepted"}]
        /\ backlog' \in Seq(Clients)
    BY <1>2, <1>3
  <2> QED
    BY <1>1, <1>2, <2>1 DEF TypeOK, ServerUnchanged, tableVars, readyVars, scanVars
<1>6. EnvOK'
  <2>1. \A n \in 1 .. Len(backlog) : backlog[n] \in Clients /\ backlog[n] # c
                                     /\ client[backlog[n]] = "queued"
    BY <1>1, <1>2, <1>3 DEF EnvOK, Queued
  <2>2. /\ Len(backlog') = Len(backlog) + 1
        /\ \A n \in 1 .. Len(backlog) : backlog'[n] = backlog[n]
        /\ backlog'[Len(backlog) + 1] = c
    BY <1>2, <1>3, AppendProperties
  <2>3. \A n \in 1 .. Len(backlog') : n \in 1 .. Len(backlog) \/ n = Len(backlog) + 1
    BY <2>2, <1>3
  <2>4. \A x \in Queued' : client'[x] = "queued"
    BY <1>2, <1>3, <2>1, <2>2, <2>3 DEF Queued
  <2>5. \A m, n \in 1 .. Len(backlog') : backlog'[m] = backlog'[n] => m = n
    <3>1. \A m, n \in 1 .. Len(backlog) : backlog[m] = backlog[n] => m = n
      BY <1>1 DEF EnvOK
    <3> QED
      BY <3>1, <2>1, <2>2, <2>3
  <2>6. Open' = Open
    BY <1>4 DEF Open
  <2>7. \A f \in Open : sock[f] \in Clients /\ client[sock[f]] = "accepted"
                        /\ \A g \in Open : sock[f] = sock[g] => f = g
    BY <1>1, <1>3 DEF EnvOK, Open
  <2>8. \A f \in Open' : client'[sock'[f]] = "accepted"
    BY <1>2, <1>3, <1>4, <2>6, <2>7
  <2> QED
    BY <1>4, <2>4, <2>5, <2>6, <2>7, <2>8 DEF EnvOK
<1>7. backlog' # <<>>
  BY <1>2, <1>3
<1> QED
  BY <1>2, <1>5, <1>6, <1>7, ServerFrame DEF IInv

\* A request that is sent, or a datagram, waits: neither is in the table.
LEMMA SendStep ==
  ASSUME IInv, (\E c \in Clients : Send(c)) \/ ChatDatagram
  PROVE  IInv'
<1>1. /\ UNCHANGED <<client, backlog>> /\ ServerUnchanged
      /\ sent' \in {sent} \cup {sent \cup {c} : c \in Clients}
      /\ datagram' \in {datagram, TRUE}
  BY DEF Send, ChatDatagram, ServerUnchanged
<1>2. TypeOK'
  BY <1>1 DEF IInv, TypeOK, ServerUnchanged, tableVars, readyVars, scanVars
<1>3. UNCHANGED <<client, backlog, sock>>
  BY <1>1 DEF ServerUnchanged
<1>4. EnvOK'
  BY <1>3 DEF IInv, EnvOK, Queued, Open
<1> QED
  BY <1>1, <1>2, <1>4, ServerFrame DEF IInv

-----------------------------------------------------------------------------
(* The branches of the server's loop. *)

\* Every ready descriptor is in one slot: as many slots as descriptors are ready.
LEMMA ReadySlots ==
  ASSUME TypeOK, TableInv, NEW R, R \subseteq Open
  PROVE  /\ Cardinality({s \in Used : fd_table[s] \in R}) = Cardinality(R)
         /\ Cardinality(R) \in Nat
<1> DEFINE U == {s \in Used : fd_table[s] \in R}
           g == [s \in U |-> fd_table[s]]
<1>1. \A s, t \in Used : fd_table[s] = fd_table[t] => s = t
  BY DEF TableInv
<1>2. \A f \in Open : \E s \in Used : fd_table[s] = f
  BY DEF TableInv
<1>3. g \in Injection(U, R)
  BY <1>1 DEF Injection, IsInjective
<1>4. g \in Surjection(U, R)
  BY <1>2 DEF Surjection
<1>5. ExistsBijection(U, R)
  BY <1>3, <1>4 DEF ExistsBijection, Bijection
<1>6. IsFiniteSet(U)
  BY SlotsFacts, FS_Subset
<1>7. IsFiniteSet(R) /\ Cardinality(R) = Cardinality(U)
  <2> HIDE DEF U
  <2> QED
    BY <1>5, <1>6, FS_Bijection
<1> QED
  BY <1>7, FS_CardinalityType

\* After an overflow select() finds a descriptor that is closed.
LEMMA SelectStep ==
  ASSUME IInv, Select
  PROVE  IInv'
<1>1. TypeOK /\ EnvOK /\ TableInv
  BY DEF IInv
<1>2. /\ pc = "select" /\ pc' = "udp" /\ \A f \in allset : f <= maxfd => f \in Open
      /\ rset' = {f \in allset \cap Readable : f <= maxfd}
      /\ udp_ready' = datagram /\ tcp_ready' = (backlog # <<>>)
      /\ num_ready_fds' = Cardinality(rset') + (IF udp_ready' THEN 1 ELSE 0)
                                             + (IF tcp_ready' THEN 1 ELSE 0)
      /\ num_ready_fds' > 0
  BY DEF Select
<1>3. UNCHANGED <<client, backlog, sent, datagram, sock, fd_table, max_fd_idx, maxfd, allset,
                  i, tmp_fd_idx>>
  BY DEF Select, envVars, tableVars, scanVars
<1>4. ~ Overflowed
  BY <1>1, <1>2 DEF TableInv, Beyond
<1>5. Open' = Open /\ Used' = Used /\ Overflowed' = Overflowed
  BY <1>3 DEF Open, Used, Overflowed
<1>6. rset' \subseteq Open /\ Open \subseteq Fds
  BY <1>2 DEF Readable, Open
<1>7. /\ Cardinality({s \in Used : fd_table[s] \in rset'}) = Cardinality(rset')
      /\ Cardinality(rset') \in Nat
  BY <1>1, <1>6, ReadySlots
<1>8. TypeOK'
  <2>1. num_ready_fds' \in Int
    BY <1>2, <1>7
  <2> QED
    BY <1>1, <1>2, <1>3, <1>6, <2>1 DEF TypeOK
<1>9. EnvOK'
  BY <1>1, <1>3 DEF EnvOK, Queued, Open
<1>10. TableInv'
  BY <1>1, <1>3, <1>4, <1>5 DEF TableInv
<1>11. ReadyInv' /\ ScanInv'
  BY <1>2, <1>3, <1>5, <1>6 DEF ReadyInv, ScanInv
<1>12. CountdownExact'
  <2>1. {s \in Used' : fd_table'[s] \in rset' /\ (pc' = "scan" => s >= i')}
          = {s \in Used : fd_table[s] \in rset'}
    BY <1>2, <1>3, <1>5
  <2> QED
    BY <1>2, <1>7, <2>1 DEF CountdownExact
<1> QED
  BY <1>8, <1>9, <1>10, <1>11, <1>12 DEF IInv

\* The server ends: through select(), or in a request.
LEMMA EndStep ==
  ASSUME IInv, SelectFails \/ RequestFatal
  PROVE  IInv'
<1>1. pc' = "down" /\ UNCHANGED <<envVars, tableVars, readyVars, scanVars>>
  BY DEF SelectFails, RequestFatal
<1>2. UNCHANGED <<client, backlog, sent, datagram, sock, fd_table, max_fd_idx, maxfd, allset,
                  rset, udp_ready, tcp_ready, num_ready_fds, i, tmp_fd_idx>>
  BY <1>1 DEF envVars, tableVars, readyVars, scanVars
<1>3. TypeOK'
  BY <1>1, <1>2 DEF IInv, TypeOK
<1>4. EnvOK'
  BY <1>2 DEF IInv, EnvOK, Queued, Open
<1>5. TableInv'
  BY <1>1, <1>2 DEF IInv, TableInv, Used, Open, Overflowed, Beyond
<1>6. ReadyInv' /\ ScanInv' /\ CountdownExact'
  BY <1>1 DEF ReadyInv, ScanInv, CountdownExact, Working
<1> QED
  BY <1>3, <1>4, <1>5, <1>6 DEF IInv

\* A chat message is counted, if there was one.
LEMMA ReadChatStep ==
  ASSUME IInv, ReadChat
  PROVE  IInv'
<1>1. TypeOK /\ EnvOK /\ TableInv /\ ReadyInv /\ CountdownExact
  BY DEF IInv
<1>2. UNCHANGED <<client, backlog, sent, sock, fd_table, max_fd_idx, maxfd, allset, rset,
                  udp_ready, tcp_ready, i, tmp_fd_idx>>
  BY DEF ReadChat, tableVars, scanVars
<1>3. /\ pc = "udp" /\ pc' \in {"accept", "select"} /\ datagram' \in BOOLEAN
      /\ num_ready_fds' = num_ready_fds - (IF udp_ready THEN 1 ELSE 0)
      /\ pc' = "accept" => num_ready_fds' > 0
  <2>1. num_ready_fds \in Int /\ datagram \in BOOLEAN
    BY <1>1 DEF TypeOK
  <2>2. pc = "udp" /\ num_ready_fds > 0
    BY <1>1 DEF ReadChat, ReadyInv, Working
  <2>3. CASE udp_ready
    <3>1. /\ num_ready_fds' = num_ready_fds - 1 /\ datagram' = FALSE
          /\ pc' = IF num_ready_fds' <= 0 THEN "select" ELSE "accept"
      BY <2>3 DEF ReadChat, Counted
    <3>2. pc' \in {"accept", "select"} /\ (pc' = "accept" => num_ready_fds' > 0)
      BY <2>1, <3>1
    <3> QED
      BY <2>2, <2>3, <3>1, <3>2
  <2>4. CASE ~ udp_ready
    <3>1. pc' = "accept" /\ UNCHANGED <<datagram, num_ready_fds>>
      BY <2>4 DEF ReadChat
    <3>2. num_ready_fds' = num_ready_fds - 0 /\ num_ready_fds' > 0
      BY <2>1, <2>2, <3>1
    <3> QED
      BY <2>1, <2>2, <2>4, <3>1, <3>2
  <2> QED
    BY <2>3, <2>4
<1>4. Open' = Open /\ Used' = Used /\ Overflowed' = Overflowed
  BY <1>2 DEF Open, Used, Overflowed
<1>5. ~ Overflowed
  BY <1>1, <1>3 DEF TableInv
<1>6. TypeOK'
  <2>1. num_ready_fds' \in Int
    BY <1>1, <1>3 DEF TypeOK
  <2> QED
    BY <1>1, <1>2, <1>3, <2>1 DEF TypeOK
<1>7. EnvOK'
  BY <1>1, <1>2 DEF EnvOK, Queued, Open
<1>8. TableInv'
  BY <1>1, <1>2, <1>4, <1>5 DEF TableInv
<1>9. ReadyInv' /\ ScanInv'
  BY <1>1, <1>2, <1>3, <1>4 DEF ReadyInv, ScanInv, Working
<1>10. CountdownExact'
  <2>1. {s \in Used' : fd_table'[s] \in rset' /\ (pc' = "scan" => s >= i')}
          = {s \in Used : fd_table[s] \in rset /\ (pc = "scan" => s >= i)}
    BY <1>2, <1>3, <1>4
  <2>2. Cardinality({s \in Used : fd_table[s] \in rset /\ (pc = "scan" => s >= i)}) \in Nat
    BY SlotsFacts, FS_Subset, FS_CardinalityType
  <2>3. num_ready_fds =
          Cardinality({s \in Used : fd_table[s] \in rset /\ (pc = "scan" => s >= i)})
          + (IF udp_ready THEN 1 ELSE 0) + (IF tcp_ready THEN 1 ELSE 0)
    BY <1>1, <1>3 DEF CountdownExact
  <2> DEFINE n == Cardinality({s \in Used : fd_table[s] \in rset /\ (pc = "scan" => s >= i)})
             u == IF udp_ready THEN 1 ELSE 0
             w == IF tcp_ready THEN 1 ELSE 0
  <2>4. n \in Nat /\ u \in {0, 1} /\ w \in {0, 1}
    BY <2>2
  <2>5. num_ready_fds = n + u + w /\ num_ready_fds' = num_ready_fds - u
    BY <1>3, <2>3
  <2>6. num_ready_fds' = n + w
    <3> HIDE DEF n, u, w
    <3> QED
      BY <2>4, <2>5
  <2>7. w' = w
    BY <1>2
  <2>8. pc' = "accept" => num_ready_fds' = n + 0 + w
    <3> HIDE DEF n, u, w
    <3> QED
      BY <2>4, <2>6
  <2> QED
    BY <1>3, <2>1, <2>7, <2>8 DEF CountdownExact
<1> QED
  BY <1>6, <1>7, <1>8, <1>9, <1>10 DEF IInv

\* While the scan goes on a ready slot lies ahead, so the scan is within the table.
LEMMA ScanWithin ==
  ASSUME TypeOK, ReadyInv, CountdownExact, pc = "scan"
  PROVE  /\ i \in Slots
         /\ Cardinality(Unserved) \in Nat \ {0} /\ IsFiniteSet(Unserved)
         /\ num_ready_fds = Cardinality(Unserved)
<1>1. IsFiniteSet(Unserved) /\ Cardinality(Unserved) \in Nat
  BY SlotsFacts, FS_Subset, FS_CardinalityType DEF Unserved
<1>2. num_ready_fds = Cardinality(Unserved)
  <2>1. num_ready_fds = Cardinality(Unserved) + 0 + 0
    BY DEF CountdownExact, Unserved
  <2> QED
    BY <1>1, <2>1
<1>3. num_ready_fds > 0
  BY DEF ReadyInv, Working
<1>4. Unserved # {}
  BY <1>1, <1>2, <1>3, FS_EmptySet
<1>5. PICK s \in Used : s >= i
  BY <1>4 DEF Unserved
<1>6. i \in Nat /\ s \in 0 .. MAX_CONTROL_SESSIONS - 1
  BY <1>5 DEF TypeOK, Used, Slots
<1>7. i \in Slots
  BY <1>5, <1>6, SessionsAssumption DEF Slots
<1> QED
  BY <1>1, <1>2, <1>3, <1>7

LEMMA NoAcceptStep ==
  ASSUME IInv, NoAccept
  PROVE  IInv'
<1>1. TypeOK /\ EnvOK /\ TableInv /\ ReadyInv /\ CountdownExact
  BY DEF IInv
<1>2. /\ UNCHANGED <<client, backlog, sent, datagram, sock, fd_table, max_fd_idx, maxfd, allset,
                     rset, udp_ready, tcp_ready, num_ready_fds>>
      /\ pc = "accept" /\ pc' = "scan" /\ i' = 0 /\ tmp_fd_idx' = -1 /\ ~ tcp_ready
  BY DEF NoAccept, envVars, tableVars, readyVars
<1>3. Open' = Open /\ Used' = Used /\ Overflowed' = Overflowed
  BY <1>2 DEF Open, Used, Overflowed
<1>4. ~ Overflowed
  BY <1>1, <1>2 DEF TableInv
<1>5. TypeOK'
  <2>1. i' \in 0 .. MAX_CONTROL_SESSIONS + 1 /\ tmp_fd_idx' \in -1 .. MAX_CONTROL_SESSIONS
    BY <1>2, SessionsAssumption
  <2> QED
    BY <1>1, <1>2, <2>1 DEF TypeOK
<1>6. EnvOK'
  BY <1>1, <1>2 DEF EnvOK, Queued, Open
<1>7. TableInv'
  BY <1>1, <1>2, <1>3, <1>4 DEF TableInv
<1>8. ReadyInv'
  BY <1>1, <1>2, <1>3 DEF ReadyInv, Working
<1>9. ScanInv'
  BY <1>2, <1>3, SlotsFacts DEF ScanInv
<1>10. CountdownExact'
  <2>1. \A s \in Used : s >= 0
    BY SlotsFacts
  <2>2. {s \in Used' : fd_table'[s] \in rset' /\ (pc' = "scan" => s >= i')}
          = {s \in Used : fd_table[s] \in rset /\ (pc = "scan" => s >= i)}
    BY <1>2, <1>3, <2>1
  <2>3. num_ready_fds =
          Cardinality({s \in Used : fd_table[s] \in rset /\ (pc = "scan" => s >= i)}) + 0 + 0
    BY <1>1, <1>2 DEF CountdownExact
  <2> QED
    BY <1>2, <2>2, <2>3 DEF CountdownExact
<1> QED
  BY <1>5, <1>6, <1>7, <1>8, <1>9, <1>10 DEF IInv

\* A slot that is passed was not to be served; if it is in use, tmp_fd_idx is its index.
LEMMA PassSlotStep ==
  ASSUME IInv, PassSlot
  PROVE  IInv'
<1>1. TypeOK /\ EnvOK /\ TableInv /\ ReadyInv /\ ScanInv /\ CountdownExact
  BY DEF IInv
<1>2. /\ UNCHANGED <<client, backlog, sent, datagram, sock, fd_table, max_fd_idx, maxfd, allset,
                     rset, udp_ready, tcp_ready, num_ready_fds, pc>>
      /\ pc = "scan" /\ fd_table[i] \notin rset /\ i' = i + 1
      /\ tmp_fd_idx' = IF fd_table[i] = -1 THEN tmp_fd_idx ELSE i
  BY DEF PassSlot, envVars, tableVars, readyVars
<1>3. i \in Slots /\ i \in Nat /\ tmp_fd_idx \in Int /\ i < MAX_CONTROL_SESSIONS
  BY <1>1, <1>2, ScanWithin, SlotsFacts DEF TypeOK, Behind
<1>4. Open' = Open /\ Used' = Used /\ Overflowed' = Overflowed
  BY <1>2 DEF Open, Used, Overflowed
<1>5. TypeOK'
  <2>1. i' \in 0 .. MAX_CONTROL_SESSIONS + 1 /\ tmp_fd_idx' \in -1 .. MAX_CONTROL_SESSIONS
    BY <1>1, <1>2, <1>3, SessionsAssumption DEF TypeOK
  <2> QED
    BY <1>1, <1>2, <2>1 DEF TypeOK
<1>6. EnvOK'
  BY <1>1, <1>2 DEF EnvOK, Queued, Open
<1>7. TableInv'
  BY <1>1, <1>2, <1>4 DEF TableInv, Beyond
<1>8. ReadyInv'
  BY <1>1, <1>2, <1>4 DEF ReadyInv, Working
<1>9. ScanInv'
  <2>1. \A s \in Used : s \in Nat /\ (s = i => fd_table[i] # -1)
    BY SlotsFacts DEF Used
  <2>2. tmp_fd_idx < i /\ \A s \in Used : s < i => s <= tmp_fd_idx
    BY <1>1, <1>2 DEF ScanInv
  <2>3. \A s \in Used : s < i + 1 => s <= tmp_fd_idx'
    BY <1>2, <1>3, <2>1, <2>2
  <2>4. tmp_fd_idx' < i + 1
    BY <1>2, <1>3, <2>2
  <2> QED
    BY <1>2, <1>4, <2>3, <2>4 DEF ScanInv
<1>10. CountdownExact'
  <2>1. \A s \in Used : s \in Nat
    BY SlotsFacts
  <2>2. {s \in Used : fd_table[s] \in rset /\ s >= i + 1} = Unserved
    BY <1>2, <1>3, <2>1 DEF Unserved
  <2>3. {s \in Used' : fd_table'[s] \in rset' /\ (pc' = "scan" => s >= i')} = Unserved
    BY <1>2, <1>4, <2>2
  <2>4. num_ready_fds' = Cardinality(Unserved) + 0 + 0
    BY <1>1, <1>2, ScanWithin
  <2> QED
    BY <1>2, <2>3, <2>4 DEF CountdownExact
<1> QED
  BY <1>5, <1>6, <1>7, <1>8, <1>9, <1>10 DEF IInv

\* A ready slot is in use, and its client is one that was accepted.
LEMMA ServedClient ==
  ASSUME TypeOK, EnvOK, TableInv, i \in Slots, fd_table[i] \in rset
  PROVE  /\ i \in Used /\ fd_table[i] \in Open /\ sock[fd_table[i]] \in Clients
         /\ sock[fd_table[i]] \notin Queued
<1>1. rset \subseteq Fds
  BY DEF TypeOK
<1>2. i \in Used
  BY <1>1, FdsFacts DEF Used
<1>3. fd_table[i] \in Open
  BY <1>2 DEF TableInv
<1>4. sock[fd_table[i]] \in Clients /\ client[sock[fd_table[i]]] = "accepted"
  BY <1>3 DEF TypeOK, EnvOK, Open
<1> QED
  BY <1>2, <1>3, <1>4 DEF EnvOK

\* The slot, its descriptor and its client leave together; the bound is lowered to
\* the highest slot that was passed, or stays.
LEMMA ServeSlotStep ==
  ASSUME IInv, ServeSlot
  PROVE  IInv'
<1> DEFINE fd == fd_table[i]
           c  == sock[fd]
<1>1. TypeOK /\ EnvOK /\ TableInv /\ ReadyInv /\ ScanInv /\ CountdownExact
  BY DEF IInv
<1>2. /\ UNCHANGED <<backlog, datagram, maxfd, rset, udp_ready, tcp_ready, tmp_fd_idx>>
      /\ pc = "scan" /\ fd \in rset
      /\ sock' = [sock EXCEPT ![fd] = NoClient]
      /\ client' = IF c = NoClient THEN client ELSE [client EXCEPT ![c] = "idle"]
      /\ sent' = sent \ {c} /\ allset' = allset \ {fd}
      /\ fd_table' = [fd_table EXCEPT ![i] = -1]
      /\ num_ready_fds' = num_ready_fds - 1
  BY DEF ServeSlot
<1>3. \/ /\ num_ready_fds' <= 0 /\ pc' = "select" /\ i' = i
         /\ max_fd_idx' = IF i = max_fd_idx THEN tmp_fd_idx ELSE max_fd_idx
      \/ ~ (num_ready_fds' <= 0) /\ pc' = "scan" /\ i' = i + 1 /\ max_fd_idx' = max_fd_idx
  BY <1>2 DEF ServeSlot, Lowered
<1>4. i \in Slots /\ i \in Nat /\ i < MAX_CONTROL_SESSIONS
  BY <1>1, <1>2, ScanWithin, SlotsFacts DEF Behind
<1>5. i \in Used /\ fd \in Open /\ c \in Clients /\ c \notin Queued
  BY <1>1, <1>2, <1>4, ServedClient
<1>6. c # NoClient /\ client' = [client EXCEPT ![c] = "idle"]
  BY <1>2, <1>5, SessionsAssumption
<1>7. /\ sock \in [Fds -> Clients \cup {NoClient}] /\ Open \subseteq Fds
      /\ fd_table \in [Slots \cup {Behind} -> Fds \cup {-1}]
      /\ client \in [Clients -> {"idle", "queued", "accepted"}]
      /\ max_fd_idx \in -1 .. MAX_CONTROL_SESSIONS /\ tmp_fd_idx \in -1 .. MAX_CONTROL_SESSIONS
      /\ num_ready_fds \in Int
  BY <1>1 DEF TypeOK, Open
<1>8. Open' = Open \ {fd} /\ \A f \in Open' : sock'[f] = sock[f]
  BY <1>2, <1>7 DEF Open
<1>9. Used' = Used \ {i} /\ \A s \in Used' : fd_table'[s] = fd_table[s]
  <2>1. Used \subseteq Slots
    BY DEF Used
  <2>2. \A s \in Slots : fd_table'[s] = IF s = i THEN -1 ELSE fd_table[s]
    BY <1>2, <1>7
  <2> QED
    BY <2>1, <2>2 DEF Used
<1>10. TypeOK'
  <2>1. sock' \in [Fds -> Clients \cup {NoClient}] /\ client' \in [Clients -> {"idle", "queued", "accepted"}]
    BY <1>2, <1>6, <1>7
  <2>2. fd_table' \in [Slots \cup {Behind} -> Fds \cup {-1}]
    BY <1>2, <1>7
  <2>3. /\ max_fd_idx' \in -1 .. MAX_CONTROL_SESSIONS /\ num_ready_fds' \in Int
        /\ i' \in 0 .. MAX_CONTROL_SESSIONS + 1
    BY <1>2, <1>3, <1>4, <1>7, SessionsAssumption
  <2>4. tmp_fd_idx' \in -1 .. MAX_CONTROL_SESSIONS
    BY <1>2, <1>7
  <2>5. pc' \in {"select", "udp", "accept", "scan", "down"}
    BY <1>3
  <2> QED
    BY <1>1, <1>2, <2>1, <2>2, <2>3, <2>4, <2>5 DEF TypeOK
<1>11. EnvOK'
  <2>1. Queued' = Queued
    BY <1>2 DEF Queued
  <2>2. \A x \in Queued : client[x] = "queued" /\ x \in Clients
    BY <1>1 DEF EnvOK, Queued, TypeOK
  <2>3. \A x \in Queued : client'[x] = "queued"
    BY <1>5, <1>6, <1>7, <2>2
  <2>4. \A f \in Open : /\ client[sock[f]] = "accepted" /\ sock[f] \in Clients
                        /\ \A g \in Open : sock[f] = sock[g] => f = g
    BY <1>1, <1>7 DEF EnvOK, Open
  <2>5. \A f \in Open' : sock'[f] # c /\ sock'[f] \in Clients /\ client[sock'[f]] = "accepted"
    BY <1>5, <1>8, <2>4
  <2>6. \A f \in Open' : client'[sock'[f]] = "accepted"
    BY <1>6, <1>7, <2>5
  <2>7. \A f, g \in Open' : sock'[f] = sock'[g] => f = g
    BY <1>8, <2>4
  <2>8. \A m, n \in 1 .. Len(backlog') : backlog'[m] = backlog'[n] => m = n
    BY <1>1, <1>2 DEF EnvOK
  <2> QED
    BY <2>1, <2>3, <2>6, <2>7, <2>8 DEF EnvOK
<1>12. TableInv'
  <2>1. /\ {fd_table[s] : s \in Used} = Open
        /\ \A s, t \in Used : fd_table[s] = fd_table[t] => s = t
        /\ \A s \in Used : s <= max_fd_idx
        /\ \A f \in Open : f <= maxfd
        /\ ~ Overflowed => allset = Open
        /\ Overflowed => \E f \in Beyond : f \notin rset
    BY <1>1, <1>2 DEF TableInv
  <2>2. {fd_table'[s] : s \in Used'} = Open'
    BY <1>5, <1>8, <1>9, <2>1
  <2>3. \A s, t \in Used' : fd_table'[s] = fd_table'[t] => s = t
    BY <1>9, <2>1
  <2>4. \A s \in Used' : s <= max_fd_idx'
    <3>1. \A s \in Used : s \in Nat
      BY SlotsFacts
    <3>2. \A s \in Used : s < i => s <= tmp_fd_idx
      BY <1>1, <1>2 DEF ScanInv
    <3> QED
      BY <1>3, <1>4, <1>7, <1>9, <2>1, <3>1, <3>2
  <2>5. \A f \in Open' : f <= maxfd'
    BY <1>2, <1>8, <2>1
  <2>6. Overflowed' <=> Overflowed
    <3>1. tmp_fd_idx < i
      BY <1>1, <1>2 DEF ScanInv
    <3>2. max_fd_idx' = MAX_CONTROL_SESSIONS <=> max_fd_idx = MAX_CONTROL_SESSIONS
      BY <1>3, <1>4, <1>7, <3>1, SessionsAssumption
    <3> QED
      BY <3>2 DEF Overflowed, Behind
  <2>7. ~ Overflowed' => allset' = Open'
    BY <1>2, <1>8, <2>1, <2>6
  <2>8. ASSUME Overflowed' PROVE \E f \in Beyond' : f \notin rset'
    <3>1. PICK f \in Beyond : f \notin rset
      BY <2>1, <2>6, <2>8
    <3>2. f \in allset /\ f # fd /\ f <= maxfd /\ f \notin Open
      BY <1>2, <3>1 DEF Beyond
    <3>3. f \in Beyond'
      BY <1>2, <1>8, <3>2 DEF Beyond
    <3> QED
      BY <1>2, <3>1, <3>3
  <2> QED
    BY <1>3, <2>2, <2>3, <2>4, <2>5, <2>7, <2>8 DEF TableInv
<1>13. ReadyInv'
  <2>1. pc' = "scan" => num_ready_fds' > 0
    BY <1>2, <1>3, <1>7
  <2> QED
    BY <1>3, <2>1 DEF ReadyInv, Working
<1>14. ScanInv'
  <2>1. tmp_fd_idx < i /\ \A s \in Used : s < i => s <= tmp_fd_idx
    BY <1>1, <1>2 DEF ScanInv
  <2>2. \A s \in Used : s \in Nat
    BY SlotsFacts
  <2>3. \A s \in Used' : s < i + 1 => s <= tmp_fd_idx
    BY <1>4, <1>9, <2>1, <2>2
  <2>4. tmp_fd_idx < i + 1
    BY <1>4, <1>7, <2>1
  <2>5. tmp_fd_idx' = tmp_fd_idx
    BY <1>2
  <2> QED
    BY <1>3, <2>3, <2>4, <2>5 DEF ScanInv
<1>15. CountdownExact'
  <2> SUFFICES ASSUME pc' = "scan" PROVE CountdownExact'
    BY <1>3 DEF CountdownExact
  <2>1. /\ IsFiniteSet(Unserved) /\ Cardinality(Unserved) \in Nat
        /\ num_ready_fds = Cardinality(Unserved)
    BY <1>1, <1>2, ScanWithin
  <2>2. i \in Unserved
    BY <1>2, <1>4, <1>5 DEF Unserved
  <2>3. Cardinality(Unserved \ {i}) = Cardinality(Unserved) - 1
    BY <2>1, <2>2, FS_RemoveElement
  <2>4. \A s \in Used : s \in Nat
    BY SlotsFacts
  <2>5. {s \in Used' : fd_table'[s] \in rset' /\ s >= i'} = Unserved \ {i}
    BY <1>2, <1>3, <1>4, <1>9, <2>4 DEF Unserved
  <2>6. {s \in Used' : fd_table'[s] \in rset' /\ (pc' = "scan" => s >= i')}
          = {s \in Used' : fd_table'[s] \in rset' /\ s >= i'}
    OBVIOUS
  <2>7. num_ready_fds' = Cardinality(Unserved \ {i}) + 0 + 0
    BY <1>2, <2>1, <2>3
  <2> QED
    BY <2>5, <2>6, <2>7 DEF CountdownExact
<1> QED
  BY <1>10, <1>11, <1>12, <1>13, <1>14, <1>15 DEF IInv

\* The first connection of the backlog is taken off it: its client has no descriptor,
\* and the least that is free is there for it.
LEMMA AcceptedConnection ==
  ASSUME IInv, pc = "accept", tcp_ready, backlog' = Tail(backlog)
  PROVE  /\ Head(backlog) \in Clients /\ client[Head(backlog)] = "queued"
         /\ backlog' \in Seq(Clients) /\ Min(Fds \ Open) \in Fds \ Open
         /\ \A x \in Queued' : x \in Queued /\ x # Head(backlog)
         /\ \A m, n \in 1 .. Len(backlog') : backlog'[m] = backlog'[n] => m = n
         /\ \A f \in Open : sock[f] \in Clients /\ sock[f] # Head(backlog)
<1>1. TypeOK /\ EnvOK /\ ReadyInv
  BY DEF IInv
<1>3. backlog # <<>> /\ backlog \in Seq(Clients)
  BY <1>1 DEF ReadyInv, TypeOK
<1>4. /\ Head(backlog) = backlog[1] /\ 1 \in 1 .. Len(backlog) /\ Len(backlog) \in Nat
      /\ backlog' \in Seq(Clients) /\ Len(backlog') = Len(backlog) - 1
      /\ \A n \in 1 .. Len(backlog') : backlog'[n] = backlog[n + 1]
  BY <1>3
<1>5. \A m, n \in 1 .. Len(backlog) : backlog[m] = backlog[n] => m = n
  BY <1>1 DEF EnvOK
<1>6. \A n \in 1 .. Len(backlog') : n + 1 \in 1 .. Len(backlog) /\ n + 1 # 1
  BY <1>4
<1>7. Head(backlog) \in Queued
  BY <1>4 DEF Queued
<1>8. \A x \in Queued' : x \in Queued /\ x # Head(backlog)
  BY <1>4, <1>5, <1>6 DEF Queued
<1>9. \A m, n \in 1 .. Len(backlog') : backlog'[m] = backlog'[n] => m = n
  BY <1>4, <1>5, <1>6
<1>10. Head(backlog) \in Clients /\ client[Head(backlog)] = "queued"
  BY <1>1, <1>3, <1>7 DEF EnvOK
<1>11. \A f \in Open : sock[f] \in Clients /\ sock[f] # Head(backlog)
  BY <1>1, <1>10 DEF EnvOK, TypeOK, Open
<1>12. Min(Fds \ Open) \in Fds \ Open
  BY <1>1, <1>3, DescriptorFree
<1> QED
  BY <1>4, <1>8, <1>9, <1>10, <1>11, <1>12

\* What Accept and AcceptFails do alike: the listening socket is counted.
AcceptOff ==
  /\ pc = "accept" /\ tcp_ready
  /\ Counted("scan") /\ i' = 0 /\ tmp_fd_idx' = -1
  /\ UNCHANGED <<rset, udp_ready, tcp_ready>>

\* The countdown after that: the scan has all slots ahead.
LEMMA AcceptCounted ==
  ASSUME IInv, AcceptOff, Used \subseteq Used', Used' \subseteq Slots,
         \A s \in Used : fd_table'[s] = fd_table[s],
         \A s \in Used' \ Used : fd_table'[s] \notin rset
  PROVE  ReadyInv' /\ ScanInv' /\ CountdownExact' /\ num_ready_fds' \in Int
<1>1. TypeOK /\ ReadyInv /\ CountdownExact
  BY DEF IInv
<1>2. /\ UNCHANGED <<rset, udp_ready, tcp_ready>> /\ pc = "accept" /\ tcp_ready
      /\ num_ready_fds' = num_ready_fds - 1 /\ i' = 0 /\ tmp_fd_idx' = -1
      /\ pc' = IF num_ready_fds' <= 0 THEN "select" ELSE "scan"
  BY DEF AcceptOff, Counted
<1>3. num_ready_fds \in Int
  BY <1>1 DEF TypeOK
<1>4. num_ready_fds' \in Int
  BY <1>2, <1>3
<1>5. ReadyInv'
  BY <1>2, <1>4 DEF ReadyInv, Working
<1>6. \A s \in Used' : s \in Nat
  BY SlotsFacts
<1>7. ScanInv'
  <2>1. \A s \in Used' : ~ (s < 0)
    BY <1>6
  <2> QED
    BY <1>2, <2>1 DEF ScanInv
<1>8. CountdownExact'
  <2> DEFINE N == {s \in Used : fd_table[s] \in rset}
  <2>1. N = {s \in Used : fd_table[s] \in rset /\ (pc = "scan" => s >= i)}
    BY <1>2
  <2>2. Cardinality(N) \in Nat
    BY SlotsFacts, FS_Subset, FS_CardinalityType
  <2>3. num_ready_fds = Cardinality(N) + 0 + 1
    BY <1>1, <1>2, <2>1 DEF CountdownExact
  <2>4. {s \in Used' : fd_table'[s] \in rset' /\ (pc' = "scan" => s >= i')} = N
    BY <1>2, <1>6
  <2>5. num_ready_fds' = Cardinality(N) + 0 + 0
    BY <1>2, <2>2, <2>3
  <2>6. pc' \in {"select", "scan"}
    BY <1>2
  <2> QED
    BY <2>4, <2>5, <2>6 DEF CountdownExact
<1> QED
  BY <1>4, <1>5, <1>7, <1>8

\* The connection is stored in the first free slot; with none free, it is closed and
\* its descriptor stays in allset.
LEMMA AcceptStep ==
  ASSUME IInv, Accept
  PROVE  IInv'
<1> DEFINE c    == Head(backlog)
           fd   == Min(Fds \ Open)
           free == {s \in Slots : fd_table[s] = -1}
<1>1. TypeOK /\ EnvOK /\ TableInv /\ ReadyInv
  BY DEF IInv
<1>2. /\ c \in Clients /\ client[c] = "queued"
      /\ backlog' \in Seq(Clients) /\ fd \in Fds \ Open
      /\ \A x \in Queued' : x \in Queued /\ x # c
      /\ \A m, n \in 1 .. Len(backlog') : backlog'[m] = backlog'[n] => m = n
      /\ \A f \in Open : sock[f] \in Clients /\ sock[f] # c
  BY AcceptedConnection DEF Accept
<1>3. /\ pc = "accept" /\ pc' \in {"select", "scan"} /\ i' = 0 /\ tmp_fd_idx' = -1
      /\ UNCHANGED <<datagram, rset, udp_ready, tcp_ready>> /\ AcceptOff
      /\ maxfd' = IF fd > maxfd THEN fd ELSE maxfd
      /\ allset' = allset \cup {fd}
  BY DEF Accept, AcceptOff, Counted
<1>4. /\ sock \in [Fds -> Clients \cup {NoClient}] /\ Open \subseteq Fds
      /\ fd_table \in [Slots \cup {Behind} -> Fds \cup {-1}]
      /\ client \in [Clients -> {"idle", "queued", "accepted"}]
      /\ max_fd_idx \in -1 .. MAX_CONTROL_SESSIONS /\ maxfd \in Fds \cup {0}
      /\ Fds \subseteq Nat /\ allset \subseteq Fds /\ sent \subseteq Clients
  BY <1>1, FdsFacts DEF TypeOK, Open
<1>5. ~ Overflowed /\ allset = Open /\ rset \subseteq Open
  BY <1>1, <1>3 DEF TableInv, ReadyInv
<1>6. /\ maxfd' \in Fds \cup {0} /\ maxfd \in Nat /\ maxfd' \in Nat
      /\ fd <= maxfd' /\ maxfd <= maxfd' /\ allset' \subseteq Fds
  <2> HIDE DEF fd, c, free
  <2>1. fd \in Nat /\ fd \in Fds /\ maxfd \in Nat
    BY <1>2, <1>4
  <2> QED
    BY <1>3, <1>4, <2>1
<1>7. i' \in 0 .. MAX_CONTROL_SESSIONS + 1 /\ tmp_fd_idx' \in -1 .. MAX_CONTROL_SESSIONS
  BY <1>3, SessionsAssumption
<1>8. \A f \in Open : /\ client[sock[f]] = "accepted"
                      /\ \A g \in Open : sock[f] = sock[g] => f = g
  BY <1>1 DEF EnvOK
<1>9. \A x \in Queued : client[x] = "queued" /\ x \in Clients
  BY <1>1 DEF EnvOK, Queued, TypeOK
<1>10. /\ {fd_table[s] : s \in Used} = Open
       /\ \A s, t \in Used : fd_table[s] = fd_table[t] => s = t
       /\ \A s \in Used : s <= max_fd_idx
       /\ \A f \in Open : f <= maxfd
  BY <1>1 DEF TableInv
<1>11. MAX_CONTROL_SESSIONS \in Nat \ {0} /\ max_fd_idx # MAX_CONTROL_SESSIONS
  BY <1>5, SessionsAssumption DEF Overflowed, Behind
<1>12. \A f \in Open : f \in Nat /\ f <= maxfd'
  BY <1>4, <1>6, <1>10
<1>13. ASSUME free # {} PROVE IInv'
  <2> DEFINE slot == Min(free)
  <2>1. slot \in free
    <3>1. free \subseteq Nat
      BY SlotsFacts
    <3> QED
      BY <1>13, <3>1, MinIsMember
  <2>2. /\ fd_table' = [fd_table EXCEPT ![slot] = fd]
        /\ sock' = [sock EXCEPT ![fd] = c]
        /\ client' = [client EXCEPT ![c] = "accepted"]
        /\ sent' = sent /\ max_fd_idx' = Raised(slot)
    BY <1>13 DEF Accept
  <2> HIDE DEF slot, fd, c
  <2>3. slot \in Slots /\ slot \notin Used /\ slot \in 0 .. MAX_CONTROL_SESSIONS - 1
    BY <2>1 DEF Used, Slots
  <2>4. Open' = Open \cup {fd} /\ sock'[fd] = c /\ \A f \in Open : sock'[f] = sock[f]
    BY <1>2, <1>4, <2>2, SessionsAssumption DEF Open
  <2>5. /\ Used' = Used \cup {slot} /\ fd_table'[slot] = fd
        /\ \A s \in Used : fd_table'[s] = fd_table[s]
    <3>1. \A s \in Slots : fd_table'[s] = IF s = slot THEN fd ELSE fd_table[s]
      BY <1>4, <2>2
    <3>2. fd # -1
      BY <1>2, FdsFacts
    <3>3. Used \subseteq Slots
      BY DEF Used
    <3> QED
      BY <2>3, <3>1, <3>2, <3>3 DEF Used
  <2>6. max_fd_idx' \in -1 .. MAX_CONTROL_SESSIONS - 1 /\ slot <= max_fd_idx'
        /\ max_fd_idx <= max_fd_idx'
    BY <1>4, <1>11, <2>2, <2>3 DEF Raised
  <2>7. TypeOK'
    <3>1. /\ sock' \in [Fds -> Clients \cup {NoClient}]
          /\ client' \in [Clients -> {"idle", "queued", "accepted"}]
      BY <1>2, <1>4, <2>2
    <3>2. fd_table' \in [Slots \cup {Behind} -> Fds \cup {-1}]
      BY <1>2, <1>4, <2>2
    <3>3. max_fd_idx' \in -1 .. MAX_CONTROL_SESSIONS
      BY <1>11, <2>6
    <3>4. num_ready_fds' \in Int
      BY <1>1 DEF Accept, Counted, TypeOK
    <3>5. /\ rset' \subseteq Fds /\ udp_ready' \in BOOLEAN /\ tcp_ready' \in BOOLEAN
          /\ datagram' \in BOOLEAN /\ sent' \subseteq Clients
          /\ pc' \in {"select", "udp", "accept", "scan", "down"}
      BY <1>1, <1>3, <2>2 DEF TypeOK
    <3> QED
      BY <1>2, <1>6, <1>7, <3>1, <3>2, <3>3, <3>4, <3>5 DEF TypeOK
  <2>8. EnvOK'
    <3>1. \A x \in Queued' : client'[x] = "queued"
      BY <1>2, <1>4, <1>9, <2>2
    <3>2. \A f \in Open' : client'[sock'[f]] = "accepted"
      BY <1>2, <1>4, <1>8, <2>2, <2>4
    <3>3. \A f, g \in Open' : sock'[f] = sock'[g] => f = g
      BY <1>2, <1>8, <2>4
    <3> QED
      BY <1>2, <3>1, <3>2, <3>3 DEF EnvOK
  <2>9. TableInv'
    <3>1. {fd_table'[s] : s \in Used'} = Open'
      BY <1>10, <2>4, <2>5
    <3>2. \A s \in Used : fd_table[s] \in Open
      BY <1>10
    <3>3. \A s, t \in Used' : fd_table'[s] = fd_table'[t] => s = t
      BY <1>2, <1>10, <2>5, <3>2
    <3>4. \A s \in Used' : s <= max_fd_idx'
      <4>1. \A s \in Used : s \in Nat
        BY SlotsFacts
      <4> QED
        BY <1>4, <1>10, <2>5, <2>6, <4>1
    <3>5. \A f \in Open' : f <= maxfd'
      BY <1>6, <1>12, <2>4
    <3>6. ~ Overflowed' /\ allset' = Open'
      BY <1>3, <1>5, <1>11, <2>4, <2>6 DEF Overflowed, Behind
    <3> QED
      BY <3>1, <3>3, <3>4, <3>5, <3>6 DEF TableInv
  <2>10. ReadyInv' /\ ScanInv' /\ CountdownExact'
    <3>1. Used \subseteq Used' /\ Used' \subseteq Slots
      BY <2>3, <2>5 DEF Used
    <3>2. \A s \in Used' \ Used : fd_table'[s] \notin rset
      BY <1>2, <1>5, <2>5
    <3> QED
      BY <1>3, <2>5, <3>1, <3>2, AcceptCounted
  <2> QED
    BY <2>7, <2>8, <2>9, <2>10 DEF IInv
<1>14. ASSUME free = {} PROVE IInv'
  <2>1. /\ UNCHANGED <<fd_table, sock>> /\ max_fd_idx' = Raised(MAX_CONTROL_SESSIONS)
        /\ client' = [client EXCEPT ![c] = "idle"] /\ sent' = sent \ {c}
    BY <1>14 DEF Accept
  <2>2. Open' = Open /\ Used' = Used
    BY <2>1 DEF Open, Used
  <2>3. max_fd_idx' = MAX_CONTROL_SESSIONS
    BY <1>4, <1>11, <2>1 DEF Raised
  <2> HIDE DEF fd, c
  <2>4. TypeOK'
    <3>1. client' \in [Clients -> {"idle", "queued", "accepted"}]
      BY <1>2, <1>4, <2>1
    <3>2. max_fd_idx' \in -1 .. MAX_CONTROL_SESSIONS
      BY <1>11, <2>3
    <3>3. num_ready_fds' \in Int
      BY <1>1 DEF Accept, Counted, TypeOK
    <3>4. /\ rset' \subseteq Fds /\ udp_ready' \in BOOLEAN /\ tcp_ready' \in BOOLEAN
          /\ datagram' \in BOOLEAN /\ sent' \subseteq Clients
          /\ pc' \in {"select", "udp", "accept", "scan", "down"}
      BY <1>1, <1>3, <2>1 DEF TypeOK
    <3> QED
      BY <1>2, <1>4, <1>6, <1>7, <2>1, <3>1, <3>2, <3>3, <3>4 DEF TypeOK
  <2>5. EnvOK'
    <3>1. \A x \in Queued' : client'[x] = "queued"
      BY <1>2, <1>4, <1>9, <2>1
    <3>2. \A f \in Open' : client'[sock'[f]] = "accepted"
      BY <1>2, <1>4, <1>8, <2>1, <2>2
    <3>3. \A f, g \in Open' : sock'[f] = sock'[g] => f = g
      BY <1>8, <2>1, <2>2
    <3> QED
      BY <1>2, <3>1, <3>2, <3>3 DEF EnvOK
  <2>6. TableInv'
    <3>1. Overflowed' /\ pc' \in {"select", "scan", "down"}
      BY <1>3, <2>3 DEF Overflowed, Behind
    <3>2. fd \in Beyond' /\ fd \notin rset'
      BY <1>2, <1>3, <1>5, <1>6, <2>2 DEF Beyond
    <3>3. \A s \in Used' : s <= max_fd_idx'
      BY <2>2, <2>3, SlotsFacts DEF Behind
    <3>4. \A f \in Open' : f <= maxfd'
      BY <1>12, <2>2
    <3> QED
      BY <1>10, <2>1, <2>2, <3>1, <3>2, <3>3, <3>4 DEF TableInv
  <2>7. ReadyInv' /\ ScanInv' /\ CountdownExact'
    <3>1. Used \subseteq Used' /\ Used' \subseteq Slots
      BY <2>2 DEF Used
    <3> QED
      BY <1>3, <2>1, <2>2, <3>1, AcceptCounted
  <2> QED
    BY <2>4, <2>5, <2>6, <2>7 DEF IInv
<1> QED
  BY <1>13, <1>14

\* accept() fails: the table stays, and the connection is gone or waits on.
LEMMA AcceptFailsStep ==
  ASSUME IInv, AcceptFails
  PROVE  IInv'
<1> DEFINE c == Head(backlog)
<1>1. TypeOK /\ EnvOK /\ TableInv /\ ReadyInv
  BY DEF IInv
<1>2. /\ pc = "accept" /\ tcp_ready /\ pc' \in {"select", "scan"} /\ i' = 0 /\ tmp_fd_idx' = -1
      /\ UNCHANGED <<datagram, sock, fd_table, max_fd_idx, maxfd, allset, rset, udp_ready,
                     tcp_ready>>
      /\ AcceptOff
  BY DEF AcceptFails, AcceptOff, Counted, tableVars
<1>3. Open' = Open /\ Used' = Used /\ Overflowed' = Overflowed
  BY <1>2 DEF Open, Used, Overflowed
<1>4. ReadyInv' /\ ScanInv' /\ CountdownExact' /\ num_ready_fds' \in Int
  <2>1. Used' \subseteq Slots
    BY <1>3, SlotsFacts
  <2> QED
    BY <1>2, <1>3, <2>1, AcceptCounted
<1>5. TableInv'
  BY <1>1, <1>2, <1>3 DEF TableInv
<1>6. /\ client' \in [Clients -> {"idle", "queued", "accepted"}] /\ sent' \subseteq Clients
      /\ backlog' \in Seq(Clients) /\ EnvOK'
  <2>1. CASE UNCHANGED <<client, backlog, sent>>
    BY <1>1, <1>2, <2>1 DEF TypeOK, EnvOK, Queued, Open
  <2>2. CASE /\ client' = [client EXCEPT ![c] = "idle"]
             /\ backlog' = Tail(backlog) /\ sent' = sent \ {c}
    <3>1. /\ c \in Clients /\ backlog' \in Seq(Clients)
          /\ \A x \in Queued' : x \in Queued /\ x # c
          /\ \A m, n \in 1 .. Len(backlog') : backlog'[m] = backlog'[n] => m = n
          /\ \A f \in Open : sock[f] \in Clients /\ sock[f] # c
      BY <1>2, <2>2, AcceptedConnection
    <3> HIDE DEF c
    <3>2. /\ client' \in [Clients -> {"idle", "queued", "accepted"}]
          /\ \A x \in Clients \ {c} : client'[x] = client[x]
      BY <1>1, <2>2, <3>1 DEF TypeOK
    <3>3. \A x \in Queued' : client'[x] = "queued"
      <4>1. \A x \in Queued : client[x] = "queued" /\ x \in Clients
        BY <1>1 DEF EnvOK, Queued, TypeOK
      <4> QED
        BY <3>1, <3>2, <4>1
    <3>4. /\ \A f \in Open' : client'[sock'[f]] = "accepted"
          /\ \A f, g \in Open' : sock'[f] = sock'[g] => f = g
      BY <1>1, <1>2, <1>3, <3>1, <3>2 DEF EnvOK
    <3> QED
      BY <1>1, <2>2, <3>1, <3>2, <3>3, <3>4 DEF EnvOK, TypeOK
  <2> QED
    BY <2>1, <2>2 DEF AcceptFails
<1>7. TypeOK'
  <2>1. i' \in 0 .. MAX_CONTROL_SESSIONS + 1 /\ tmp_fd_idx' \in -1 .. MAX_CONTROL_SESSIONS
    BY <1>2, SessionsAssumption
  <2> QED
    BY <1>1, <1>2, <1>4, <1>6, <2>1 DEF TypeOK
<1> QED
  BY <1>4, <1>5, <1>6, <1>7 DEF IInv

\* Every step keeps the invariant.
LEMMA NextInv ==
  IInv /\ [Next]_vars => IInv'
<1> SUFFICES ASSUME IInv, [Next]_vars PROVE IInv'
  OBVIOUS
<1>1. ASSUME NEW c \in Clients, Connect(c) PROVE IInv'
  BY <1>1, ConnectStep
<1>2. ASSUME NEW c \in Clients, Send(c) PROVE IInv'
  BY <1>2, SendStep
<1>3. CASE ChatDatagram
  BY <1>3, SendStep
<1>4. CASE Server
  BY <1>4, SelectStep, EndStep, ReadChatStep, AcceptStep, AcceptFailsStep, NoAcceptStep,
     PassSlotStep, ServeSlotStep DEF Server
<1>5. ASSUME UNCHANGED vars PROVE IInv'
  <2>1. ServerUnchanged /\ UNCHANGED <<client, backlog, sent, datagram>>
    BY <1>5 DEF vars, envVars, ServerUnchanged
  <2>2. TypeOK' /\ EnvOK'
    BY <2>1 DEF IInv, TypeOK, EnvOK, Queued, Open, ServerUnchanged, tableVars, readyVars, scanVars
  <2> QED
    BY <2>1, <2>2, ServerFrame DEF IInv
<1> QED
  BY <1>1, <1>2, <1>3, <1>4, <1>5 DEF Next, Down

LEMMA SpecInv == Spec => []IInv
  BY InitInv, NextInv, PTL DEF Spec

-----------------------------------------------------------------------------
(* The theorems. *)

\* Every variable keeps its type, and so every index its bounds: the loop of
\* server_main.c:127-326 for any number of slots and of clients.
THEOREM TypeCorrect == Spec => []TypeOK
<1>1. IInv => TypeOK
  BY DEF IInv
<1> QED
  BY <1>1, SpecInv, PTL

\* The table, the descriptor set and the kernel agree, and no connection lies beyond
\* max_fd_idx or maxfd, until one connection too many (server_main.c:246-324).
THEOREM TableCorrect == Spec => []TableOK
<1>1. IInv => TableOK
  BY DEF IInv, TableInv, TableOK
<1> QED
  BY <1>1, SpecInv, PTL

\* num_ready_fds is the number of ready descriptors still to be dealt with, in all three
\* branches of the loop (server_main.c:231-316).
THEOREM CountdownCorrect == Spec => []CountdownExact
<1>1. IInv => CountdownExact
  BY DEF IInv
<1> QED
  BY <1>1, SpecInv, PTL

\* The scan never leaves the table: not through a max_fd_idx that ran past it when a
\* connection too many came (server_main.c:301: i <= max_fd_idx is not what stops it).
THEOREM ScanStaysInTable == Spec => [](pc = "scan" => i \in Slots)
<1>1. IInv => (pc = "scan" => i \in Slots)
  BY ScanWithin DEF IInv
<1> QED
  BY <1>1, SpecInv, PTL

\* The loop ends in the handling of a request (process_control_msg, server_main.c:305),
\* or else by an overflow of the table: neither accept() failing, nor clients that hang
\* up, nor the closing of descriptors the loop still holds in allset or beyond
\* max_fd_idx, make select() fail (server_main.c:130-134).
THEOREM LoopEndsByOverflow ==
  Spec => [][pc # "down" /\ pc' = "down" => RequestFatal \/ Overflowed]_vars
<1>1. ASSUME IInv, [Next]_vars, pc # "down", pc' = "down"
      PROVE  RequestFatal \/ Overflowed
  <2>1. SelectFails => Overflowed
    BY <1>1 DEF IInv, TableInv, SelectFails
  <2>2. SelectFails \/ RequestFatal
    BY <1>1 DEF Next, Server, Connect, Send, ChatDatagram, Select, ReadChat, Accept, AcceptFails,
       NoAccept, PassSlot, ServeSlot, Counted, Down, vars
  <2> QED
    BY <2>1, <2>2
<1> QED
  BY <1>1, SpecInv, PTL DEF Spec
=============================================================================
