---------------------------- MODULE ControlSessions ----------------------------
(***************************************************************************)
(* The select() loop of the chat server (A3/server_main.c:127-326) and its   *)
(* table of control connections.  What a request does is ChatServer's        *)
(* matter; here a request is read, answered and its connection closed, or it *)
(* ends the server, as ChatServer shows that one can.                        *)
(*                                                                           *)
(* The loop works on rset, a copy of the descriptors that were ready when    *)
(* select() returned, and counts them down in num_ready_fds; meanwhile       *)
(* clients connect and send.  One action is one turn through the loop's      *)
(* branches, or one slot of the scan.                                        *)
(***************************************************************************)
EXTENDS Integers, FiniteSets, FiniteSetsExt, Sequences

CONSTANTS
  Clients,                  \* processes that open control connections
  MAX_CONTROL_SESSIONS      \* slots of fd_table

\* A descriptor that belongs to no client.
NoClient == "none"

ASSUME SessionsAssumption ==
  /\ IsFiniteSet(Clients) /\ NoClient \notin Clients
  /\ MAX_CONTROL_SESSIONS \in Nat \ {0}

\* Descriptors of connections: the kernel hands out the lowest that is free.
\* 0 stands for the two listening sockets, which are always open.
Fds == 1 .. Cardinality(Clients)

VARIABLES
  client,          \* [Clients -> {"idle", "queued", "accepted"}]
  backlog,         \* connections the kernel has made, in order, not yet accepted
  sent,            \* clients that have sent their request, or hung up
  datagram,        \* a chat message waits at the UDP socket
  sock,            \* the kernel's open connections: from descriptor to client
  pc,              \* where the server is in its loop
  fd_table, max_fd_idx, maxfd, allset,
  rset, udp_ready, tcp_ready, num_ready_fds,     \* what select() returned
  i, tmp_fd_idx                                  \* the scan

envVars == <<client, backlog, sent, datagram, sock>>
tableVars == <<fd_table, max_fd_idx, maxfd, allset>>
readyVars == <<rset, udp_ready, tcp_ready, num_ready_fds>>
scanVars == <<i, tmp_fd_idx>>
vars == <<envVars, pc, tableVars, readyVars, scanVars>>

\* Slot MAX_CONTROL_SESSIONS is the int that lies behind the array: max_fd_idx
\* may run past the table, and then only the countdown keeps the scan from it.
Slots == 0 .. MAX_CONTROL_SESSIONS - 1
Behind == MAX_CONTROL_SESSIONS

Init ==
  /\ client = [c \in Clients |-> "idle"]
  /\ backlog = <<>> /\ sent = {} /\ datagram = FALSE
  /\ sock = [f \in Fds |-> NoClient]
  /\ pc = "select"
  /\ \E v \in Fds \cup {-1} :
       fd_table = [s \in Slots \cup {Behind} |-> IF s = Behind THEN v ELSE -1]
  /\ max_fd_idx = -1 /\ maxfd = 0 /\ allset = {}
  /\ rset = {} /\ udp_ready = FALSE /\ tcp_ready = FALSE /\ num_ready_fds = 0
  /\ i = 0 /\ tmp_fd_idx = -1

-----------------------------------------------------------------------------
(* Clients: connect, send one request or hang up, and start again once the *)
(* server has closed the connection.                                       *)

Connect(c) ==
  /\ client[c] = "idle"
  /\ client' = [client EXCEPT ![c] = "queued"]
  /\ backlog' = Append(backlog, c)
  /\ UNCHANGED <<sent, datagram, sock, pc, tableVars, readyVars, scanVars>>

Send(c) ==
  /\ client[c] # "idle" /\ c \notin sent
  /\ sent' = sent \cup {c}
  /\ UNCHANGED <<client, backlog, datagram, sock, pc, tableVars, readyVars, scanVars>>

ChatDatagram ==
  /\ ~ datagram
  /\ datagram' = TRUE
  /\ UNCHANGED <<client, backlog, sent, sock, pc, tableVars, readyVars, scanVars>>

-----------------------------------------------------------------------------
(* The server. *)

Open == {f \in Fds : sock[f] # NoClient}
Readable == {f \in Open : sock[f] \in sent}

\* select() looks at descriptors up to maxfd, and fails on one that is closed.
Select ==
  /\ pc = "select"
  /\ \A f \in allset : f <= maxfd => f \in Open
  /\ rset' = {f \in allset \cap Readable : f <= maxfd}
  /\ udp_ready' = datagram
  /\ tcp_ready' = (backlog # <<>>)
  /\ num_ready_fds' = Cardinality(rset') + (IF udp_ready' THEN 1 ELSE 0)
                                         + (IF tcp_ready' THEN 1 ELSE 0)
  /\ num_ready_fds' > 0
  /\ pc' = "udp"
  /\ UNCHANGED <<envVars, tableVars, scanVars>>

\* EBADF: the server exits.
SelectFails ==
  /\ pc = "select"
  /\ \E f \in allset : f <= maxfd /\ f \notin Open
  /\ pc' = "down"
  /\ UNCHANGED <<envVars, tableVars, readyVars, scanVars>>

\* Mutant: the countdown stands still.
CountedNot(next) == pc' = next /\ UNCHANGED num_ready_fds

\* One descriptor is dealt with: the next branch, or select() when it was the last.
Counted(next) ==
  /\ num_ready_fds' = num_ready_fds - 1
  /\ pc' = IF num_ready_fds' <= 0 THEN "select" ELSE next

ReadChat ==
  /\ pc = "udp"
  /\ \/ /\ udp_ready
        /\ datagram' = FALSE
        /\ Counted("accept")
     \/ /\ ~ udp_ready
        /\ pc' = "accept"
        /\ UNCHANGED <<datagram, num_ready_fds>>
  /\ UNCHANGED <<client, backlog, sent, sock, tableVars, rset, udp_ready, tcp_ready, scanVars>>

\* Mutant: max_fd_idx becomes the index behind the slot.
RaisedOneFurther(slot) == IF slot >= max_fd_idx THEN slot + 1 ELSE max_fd_idx

Raised(slot) == IF slot > max_fd_idx THEN slot ELSE max_fd_idx

\* The first free slot takes the connection; with none free it is closed, but
\* max_fd_idx, maxfd and allset are updated as if it had been stored.
Accept ==
  /\ pc = "accept" /\ tcp_ready
  /\ backlog' = Tail(backlog)
  /\ LET c    == Head(backlog)
         fd   == Min(Fds \ Open)
         free == {s \in Slots : fd_table[s] = -1}
         slot == IF free = {} THEN MAX_CONTROL_SESSIONS ELSE Min(free)
     IN  /\ IF free # {}
            THEN /\ fd_table' = [fd_table EXCEPT ![slot] = fd]
                 /\ sock' = [sock EXCEPT ![fd] = c]
                 /\ client' = [client EXCEPT ![c] = "accepted"]
                 /\ sent' = sent
            ELSE /\ client' = [client EXCEPT ![c] = "idle"]
                 /\ sent' = sent \ {c}
                 /\ UNCHANGED <<fd_table, sock>>
         /\ max_fd_idx' = Raised(slot)
         /\ maxfd' = IF fd > maxfd THEN fd ELSE maxfd
         /\ allset' = allset \cup {fd}
  /\ Counted("scan")
  /\ i' = 0 /\ tmp_fd_idx' = -1
  /\ UNCHANGED <<datagram, rset, udp_ready, tcp_ready>>

\* accept() fails: the connection is gone, or still waits, as when descriptors or
\* buffers are short.
AcceptFails ==
  /\ pc = "accept" /\ tcp_ready
  /\ \/ UNCHANGED <<client, backlog, sent>>
     \/ /\ client' = [client EXCEPT ![Head(backlog)] = "idle"]
        /\ backlog' = Tail(backlog)
        /\ sent' = sent \ {Head(backlog)}
  /\ Counted("scan")
  /\ i' = 0 /\ tmp_fd_idx' = -1
  /\ UNCHANGED <<datagram, sock, tableVars, rset, udp_ready, tcp_ready>>

NoAccept ==
  /\ pc = "accept" /\ ~ tcp_ready
  /\ pc' = "scan" /\ i' = 0 /\ tmp_fd_idx' = -1
  /\ UNCHANGED <<envVars, tableVars, readyVars>>

\* A slot that is free, or whose descriptor is not ready: its index is the
\* second highest in use if the highest is about to be closed.
PassSlot ==
  /\ pc = "scan" /\ i <= max_fd_idx
  /\ fd_table[i] \notin rset
  /\ tmp_fd_idx' = IF fd_table[i] = -1 THEN tmp_fd_idx ELSE i
  /\ i' = i + 1
  /\ UNCHANGED <<envVars, pc, tableVars, readyVars>>

\* Mutant: the second highest slot in use is forgotten.
LoweredToNone == IF i = max_fd_idx THEN -1 ELSE max_fd_idx

\* When the loop broke off at the highest slot.
Lowered == IF i = max_fd_idx THEN tmp_fd_idx ELSE max_fd_idx

\* process_control_msg, then the connection is closed and the slot freed; the
\* loop breaks off, without advancing i, at the last ready descriptor.  It never
\* comes to its end before: CountdownExact, and no run deadlocks in the scan.
ServeSlot ==
  /\ pc = "scan" /\ i <= max_fd_idx
  /\ fd_table[i] \in rset
  /\ LET fd == fd_table[i]
         c  == sock[fd]
     IN  /\ sock' = [sock EXCEPT ![fd] = NoClient]
         /\ client' = IF c = NoClient THEN client ELSE [client EXCEPT ![c] = "idle"]
         /\ sent' = sent \ {c}
         /\ allset' = allset \ {fd}
  /\ fd_table' = [fd_table EXCEPT ![i] = -1]
  /\ num_ready_fds' = num_ready_fds - 1
  /\ IF num_ready_fds' <= 0
     THEN /\ max_fd_idx' = Lowered
          /\ pc' = "select" /\ i' = i
     ELSE /\ i' = i + 1
          /\ UNCHANGED <<max_fd_idx, pc>>
  /\ UNCHANGED <<backlog, datagram, maxfd, rset, udp_ready, tcp_ready, tmp_fd_idx>>

\* process_control_msg ends the server, as creating a room can (ChatServer!ServerDies).
RequestFatal ==
  /\ pc = "scan" /\ i <= max_fd_idx
  /\ fd_table[i] \in rset
  /\ pc' = "down"
  /\ UNCHANGED <<envVars, tableVars, readyVars, scanVars>>

Down == pc = "down" /\ UNCHANGED vars

Server ==
  \/ Select \/ SelectFails \/ ReadChat
  \/ Accept \/ AcceptFails \/ NoAccept
  \/ PassSlot \/ ServeSlot \/ RequestFatal

Next ==
  \/ \E c \in Clients : Connect(c) \/ Send(c)
  \/ ChatDatagram
  \/ Server
  \/ Down

Spec == Init /\ [][Next]_vars

\* The server is given the processor, and accept() does not fail for ever.  Nothing is
\* asked of the clients.
FairSpec == Spec /\ WF_vars(Server) /\ SF_vars(Accept)

-----------------------------------------------------------------------------
(* Properties. *)

TypeOK ==
  /\ client \in [Clients -> {"idle", "queued", "accepted"}]
  /\ backlog \in Seq(Clients) /\ sent \subseteq Clients /\ datagram \in BOOLEAN
  /\ sock \in [Fds -> Clients \cup {NoClient}]
  /\ pc \in {"select", "udp", "accept", "scan", "down"}
  /\ fd_table \in [Slots \cup {Behind} -> Fds \cup {-1}]
  /\ max_fd_idx \in -1 .. MAX_CONTROL_SESSIONS /\ maxfd \in Fds \cup {0}
  /\ allset \subseteq Fds /\ rset \subseteq Fds
  /\ udp_ready \in BOOLEAN /\ tcp_ready \in BOOLEAN
  /\ num_ready_fds \in Int
  /\ i \in 0 .. MAX_CONTROL_SESSIONS + 1 /\ tmp_fd_idx \in -1 .. MAX_CONTROL_SESSIONS

Used == {s \in Slots : fd_table[s] # -1}

\* A connection more than the table has slots was closed, but left its marks, though
\* "server sits in an infinite loop" (server_main.c:116): the next select() is its last.
Overflowed == max_fd_idx = Behind

\* Until then, and so also when a request ends the server, the table, the descriptor
\* set and the kernel agree, and the bounds the loop relies on hold: no connection lies beyond max_fd_idx, where the scan would never look, or beyond
\* maxfd, where select() would not (the update of max_fd_idx from tmp_fd_idx,
\* server_main.c:296-324).
TableOK ==
  \/ Overflowed
  \/ /\ {fd_table[s] : s \in Used} = allset
     /\ \A s, t \in Used : fd_table[s] = fd_table[t] => s = t
     /\ \A s \in Used : s <= max_fd_idx
     /\ allset = Open
     /\ \A f \in Open : f <= maxfd

\* The countdown is exact: it is the number of ready descriptors still to be dealt
\* with, so the loop neither breaks off before the last one nor goes on after it,
\* beyond the table (--num_ready_fds in the three branches).
CountdownExact ==
  pc \in {"udp", "accept", "scan"} =>
    num_ready_fds = Cardinality({s \in Used : fd_table[s] \in rset /\ (pc = "scan" => s >= i)})
                    + (IF pc = "udp" /\ udp_ready THEN 1 ELSE 0)
                    + (IF pc \in {"udp", "accept"} /\ tcp_ready THEN 1 ELSE 0)

\* A client that connects is accepted, and one that has sent its request is
\* answered and disconnected, whatever the other connections do, unless the server
\* ends: by a connection too many, or by a request that is fatal to it.
ConnectionsServed ==
  \A c \in Clients : /\ client[c] = "queued" ~> client[c] # "queued" \/ pc = "down"
                     /\ c \in sent ~> client[c] = "idle" \/ pc = "down"
=============================================================================
