------------------------------ MODULE ChatReceiver ------------------------------
(***************************************************************************)
(* The two processes of a chat client: the control process (client_main.c)   *)
(* and the receiver it forks (client_recv.c), with the System V queue between *)
(* them, for several clients of one user on one machine.  Registering and the *)
(* commands are in ChatClient; here a running client is at "main".            *)
(***************************************************************************)
EXTENDS Integers, SequencesExt

CONSTANTS
  NULL,
  Clients,
  Keys,             \* what ftok makes of a file: 16 bits of its inode, so files may share one
  Left,             \* keys the queue of an earlier program may have; NULL: there is none
  Ports,            \* the ports the receiver tries
  RETRIES,          \* times the control process looks for an answer (20)
  QUEUE             \* bound: messages a queue holds (msg_qbytes)

\* The maker of a queue left by a program that ended before.
Earlier == "earlier"

ASSUME ReceiverAssumption ==
  /\ IsFiniteSet(Clients)
  /\ NULL \notin Clients \cup Keys /\ Earlier \notin Clients \cup {NULL}
  /\ Left \subseteq Keys \cup {NULL} /\ Left # {}
  /\ Ports \subseteq Nat \ {0}
  /\ RETRIES \in Nat \ {0}
  /\ QUEUE \in Nat /\ QUEUE >= 3    \* an answer and two requests to quit

\* Identifiers of queues; the kernel does not give one out again.  The last one is
\* that of a queue an earlier program may have left.
QIds == 0 .. Cardinality(Clients)
Leftover == Cardinality(Clients)

VARIABLES
  pc,               \* where the control process is
  numtries,
  file,             \* key of the client's ctrl2rcvr file; NULL: there is none
  ctrl2rcvr_qid,
  client_udp_port,
  interrupted,      \* the handler of Ctrl-C runs
  rpc,              \* where the receiver is; "none" before the fork, "gone" after its end
  rkey, rqid,       \* the key it was told, the queue it opened
  rport,            \* the port it is bound to, or 0
  key, msgs,        \* queues: key, or NULL if there is no such queue; messages
  maker,            \* of a queue, for the properties only: the client that made it
  disturbed,        \* for the properties only: clients into whose queue another
                    \* client wrote, or whose queue another client removed or opened,
                    \* as long as they have not exited
  unkept            \* for the properties only: clients that Ctrl-C stopped between the
                    \* making of their queue and the store of its identifier

ctlVars == <<pc, numtries, file, ctrl2rcvr_qid, client_udp_port, interrupted>>
rcvVars == <<rpc, rkey, rqid, rport>>
queueVars == <<key, msgs>>
vars == <<ctlVars, rcvVars, queueVars, maker, disturbed, unkept>>

BIND_FAILED == 12

\* Messages; those of type RECV_TYPE are for the receiver.
RECV_READY(p) == [to |-> "control", status |-> "ready", value |-> p]
RECV_NOTREADY == [to |-> "control", status |-> "not ready", value |-> BIND_FAILED]
CHAT_QUIT == [to |-> "receiver", status |-> "quit", value |-> 0]
SWITCHED_CHAN == [to |-> "receiver", status |-> "switched", value |-> 0]

\* The globals are zero at first: 0 is also the identifier of the first queue.
Init ==
  /\ pc = [c \in Clients |-> "start"]
  /\ numtries = [c \in Clients |-> 0]
  /\ file = [c \in Clients |-> NULL]
  /\ ctrl2rcvr_qid = [c \in Clients |-> 0]
  /\ client_udp_port = [c \in Clients |-> 0]
  /\ interrupted = [c \in Clients |-> FALSE]
  /\ rpc = [c \in Clients |-> "none"]
  /\ rkey = [c \in Clients |-> NULL] /\ rqid = [c \in Clients |-> -1]
  /\ rport = [c \in Clients |-> 0]
  /\ msgs = [q \in QIds |-> <<>>]
  /\ \E k \in Left : key = [q \in QIds |-> IF q = Leftover THEN k ELSE NULL]
  /\ maker = [q \in QIds |-> IF key[q] = NULL THEN NULL ELSE Earlier]
  /\ disturbed = {} /\ unkept = {}

-----------------------------------------------------------------------------
(* System V queues. *)

Exists(q) == q \in QIds /\ key[q] # NULL

\* A sender waits while the queue is full; a queue that is gone is an error, which
\* no caller looks at.
msgsnd(q, m) ==
  /\ Exists(q) => Len(msgs[q]) < QUEUE
  /\ msgs' = IF Exists(q) THEN [msgs EXCEPT ![q] = Append(@, m)] ELSE msgs
  /\ UNCHANGED key

\* Messages in q for a process, as places in the queue: msgrcv takes the first.
For(q, who) == IF Exists(q) THEN {i \in DOMAIN msgs[q] : msgs[q][i].to = who} ELSE {}

FirstFor(q, who) == CHOOSE i \in For(q, who) : \A j \in For(q, who) : i <= j

Taken(q, who) == msgs' = [msgs EXCEPT ![q] = RemoveAt(@, FirstFor(q, who))] /\ UNCHANGED key

QueuesOf(k) == {q \in QIds : key[q] = k}

Unmade == {q \in QIds \ {Leftover} : maker[q] = NULL}

Removed(q) == key' = [key EXCEPT ![q] = NULL] /\ msgs' = [msgs EXCEPT ![q] = <<>>]

\* Client c acts on q: its maker is disturbed, unless it is done with it.
Touched(c, q) ==
  IF Exists(q) /\ maker[q] \notin {c, Earlier} /\ pc[maker[q]] \notin {"rmid", "exited"}
  THEN {maker[q]} ELSE {}

Touches(c, q) == disturbed' = disturbed \cup Touched(c, q)

-----------------------------------------------------------------------------
(* The control process: create_receiver. *)

Goes(c, label) == pc' = [pc EXCEPT ![c] = label]

\* The file for the channel is made, or cannot be: init_client goes on all the same.
MakeFile(c) ==
  /\ pc[c] = "start"
  /\ \/ \E k \in Keys : file' = [file EXCEPT ![c] = k] /\ Goes(c, "create")
     \/ Goes(c, "main") /\ UNCHANGED file
  /\ UNCHANGED <<numtries, ctrl2rcvr_qid, client_udp_port, interrupted, rcvVars, queueVars,
                 maker, disturbed, unkept>>

\* No channel: the file is removed and create_receiver fails.
NoChannel(c, q) ==
  /\ file' = [file EXCEPT ![c] = NULL]
  /\ ctrl2rcvr_qid' = [ctrl2rcvr_qid EXCEPT ![c] = q]
  /\ Goes(c, "main")
  /\ UNCHANGED <<numtries, client_udp_port, interrupted, rcvVars, queueVars, maker,
                 disturbed, unkept>>

\* msgget makes the queue.  Its identifier is only a result yet: the handler of Ctrl-C,
\* if it comes now, takes the one before, 0 or that of the queue that was removed.
MakeQueue(c) ==
  /\ pc[c] \in {"create", "again"}
  /\ QueuesOf(file[c]) = {}
  /\ \E q \in Unmade :
       /\ \A p \in Unmade : q <= p
       /\ key' = [key EXCEPT ![q] = file[c]]
       /\ maker' = [maker EXCEPT ![q] = c]
  /\ Goes(c, "made")
  /\ UNCHANGED <<numtries, file, ctrl2rcvr_qid, client_udp_port, interrupted, rcvVars, msgs,
                 disturbed, unkept>>

\* The identifier is stored.
KeepQueue(c) ==
  /\ pc[c] = "made"
  /\ \E q \in QIds : maker[q] = c /\ ctrl2rcvr_qid' = [ctrl2rcvr_qid EXCEPT ![c] = q]
  /\ Goes(c, "fork")
  /\ UNCHANGED <<numtries, file, client_udp_port, interrupted, rcvVars, queueVars, maker,
                 disturbed, unkept>>

\* The receiver is forked, or create_receiver fails.
Fork(c) ==
  /\ pc[c] = "fork"
  /\ \/ /\ Goes(c, "poll")
        /\ rpc' = [rpc EXCEPT ![c] = "exec"]
        /\ rkey' = [rkey EXCEPT ![c] = file[c]]
     \/ Goes(c, "main") /\ UNCHANGED <<rpc, rkey>>
  /\ UNCHANGED <<numtries, file, ctrl2rcvr_qid, client_udp_port, interrupted, rqid, rport,
                 queueVars, maker, disturbed, unkept>>

\* No queue: the first time for any error but EEXIST, the second time for any.
MakeFails(c) == pc[c] \in {"create", "again"} /\ NoChannel(c, -1)

\* There is a queue with this key.
QueueExists(c) ==
  /\ pc[c] = "create"
  /\ QueuesOf(file[c]) # {}
  /\ Goes(c, "exists")
  /\ ctrl2rcvr_qid' = [ctrl2rcvr_qid EXCEPT ![c] = -1]
  /\ UNCHANGED <<numtries, file, client_udp_port, interrupted, rcvVars, queueVars, maker,
                 disturbed, unkept>>

\* It was there a moment ago.
OpenOld(c) ==
  /\ pc[c] = "exists"
  /\ \/ /\ \E q \in QueuesOf(file[c]) :
             ctrl2rcvr_qid' = [ctrl2rcvr_qid EXCEPT ![c] = q]
        /\ Goes(c, "remove")
        /\ UNCHANGED <<numtries, file, client_udp_port, interrupted, rcvVars, queueVars,
                       maker, disturbed, unkept>>
     \/ QueuesOf(file[c]) = {} /\ NoChannel(c, -1)

RemoveOld(c) ==
  /\ pc[c] = "remove"
  /\ LET q == ctrl2rcvr_qid[c] IN
     \/ /\ Exists(q)
        /\ Removed(q) /\ Touches(c, q)
        /\ Goes(c, "again")
        /\ UNCHANGED <<numtries, file, ctrl2rcvr_qid, client_udp_port, interrupted, rcvVars,
                       maker, unkept>>
     \/ ~ Exists(q) /\ NoChannel(c, q)

\* Mutant: the value of any answer is taken for a port.
PortAfterAny(c, m) == m.value

PortAfter(c, m) == IF m.status = "ready" THEN m.value ELSE client_udp_port[c]

\* An answer: the port, or a failure, which init_client does not mind.
GetAnswer(c) ==
  LET q == ctrl2rcvr_qid[c]
      m == msgs[q][FirstFor(q, "control")] IN
  /\ pc[c] = "poll"
  /\ For(q, "control") # {}
  /\ client_udp_port' = [client_udp_port EXCEPT ![c] = PortAfter(c, m)]
  /\ Taken(q, "control")
  /\ Goes(c, "main")
  /\ numtries' = [numtries EXCEPT ![c] = 0]
  /\ UNCHANGED <<file, ctrl2rcvr_qid, interrupted, rcvVars, maker, disturbed, unkept>>

\* Mutant: the tries are not counted.
TriesUncounted(c) == numtries[c]

Tries(c) == numtries[c] + 1

\* No answer yet, a second passes.  If the queue is gone, the loop goes on uncounted.
NoAnswer(c) ==
  /\ pc[c] = "poll"
  /\ Exists(ctrl2rcvr_qid[c]) /\ For(ctrl2rcvr_qid[c], "control") = {}
  /\ IF Tries(c) = RETRIES
     THEN Goes(c, "giveup") /\ numtries' = [numtries EXCEPT ![c] = 0]
     ELSE numtries' = [numtries EXCEPT ![c] = Tries(c)] /\ UNCHANGED pc
  /\ UNCHANGED <<file, ctrl2rcvr_qid, client_udp_port, interrupted, rcvVars, queueVars, maker,
                 disturbed, unkept>>

\* Mutant: the control process does not wait for the receiver.
ReceiverGoneUnseen(c) == TRUE

\* waitpid returns: the child has ended, or there never was one.
ReceiverGone(c) == rpc[c] \in {"none", "gone"}

GiveUp(c) ==
  /\ pc[c] = "giveup" /\ ReceiverGone(c)
  /\ Goes(c, "main")
  /\ UNCHANGED <<numtries, file, ctrl2rcvr_qid, client_udp_port, interrupted, rcvVars,
                 queueVars, maker, disturbed, unkept>>

-----------------------------------------------------------------------------
(* The control process: a switch of rooms, and the ends of the program. *)

\* A room was switched to; the receiver is to be told.
Switch(c) ==
  /\ pc[c] = "main"
  /\ Goes(c, "notify")
  /\ UNCHANGED <<numtries, file, ctrl2rcvr_qid, client_udp_port, interrupted, rcvVars,
                 queueVars, maker, disturbed, unkept>>

\* What c sends on its channel at the label "at", and where it goes then.
Sends(c, at, m, label) ==
  /\ pc[c] = at
  /\ msgsnd(ctrl2rcvr_qid[c], m)
  /\ Touches(c, ctrl2rcvr_qid[c])
  /\ Goes(c, label)
  /\ UNCHANGED <<numtries, file, ctrl2rcvr_qid, client_udp_port, interrupted, rcvVars,
                 maker, unkept>>

Notify(c) == Sends(c, "notify", SWITCHED_CHAN, "main")

\* shutdown_clean begins: the user quits, the client gives up, ...
Quit(c) ==
  /\ pc[c] = "main"
  /\ Goes(c, "quit")
  /\ UNCHANGED <<numtries, file, ctrl2rcvr_qid, client_udp_port, interrupted, rcvVars,
                 queueVars, maker, disturbed, unkept>>

\* ... or Ctrl-C, also in the middle of a shutdown_clean, but not of a handler.
Interrupt(c) ==
  /\ pc[c] \notin {"exited", "aborted"} /\ ~ interrupted[c]
  /\ interrupted' = [interrupted EXCEPT ![c] = TRUE]
  /\ numtries' = [numtries EXCEPT ![c] = 0]
  /\ unkept' = IF pc[c] = "made" THEN unkept \cup {c} ELSE unkept
  /\ Goes(c, "quit")
  /\ UNCHANGED <<file, ctrl2rcvr_qid, client_udp_port, rcvVars, queueVars, maker, disturbed>>

\* Mutant: the receiver is not told to quit but that the room was switched.
QuitMessageWrong == SWITCHED_CHAN

QuitMessage == CHAT_QUIT

SendQuit(c) == Sends(c, "quit", QuitMessage, "wait")

\* The file goes first, so its inode may be another file's before the queue is gone.
WaitForReceiver(c) ==
  /\ pc[c] = "wait" /\ ReceiverGone(c)
  /\ file' = [file EXCEPT ![c] = NULL]
  /\ Goes(c, "rmid")
  /\ UNCHANGED <<numtries, ctrl2rcvr_qid, client_udp_port, interrupted, rcvVars, queueVars,
                 maker, disturbed, unkept>>

RemoveQueue(c) ==
  LET q == ctrl2rcvr_qid[c] IN
  /\ pc[c] = "rmid"
  /\ IF Exists(q) THEN Removed(q) ELSE UNCHANGED queueVars
  /\ disturbed' = (disturbed \cup Touched(c, q)) \ {c}
  /\ Goes(c, "exited")
  /\ interrupted' = [interrupted EXCEPT ![c] = FALSE]
  /\ ctrl2rcvr_qid' = [ctrl2rcvr_qid EXCEPT ![c] = -1]
  /\ client_udp_port' = [client_udp_port EXCEPT ![c] = 0]
  /\ UNCHANGED <<numtries, file, rcvVars, maker, unkept>>

\* exit(1) in init_client, the first time or when reconnecting: nothing is cleaned up.
Abort(c) ==
  /\ pc[c] \in {"start", "main"}
  /\ Goes(c, "aborted")
  /\ ctrl2rcvr_qid' = [ctrl2rcvr_qid EXCEPT ![c] = -1]
  /\ client_udp_port' = [client_udp_port EXCEPT ![c] = 0]
  /\ UNCHANGED <<numtries, file, interrupted, rcvVars, queueVars, maker, disturbed, unkept>>

-----------------------------------------------------------------------------
(* The receiver. *)

Receives(c, label) == rpc' = [rpc EXCEPT ![c] = label]

Ends(c) ==
  /\ Receives(c, "gone")
  /\ rport' = [rport EXCEPT ![c] = 0]
  /\ rqid' = [rqid EXCEPT ![c] = -1]
  /\ rkey' = [rkey EXCEPT ![c] = NULL]

\* open_client_channel
OpenChannel(c) ==
  /\ rpc[c] = "exec"
  /\ \/ \E q \in QueuesOf(rkey[c]) :
          /\ rqid' = [rqid EXCEPT ![c] = q]
          /\ Touches(c, q)
          /\ Receives(c, "bind") /\ UNCHANGED <<rkey, rport>>
     \/ QueuesOf(rkey[c]) = {} /\ Ends(c) /\ UNCHANGED disturbed
  /\ UNCHANGED <<ctlVars, queueVars, maker, unkept>>

FreePorts == Ports \ {rport[c] : c \in Clients}

\* Other programs may hold any of the ports, or all.
Bind(c) ==
  /\ rpc[c] = "bind"
  /\ \/ \E p \in FreePorts : rport' = [rport EXCEPT ![c] = p] /\ Receives(c, "ready")
     \/ Receives(c, "failed") /\ UNCHANGED rport
  /\ UNCHANGED <<ctlVars, rkey, rqid, queueVars, maker, disturbed, unkept>>

\* Mutant: the first port that was tried.
ToldPortFirst(c) == CHOOSE p \in Ports : \A q \in Ports : p <= q

ToldPort(c) == rport[c]

send_ok(c) ==
  /\ rpc[c] = "ready"
  /\ msgsnd(rqid[c], RECV_READY(ToldPort(c)))
  /\ Receives(c, "loop")
  /\ UNCHANGED <<ctlVars, rkey, rqid, rport, maker, disturbed, unkept>>

send_error(c) ==
  /\ rpc[c] = "failed"
  /\ msgsnd(rqid[c], RECV_NOTREADY)
  /\ Ends(c)
  /\ UNCHANGED <<ctlVars, maker, disturbed, unkept>>

\* receive_msgs; without a message, or a queue, it looks again.
ReadMessage(c) ==
  LET q == rqid[c] IN
  /\ rpc[c] = "loop"
  /\ For(q, "receiver") # {}
  /\ Taken(q, "receiver")
  /\ IF msgs[q][FirstFor(q, "receiver")] = CHAT_QUIT THEN Ends(c) ELSE UNCHANGED rcvVars
  /\ UNCHANGED <<ctlVars, maker, disturbed, unkept>>

\* xterm cannot be started, or its window is closed.
Killed(c) ==
  /\ ~ ReceiverGone(c)
  /\ Ends(c)
  /\ UNCHANGED <<ctlVars, queueVars, maker, disturbed, unkept>>

-----------------------------------------------------------------------------
Control(c) ==
  \/ MakeFile(c) \/ MakeQueue(c) \/ KeepQueue(c) \/ Fork(c) \/ MakeFails(c)
  \/ QueueExists(c) \/ OpenOld(c) \/ RemoveOld(c) \/ GetAnswer(c) \/ NoAnswer(c)
  \/ GiveUp(c) \/ Notify(c) \/ SendQuit(c) \/ WaitForReceiver(c) \/ RemoveQueue(c)

User(c) == Switch(c) \/ Quit(c) \/ Interrupt(c) \/ Abort(c)

Receiver(c) ==
  OpenChannel(c) \/ Bind(c) \/ send_ok(c) \/ send_error(c) \/ ReadMessage(c)

Next == \E c \in Clients : Control(c) \/ User(c) \/ Receiver(c) \/ Killed(c)

Spec == Init /\ [][Next]_vars

\* Both processes run as long as they are not blocked; users do as they like.
FairSpec == Spec /\ \A c \in Clients : WF_vars(Control(c)) /\ WF_vars(Receiver(c))

-----------------------------------------------------------------------------
(* Properties. *)

Labels ==
  {"start", "create", "exists", "remove", "again", "made", "fork", "poll", "giveup",
   "main", "notify", "quit", "wait", "rmid", "exited", "aborted"}

TypeOK ==
  /\ pc \in [Clients -> Labels]
  /\ numtries \in [Clients -> 0 .. RETRIES]
  /\ file \in [Clients -> Keys \cup {NULL}]
  /\ ctrl2rcvr_qid \in [Clients -> QIds \cup {-1}]
  /\ client_udp_port \in [Clients -> Ports \cup {0}]
  /\ interrupted \in [Clients -> BOOLEAN]
  /\ rpc \in [Clients -> {"none", "exec", "bind", "ready", "failed", "loop", "gone"}]
  /\ rkey \in [Clients -> Keys \cup {NULL}]
  /\ rqid \in [Clients -> QIds \cup {-1}]
  /\ rport \in [Clients -> Ports \cup {0}]
  /\ key \in [QIds -> Keys \cup {NULL}]
  /\ \A q \in QIds : Len(msgs[q]) <= QUEUE
  /\ maker \in [QIds -> Clients \cup {NULL, Earlier}]
  /\ disturbed \subseteq Clients /\ unkept \subseteq Clients

Running(c) == rpc[c] \in {"bind", "ready", "failed", "loop"}

\* The port a client registers with the server is the one its receiver is bound to, as
\* long as that lives (create_receiver, send_ok).
PortAgreed ==
  \A c \in Clients \ disturbed :
    client_udp_port[c] # 0 /\ Running(c) => rport[c] = client_udp_port[c]

\* The queue is there as long as the receiver looks into it: it would not notice, and
\* nobody could tell it to quit (shutdown_clean, receive_msgs).
QueueOutlivesReceiver ==
  \A c \in Clients \ disturbed : Running(c) => Exists(rqid[c]) /\ maker[rqid[c]] = c

\* "Function to clean up after ourselves on exit, freeing any used resources"
\* (client_main.c:100): no receiver and no file is left, however often it is interrupted
\* and whatever the other clients do, and no queue, but for one that was made and whose
\* identifier was not stored yet when Ctrl-C came.
LeavesNothing ==
  \A c \in Clients :
    pc[c] = "exited" =>
      /\ rpc[c] \in {"none", "gone"} /\ file[c] = NULL
      /\ (\E q \in QIds : maker[q] = c /\ Exists(q)) => c \in unkept

Full(q) == Exists(q) /\ Len(msgs[q]) = QUEUE

\* A start ends, but for a receiver that was late: its answer is not looked for any
\* more, and the client waits for its end (the twenty tries of create_receiver).
StartEnds ==
  \A c \in Clients :
    pc[c] = "create" ~> \/ pc[c] \notin {"create", "exists", "remove", "again", "made", "fork",
                                              "poll", "giveup"}
                        \/ pc[c] = "giveup" /\ ~ ReceiverGone(c)
                        \/ c \in disturbed

\* A shutdown ends, with the receiver gone, but for a queue that was left full by a
\* receiver that had died (msgsnd and waitpid in shutdown_clean).
ShutdownEnds ==
  \A c \in Clients :
    pc[c] \in {"quit", "wait"} ~> \/ pc[c] = "exited"
                                  \/ Full(ctrl2rcvr_qid[c]) /\ ReceiverGone(c)
                                  \/ c \in disturbed
=============================================================================
