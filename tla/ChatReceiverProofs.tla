-------------------------- MODULE ChatReceiverProofs --------------------------
(***************************************************************************)
(* Proofs about ChatReceiver, for any number of clients, keys, ports and     *)
(* tries and any size of the queues.                                         *)
(*                                                                           *)
(* The invariant has three parts: what the place of a control process says   *)
(* of its file, its queue and its receiver (ControlOK); which identifiers    *)
(* and keys are queues (QueuesOK); and, for a client whose queue nobody else *)
(* got hold of, whose queue its living receiver looks into and what the      *)
(* answers in it say (ReceiverOK).                                           *)
(***************************************************************************)
EXTENDS ChatReceiver, FiniteSetTheorems, SequenceTheorems, TLAPS

Messages == {RECV_READY(p) : p \in Ports \cup {0}} \cup {RECV_NOTREADY, CHAT_QUIT, SWITCHED_CHAN}

\* TypeOK, with the messages, and a try always left to a client that waits.
TypeInv ==
  /\ TypeOK
  /\ msgs \in [QIds -> Seq(Messages)]
  /\ \A c \in Clients : numtries[c] < RETRIES

\* Nothing was made yet; a queue was, but no receiver.
Before == {"start", "create", "exists", "remove", "again"}
Made == {"made", "fork"}

ControlOK(c) ==
  /\ pc[c] \in Before \cup Made => rpc[c] = "none" /\ client_udp_port[c] = 0
  /\ pc[c] \in Before => \A q \in QIds : maker[q] # c
  /\ pc[c] \in (Before \ {"start"}) \cup Made => file[c] # NULL
  /\ pc[c] = "made" => \A q, p \in QIds : maker[q] = c /\ maker[p] = c => q = p
  /\ pc[c] \in {"fork", "poll"} => ctrl2rcvr_qid[c] \in QIds /\ maker[ctrl2rcvr_qid[c]] = c
  /\ pc[c] \in {"rmid", "exited"} => ReceiverGone(c) /\ file[c] = NULL
  /\ pc[c] = "exited" /\ c \notin unkept => \A q \in QIds : maker[q] = c => key[q] = NULL
  /\ pc[c] \notin {"made", "exited", "aborted"} /\ c \notin unkept =>
       \A q \in QIds : maker[q] = c => ctrl2rcvr_qid[c] = q

\* A number not given out is no queue, and a key is that of one queue.
QueuesOK ==
  /\ \A q \in QIds : maker[q] = NULL => key[q] = NULL /\ msgs[q] = <<>>
  /\ \A q, p \in QIds : key[q] # NULL /\ key[q] = key[p] => q = p

ChannelOK(c) ==
  /\ rpc[c] = "exec" => rkey[c] # NULL
  /\ Running(c) => rqid[c] \in QIds /\ maker[rqid[c]] # NULL

\* A client whose queue matters: it has a receiver, or is about to fork it.
Attended(c) == ~ ReceiverGone(c) \/ pc[c] \in Made

\* The answers in a client's queue are those of its own receiver.
ReceiverOK(c) ==
  /\ pc[c] \in Made => \E q \in QIds : maker[q] = c /\ key[q] = file[c] /\ key[q] # NULL
  /\ rpc[c] = "exec" => \E q \in QIds : maker[q] = c /\ key[q] = rkey[c] /\ key[q] # NULL
  /\ Running(c) => maker[rqid[c]] = c /\ key[rqid[c]] # NULL
  /\ \A d \in Clients \ {c} : Running(d) => maker[rqid[d]] # c
  /\ \A q \in QIds : maker[q] = c =>
       \A i \in DOMAIN msgs[q] :
         msgs[q][i].status = "ready" => rpc[c] = "loop" /\ msgs[q][i].value = rport[c]
  /\ client_udp_port[c] # 0 => rpc[c] = "loop" /\ client_udp_port[c] = rport[c]

IInv ==
  /\ TypeInv /\ QueuesOK
  /\ \A c \in Clients : ControlOK(c) /\ ChannelOK(c)
  /\ \A c \in Clients \ disturbed : Attended(c) => ReceiverOK(c)

-----------------------------------------------------------------------------
(* Sequences and queues. *)

LEMMA RemovedElement ==
  ASSUME NEW S, NEW s \in Seq(S), NEW i \in DOMAIN s
  PROVE  /\ RemoveAt(s, i) \in Seq(S) /\ Len(RemoveAt(s, i)) <= Len(s)
         /\ \A j \in DOMAIN RemoveAt(s, i) : \E k \in DOMAIN s : RemoveAt(s, i)[j] = s[k]
<1> DEFINE f == SubSeq(s, 1, i - 1)
           g == SubSeq(s, i + 1, Len(s))
<1>1. i \in 1 .. Len(s) /\ Len(s) \in Nat
  OBVIOUS
<1>2. /\ f \in Seq(S) /\ Len(f) = i - 1 /\ \A j \in 1 .. Len(f) : f[j] = s[j]
  BY <1>1
<1>3. /\ g \in Seq(S) /\ Len(g) = Len(s) - i /\ \A j \in 1 .. Len(g) : g[j] = s[i + j]
  BY <1>1
<1>4. RemoveAt(s, i) = f \o g
  BY DEF RemoveAt
<1> HIDE DEF f, g
<1>5. /\ f \o g \in Seq(S) /\ Len(f \o g) = Len(f) + Len(g)
      /\ \A j \in 1 .. Len(f) + Len(g) :
           (f \o g)[j] = IF j <= Len(f) THEN f[j] ELSE g[j - Len(f)]
  BY <1>2, <1>3, ConcatProperties
<1> DEFINE h == f \o g
<1>6. /\ h = RemoveAt(s, i) /\ h \in Seq(S) /\ Len(h) = Len(s) - 1
      /\ \A j \in 1 .. Len(s) - 1 : h[j] = IF j <= i - 1 THEN s[j] ELSE s[j + 1]
  <2>1. Len(f) = i - 1 /\ Len(f) + Len(g) = Len(s) - 1
    BY <1>1, <1>2, <1>3
  <2>2. ASSUME NEW j \in 1 .. Len(s) - 1
        PROVE  h[j] = IF j <= i - 1 THEN s[j] ELSE s[j + 1]
    <3>1. CASE j <= i - 1
      BY <1>1, <1>2, <1>5, <2>1, <3>1
    <3>2. CASE j > i - 1
      <4>1. j - Len(f) \in 1 .. Len(g) /\ i + (j - Len(f)) = j + 1
        BY <1>1, <1>2, <1>3, <3>2
      <4>2. h[j] = g[j - Len(f)]
        BY SMTT(30), <1>1, <1>5, <2>1, <3>2
      <4> QED  BY <1>1, <1>3, <3>2, <4>1, <4>2
    <3>3. j <= i - 1 \/ j > i - 1
      BY <1>1
    <3> QED  BY <3>1, <3>2, <3>3
  <2> QED  BY <1>4, <1>5, <2>1, <2>2
<1> HIDE DEF h
<1>7. ASSUME NEW j \in DOMAIN h PROVE \E k \in DOMAIN s : h[j] = s[k]
  <2>1. j \in 1 .. Len(s) - 1
    BY <1>1, <1>6
  <2>2. j \in DOMAIN s /\ j + 1 \in DOMAIN s /\ h[j] \in {s[j], s[j + 1]}
    BY <1>1, <1>6, <2>1
  <2> QED  BY <2>2
<1> QED  BY <1>1, <1>6, <1>7

LEMMA QIdsFacts ==
  /\ Cardinality(Clients) \in Nat /\ QIds = 0 .. Cardinality(Clients)
  /\ Leftover \in QIds /\ -1 \notin QIds
BY ReceiverAssumption, FS_CardinalityType DEF QIds, Leftover

LEMMA LeastNumber ==
  ASSUME NEW S, S \subseteq Nat, S # {}
  PROVE  \E x \in S : \A y \in S : x <= y
<1> DEFINE Less == {ss \in Nat \X Nat : ss[1] < ss[2]}
<1>1. IsWellFoundedOn(Less, Nat)
  BY NatLessThanWellFounded DEF OpToRel
<1>2. \E x \in S : \A y \in S : ~ (<<y, x>> \in Less)
  <2> HIDE DEF Less
  <2> QED  BY <1>1, WFMin
<1>3. PICK x \in S : \A y \in S : ~ (<<y, x>> \in Less)
  BY <1>2
<1>4. ASSUME NEW y \in S PROVE x <= y
  <2>1. <<y, x>> \in Less <=> y < x
    OBVIOUS
  <2> QED  BY <1>3, <2>1
<1> QED  BY <1>4

\* The first message for a process is one of the messages.
LEMMA FirstMessage ==
  ASSUME TypeInv, NEW q, NEW who, For(q, who) # {}
  PROVE  /\ q \in QIds /\ key[q] # NULL /\ FirstFor(q, who) \in DOMAIN msgs[q]
         /\ msgs[q] \in Seq(Messages)
<1>1. q \in QIds /\ key[q] # NULL /\ msgs[q] \in Seq(Messages)
  BY DEF For, Exists, TypeInv
<1>2. For(q, who) \subseteq DOMAIN msgs[q] /\ For(q, who) \subseteq Nat
  BY <1>1 DEF For
<1>3. FirstFor(q, who) \in For(q, who)
  BY <1>2, LeastNumber DEF FirstFor
<1> QED  BY <1>1, <1>2, <1>3

-----------------------------------------------------------------------------
(* What steps leave alone. *)

\* The place of a control process and its queue do not depend on what is in the
\* queue, nor on what a receiver that lives does.
LEMMA ControlFrame ==
  ASSUME IInv, NEW c \in Clients, ~ ReceiverGone(c), UNCHANGED <<ctlVars, maker, key, unkept>>,
         NEW x, rpc' = [rpc EXCEPT ![c] = x]
  PROVE  \A d \in Clients : ControlOK(d)'
<1>1. rpc \in [Clients -> {"none", "exec", "bind", "ready", "failed", "loop", "gone"}]
  BY DEF IInv, TypeInv, TypeOK
<1>2. UNCHANGED <<pc, file, ctrl2rcvr_qid, client_udp_port>>
  BY DEF ctlVars
<1> SUFFICES ASSUME NEW d \in Clients PROVE ControlOK(d)'
  OBVIOUS
<1>3. ControlOK(d)
  BY DEF IInv
<1>4. CASE d # c
  <2>1. rpc'[d] = rpc[d]
    BY <1>1, <1>4
  <2> QED  BY <1>2, <1>3, <2>1 DEF ControlOK, ReceiverGone
<1>5. CASE d = c
  BY <1>2, <1>3, <1>5 DEF ControlOK, ReceiverGone, Before
<1> QED  BY <1>4, <1>5

\* Where the queue is made, and under which key.
StillMade(d) == pc'[d] \in Made => pc[d] \in Made /\ file'[d] = file[d]

\* A control process that touches neither queues nor receivers leaves their parts.
LEMMA QuietFrame ==
  ASSUME IInv, UNCHANGED <<rcvVars, queueVars, maker, disturbed>>,
         \A d \in Clients : client_udp_port'[d] \in {client_udp_port[d], 0} /\ StillMade(d)
  PROVE  /\ QueuesOK' /\ \A d \in Clients : ChannelOK(d)'
         /\ \A d \in Clients \ disturbed' : Attended(d)' => ReceiverOK(d)'
<1>1. UNCHANGED <<rpc, rkey, rqid, rport, key, msgs, maker, disturbed>>
  BY DEF rcvVars, queueVars
<1>2. QueuesOK'
  BY <1>1 DEF IInv, QueuesOK
<1>3. ASSUME NEW d \in Clients PROVE ChannelOK(d)'
  BY <1>1 DEF IInv, ChannelOK, Running
<1>4. ASSUME NEW d \in Clients \ disturbed', Attended(d)' PROVE ReceiverOK(d)'
  <2>1. ReceiverOK(d) /\ StillMade(d)
    BY <1>1, <1>4 DEF IInv, Attended, ReceiverGone, StillMade
  <2> QED  BY <1>1, <2>1 DEF ReceiverOK, StillMade, Running
<1> QED  BY <1>2, <1>3, <1>4

\* Another client's place, when its own variables stay.
LEMMA OthersStay ==
  ASSUME IInv, NEW c \in Clients, NEW d \in Clients \ {c}, UNCHANGED <<rpc, maker, key>>,
         d \in unkept' <=> d \in unkept, pc'[d] = pc[d], file'[d] = file[d], ctrl2rcvr_qid'[d] = ctrl2rcvr_qid[d],
         client_udp_port'[d] = client_udp_port[d]
  PROVE  ControlOK(d)'
<1>1. ControlOK(d)
  BY DEF IInv
<1> QED  BY <1>1 DEF ControlOK, ReceiverGone

-----------------------------------------------------------------------------
(* Steps of a control process that touch neither queues nor receivers. *)

RemoveOldFails(c) == pc[c] = "remove" /\ NoChannel(c, ctrl2rcvr_qid[c])

ForkFails(c) ==
  /\ pc[c] = "fork" /\ Goes(c, "main")
  /\ UNCHANGED <<numtries, file, ctrl2rcvr_qid, client_udp_port, interrupted, rcvVars,
                 queueVars, maker, disturbed, unkept>>

QuietStep(c) ==
  \/ MakeFile(c) \/ KeepQueue(c) \/ MakeFails(c) \/ QueueExists(c) \/ OpenOld(c) \/ NoAnswer(c)
  \/ GiveUp(c) \/ WaitForReceiver(c) \/ User(c) \/ RemoveOldFails(c) \/ ForkFails(c)

LEMMA QuietSteps ==
  ASSUME IInv, NEW c \in Clients, QuietStep(c)
  PROVE  IInv'
<1> USE QIdsFacts
<1>1. /\ pc \in [Clients -> Labels] /\ numtries \in [Clients -> 0 .. RETRIES]
      /\ file \in [Clients -> Keys \cup {NULL}]
      /\ ctrl2rcvr_qid \in [Clients -> QIds \cup {-1}]
      /\ client_udp_port \in [Clients -> Ports \cup {0}]
      /\ interrupted \in [Clients -> BOOLEAN]
      /\ \A d \in Clients : numtries[d] < RETRIES
      /\ key \in [QIds -> Keys \cup {NULL}] /\ unkept \subseteq Clients
      /\ RETRIES \in Nat \ {0} /\ NULL \notin Keys
  BY ReceiverAssumption DEF IInv, TypeInv, TypeOK
<1>2. /\ UNCHANGED <<rcvVars, queueVars, maker, disturbed>>
      /\ \A d \in Clients \ {c} :
           /\ pc'[d] = pc[d] /\ numtries'[d] = numtries[d] /\ file'[d] = file[d]
           /\ ctrl2rcvr_qid'[d] = ctrl2rcvr_qid[d] /\ client_udp_port'[d] = client_udp_port[d]
           /\ d \in unkept' <=> d \in unkept
      /\ unkept' \subseteq Clients
  BY <1>1
  DEF QuietStep, MakeFile, KeepQueue, MakeFails, QueueExists, OpenOld, NoChannel, RemoveOldFails, ForkFails, NoAnswer, GiveUp,
      WaitForReceiver, User, Switch, Quit, Interrupt, Abort, Goes
<1>3. /\ pc' \in [Clients -> Labels] /\ numtries' \in [Clients -> 0 .. RETRIES]
      /\ file' \in [Clients -> Keys \cup {NULL}]
      /\ ctrl2rcvr_qid' \in [Clients -> QIds \cup {-1}]
      /\ client_udp_port' \in [Clients -> Ports \cup {0}]
      /\ interrupted' \in [Clients -> BOOLEAN]
      /\ numtries'[c] < RETRIES
      /\ client_udp_port'[c] \in {client_udp_port[c], 0}
  <2>1. pc' = pc \/ \E l \in Labels : pc' = [pc EXCEPT ![c] = l]
    BY Zenon
    DEF QuietStep, MakeFile, KeepQueue, MakeFails, QueueExists, OpenOld, NoChannel, RemoveOldFails, ForkFails, NoAnswer,
        GiveUp, WaitForReceiver, User, Switch, Quit, Interrupt, Abort, Goes, Labels
  <2>2. \/ numtries' = numtries \/ numtries' = [numtries EXCEPT ![c] = 0]
        \/ numtries' = [numtries EXCEPT ![c] = numtries[c] + 1] /\ numtries[c] + 1 # RETRIES
    BY Zenon
    DEF QuietStep, MakeFile, KeepQueue, MakeFails, QueueExists, OpenOld, NoChannel, RemoveOldFails, ForkFails, NoAnswer,
        GiveUp, WaitForReceiver, User, Switch, Quit, Interrupt, Abort, Goes, Tries
  <2>3. \E k \in Keys \cup {NULL} : file' = file \/ file' = [file EXCEPT ![c] = k]
    BY Zenon
    DEF QuietStep, MakeFile, KeepQueue, MakeFails, QueueExists, OpenOld, NoChannel, RemoveOldFails, ForkFails, NoAnswer,
        GiveUp, WaitForReceiver, User, Switch, Quit, Interrupt, Abort, Goes
  <2>4. \/ ctrl2rcvr_qid' = ctrl2rcvr_qid
        \/ \E q \in QIds \cup {-1} : ctrl2rcvr_qid' = [ctrl2rcvr_qid EXCEPT ![c] = q]
    BY <1>1, Zenon
    DEF QuietStep, MakeFile, KeepQueue, MakeFails, QueueExists, OpenOld, NoChannel, RemoveOldFails, ForkFails, NoAnswer,
        GiveUp, WaitForReceiver, User, Switch, Quit, Interrupt, Abort, Goes, QueuesOf
  <2>5. \/ client_udp_port' = client_udp_port
        \/ client_udp_port' = [client_udp_port EXCEPT ![c] = 0]
    BY Zenon
    DEF QuietStep, MakeFile, KeepQueue, MakeFails, QueueExists, OpenOld, NoChannel, RemoveOldFails, ForkFails, NoAnswer,
        GiveUp, WaitForReceiver, User, Switch, Quit, Interrupt, Abort, Goes
  <2>6. interrupted' = interrupted \/ interrupted' = [interrupted EXCEPT ![c] = TRUE]
    BY Zenon
    DEF QuietStep, MakeFile, KeepQueue, MakeFails, QueueExists, OpenOld, NoChannel, RemoveOldFails, ForkFails, NoAnswer,
        GiveUp, WaitForReceiver, User, Switch, Quit, Interrupt, Abort, Goes
  <2>7. numtries' \in [Clients -> 0 .. RETRIES] /\ numtries'[c] < RETRIES
    <3>1. numtries[c] \in 0 .. RETRIES /\ numtries[c] < RETRIES /\ RETRIES \in Nat \ {0}
      BY <1>1
    <3>2. 0 \in 0 .. RETRIES /\ 0 < RETRIES
          /\ (numtries[c] + 1 # RETRIES =>
                numtries[c] + 1 \in 0 .. RETRIES /\ numtries[c] + 1 < RETRIES)
      BY <3>1
    <3> QED  BY SMTT(30), <1>1, <2>2, <3>2
  <2>8. interrupted' \in [Clients -> BOOLEAN]
    BY <1>1, <2>6
  <2>9. pc' \in [Clients -> Labels]
    <3>1. pc \in [Clients -> Labels]
      BY <1>1
    <3> QED  BY <2>1, <3>1
  <2>10. file' \in [Clients -> Keys \cup {NULL}]
    BY <1>1, <2>3
  <2>11. ctrl2rcvr_qid' \in [Clients -> QIds \cup {-1}]
    <3>1. ctrl2rcvr_qid \in [Clients -> QIds \cup {-1}]
      BY <1>1
    <3> QED  BY <2>4, <3>1
  <2>12. /\ client_udp_port' \in [Clients -> Ports \cup {0}]
         /\ client_udp_port'[c] \in {client_udp_port[c], 0}
    <3>1. client_udp_port \in [Clients -> Ports \cup {0}]
      BY <1>1
    <3> QED  BY <2>5, <3>1
  <2> QED  BY <2>7, <2>8, <2>9, <2>10, <2>11, <2>12
<1>4. UNCHANGED <<rpc, maker, key>>
  BY <1>2 DEF rcvVars, queueVars
<1>5. ControlOK(c)'
  <2>1. ControlOK(c)
    BY DEF IInv
  <2>2. CASE MakeFile(c)
    BY <1>1, <1>4, <2>1, <2>2 DEF MakeFile, Goes, ControlOK, ReceiverGone, Before, Made
  <2>3. CASE QueueExists(c) \/ OpenOld(c) \/ MakeFails(c) \/ RemoveOldFails(c)
    BY <1>1, <1>4, <2>1, <2>3
    DEF QueueExists, OpenOld, MakeFails, NoChannel, RemoveOldFails, Goes, ControlOK, ReceiverGone,
        Before, Made
  <2>7. CASE KeepQueue(c)
    BY <1>1, <1>4, <2>1, <2>7 DEF KeepQueue, Goes, ControlOK, ReceiverGone, Before, Made
  <2>4. CASE ForkFails(c) \/ NoAnswer(c) \/ GiveUp(c) \/ Switch(c) \/ Quit(c)
    BY <1>1, <1>4, <2>1, <2>4
    DEF ForkFails, NoAnswer, GiveUp, Switch, Quit, Goes, ControlOK, ReceiverGone, Before, Made
  <2>5. CASE WaitForReceiver(c)
    BY <1>1, <1>4, <2>1, <2>5 DEF WaitForReceiver, Goes, ControlOK, ReceiverGone, Before, Made
  <2>6. CASE Interrupt(c) \/ Abort(c)
    BY <1>1, <1>4, <2>1, <2>6 DEF Interrupt, Abort, Goes, ControlOK, ReceiverGone, Before, Made
  <2> QED  BY <2>2, <2>3, <2>4, <2>5, <2>6, <2>7 DEF QuietStep, User
<1>6. TypeInv'
  BY <1>1, <1>2, <1>3 DEF IInv, TypeInv, TypeOK, rcvVars, queueVars
<1>7. \A d \in Clients : ControlOK(d)'
  BY <1>2, <1>4, <1>5, OthersStay
<1>8. \A d \in Clients : client_udp_port'[d] \in {client_udp_port[d], 0} /\ StillMade(d)
  <2>1. pc'[c] \in Made => pc[c] = "made" /\ file' = file
    BY <1>1
    DEF QuietStep, MakeFile, KeepQueue, MakeFails, QueueExists, OpenOld, NoChannel, RemoveOldFails,
        ForkFails, NoAnswer, GiveUp, WaitForReceiver, User, Switch, Quit, Interrupt, Abort, Goes, Made
  <2>2. StillMade(c)
    BY <2>1 DEF StillMade, Made
  <2> QED  BY <1>2, <1>3, <2>2 DEF StillMade
<1> QED  BY <1>2, <1>6, <1>7, <1>8, QuietFrame DEF IInv

-----------------------------------------------------------------------------
(* Messages. *)

\* Only messages of M are new, and only in q.
MessagesFrom(q, M) ==
  /\ msgs' \in [QIds -> Seq(Messages)] /\ \A p \in QIds : Len(msgs'[p]) <= QUEUE
  /\ \A p \in QIds : key[p] = NULL => msgs'[p] = msgs[p]
  /\ \A p \in QIds : \A i \in DOMAIN msgs'[p] :
       \/ \E k \in DOMAIN msgs[p] : msgs'[p][i] = msgs[p][k]
       \/ p = q /\ msgs'[p][i] \in M

LEMMA AnswerPort ==
  ASSUME NEW m \in Messages, m.status = "ready"
  PROVE  m.value \in Ports \cup {0}
<1>1. RECV_NOTREADY.status # "ready" /\ CHAT_QUIT.status # "ready" /\ SWITCHED_CHAN.status # "ready"
  BY DEF RECV_NOTREADY, CHAT_QUIT, SWITCHED_CHAN
<1>2. ASSUME NEW p \in Ports \cup {0}, m = RECV_READY(p) PROVE m.value \in Ports \cup {0}
  BY <1>2 DEF RECV_READY
<1> QED  BY <1>1, <1>2 DEF Messages

LEMMA Sent ==
  ASSUME TypeInv, NEW q, NEW m \in Messages, msgsnd(q, m)
  PROVE  MessagesFrom(q, {m}) /\ key' = key
<1>1. /\ msgs \in [QIds -> Seq(Messages)] /\ \A p \in QIds : Len(msgs[p]) <= QUEUE
      /\ QUEUE \in Nat
  BY ReceiverAssumption DEF TypeInv, TypeOK
<1>2. CASE ~ Exists(q)
  <2>1. msgs' = msgs /\ key' = key
    BY <1>2 DEF msgsnd
  <2> QED  BY <1>1, <2>1 DEF MessagesFrom
<1>3. CASE Exists(q)
  <2>1. /\ msgs' = [msgs EXCEPT ![q] = Append(msgs[q], m)] /\ key' = key
        /\ q \in QIds /\ key[q] # NULL /\ Len(msgs[q]) < QUEUE
    BY <1>3 DEF msgsnd, Exists
  <2>2. msgs[q] \in Seq(Messages) /\ Len(msgs[q]) \in Nat
    BY <1>1, <2>1
  <2>3. /\ Append(msgs[q], m) \in Seq(Messages) /\ Len(Append(msgs[q], m)) = Len(msgs[q]) + 1
        /\ \A i \in 1 .. Len(msgs[q]) + 1 :
             Append(msgs[q], m)[i] = IF i <= Len(msgs[q]) THEN msgs[q][i] ELSE m
    BY <2>2, AppendProperties
  <2>4. \A p \in QIds : msgs'[p] = IF p = q THEN Append(msgs[q], m) ELSE msgs[p]
    BY <1>1, <2>1
  <2>5. msgs' \in [QIds -> Seq(Messages)] /\ \A p \in QIds : Len(msgs'[p]) <= QUEUE
    <3>1. msgs' \in [QIds -> Seq(Messages)]
      BY <1>1, <2>1, <2>3
    <3>2. Len(Append(msgs[q], m)) <= QUEUE
      BY <1>1, <2>1, <2>2, <2>3
    <3> QED  BY <1>1, <2>4, <3>1, <3>2
  <2>6. ASSUME NEW i \in DOMAIN msgs'[q]
        PROVE  (\E k \in DOMAIN msgs[q] : msgs'[q][i] = msgs[q][k]) \/ msgs'[q][i] \in {m}
    <3> DEFINE s == msgs[q]
               t == msgs'[q]
    <3>1. /\ s \in Seq(Messages) /\ t \in Seq(Messages) /\ Len(t) = Len(s) + 1
          /\ \A j \in 1 .. Len(s) + 1 : t[j] = IF j <= Len(s) THEN s[j] ELSE m
      BY <2>1, <2>2, <2>3, <2>4
    <3>2. i \in DOMAIN t
      BY <2>6
    <3> HIDE DEF s, t
    <3>3. i \in 1 .. Len(s) + 1 /\ (i <= Len(s) => i \in DOMAIN s)
      BY <3>1, <3>2
    <3>4. (\E k \in DOMAIN s : t[i] = s[k]) \/ t[i] = m
      BY <3>1, <3>3
    <3> QED  BY <3>4 DEF s, t
  <2>7. \A p \in QIds : p # q => msgs'[p] = msgs[p]
    BY <2>4
  <2> QED  BY <2>1, <2>5, <2>6, <2>7 DEF MessagesFrom
<1> QED  BY <1>2, <1>3

LEMMA TakenMessage ==
  ASSUME TypeInv, NEW q, NEW who, For(q, who) # {}, Taken(q, who)
  PROVE  /\ MessagesFrom(q, {}) /\ key' = key
         /\ q \in QIds /\ key[q] # NULL /\ FirstFor(q, who) \in DOMAIN msgs[q]
<1>1. /\ msgs \in [QIds -> Seq(Messages)] /\ \A p \in QIds : Len(msgs[p]) <= QUEUE
      /\ QUEUE \in Nat
  BY ReceiverAssumption DEF TypeInv, TypeOK
<1>2. /\ q \in QIds /\ key[q] # NULL /\ FirstFor(q, who) \in DOMAIN msgs[q]
      /\ msgs[q] \in Seq(Messages)
  BY FirstMessage
<1> DEFINE s == msgs[q]
           t == RemoveAt(msgs[q], FirstFor(q, who))
<1>3. msgs' = [msgs EXCEPT ![q] = t] /\ key' = key
  BY DEF Taken
<1>4. /\ t \in Seq(Messages) /\ Len(t) <= Len(s)
      /\ \A j \in DOMAIN t : \E k \in DOMAIN s : t[j] = s[k]
  BY <1>2, RemovedElement
<1>5. Len(t) <= QUEUE
  BY <1>1, <1>2, <1>4
<1> HIDE DEF t
<1>6. \A p \in QIds : msgs'[p] = IF p = q THEN t ELSE msgs[p]
  BY <1>1, <1>3
<1>7. msgs' \in [QIds -> Seq(Messages)]
  BY <1>1, <1>3, <1>4
<1> QED  BY <1>1, <1>2, <1>3, <1>4, <1>5, <1>6, <1>7 DEF MessagesFrom

\* What is not an answer does not matter to the receivers' part.
LEMMA MessagesFrame ==
  ASSUME IInv, UNCHANGED <<rcvVars, key, maker>>, disturbed \subseteq disturbed',
         NEW q, NEW M, MessagesFrom(q, M), \A m \in M : m.status # "ready",
         \A d \in Clients : StillMade(d),
         \A d \in Clients \ disturbed : client_udp_port'[d] # client_udp_port[d] =>
           ~ Attended(d) \/ client_udp_port'[d] = 0 \/
             (rpc[d] = "loop" /\ client_udp_port'[d] = rport[d])
  PROVE  /\ QueuesOK' /\ \A d \in Clients : ChannelOK(d)'
         /\ \A d \in Clients \ disturbed' : Attended(d)' => ReceiverOK(d)'
<1>1. UNCHANGED <<rpc, rkey, rqid, rport>>
  BY DEF rcvVars
<1>2. QueuesOK'
  BY DEF IInv, QueuesOK, MessagesFrom
<1>3. ASSUME NEW d \in Clients PROVE ChannelOK(d)'
  BY <1>1 DEF IInv, ChannelOK, Running
<1>4. ASSUME NEW d \in Clients \ disturbed', Attended(d)' PROVE ReceiverOK(d)'
  <2>1. ReceiverOK(d) /\ StillMade(d) /\ Attended(d)
    BY <1>1, <1>4 DEF IInv, Attended, ReceiverGone, StillMade
  <2>2. ASSUME NEW p \in QIds, maker[p] = d, NEW i \in DOMAIN msgs'[p],
               msgs'[p][i].status = "ready"
        PROVE  rpc[d] = "loop" /\ msgs'[p][i].value = rport[d]
    <3>1. PICK k \in DOMAIN msgs[p] : msgs'[p][i] = msgs[p][k]
      BY <2>2 DEF MessagesFrom
    <3> QED  BY <2>1, <2>2, <3>1 DEF ReceiverOK
  <2>3. client_udp_port'[d] # 0 => rpc[d] = "loop" /\ client_udp_port'[d] = rport[d]
    <3>1. d \in Clients \ disturbed
      BY <1>4
    <3> QED  BY <2>1, <3>1 DEF ReceiverOK
  <2> QED  BY <1>1, <2>1, <2>2, <2>3 DEF ReceiverOK, StillMade, Running
<1> QED  BY <1>2, <1>3, <1>4

\* Only a maker that is not done with its queue is disturbed, and always then.
LEMMA TouchedMaker ==
  ASSUME IInv, NEW c \in Clients, NEW q
  PROVE  /\ Touched(c, q) \subseteq Clients \ {c}
         /\ q \in QIds /\ key[q] # NULL =>
              \A d \in Clients \ {c} :
                maker[q] = d /\ pc[d] \notin {"rmid", "exited"} => d \in Touched(c, q)
<1>1. /\ maker \in [QIds -> Clients \cup {NULL, Earlier}]
      /\ \A p \in QIds : maker[p] = NULL => key[p] = NULL
  BY DEF IInv, TypeInv, TypeOK, QueuesOK
<1>2. Earlier \notin Clients
  BY ReceiverAssumption
<1>3. Touched(c, q) \subseteq Clients \ {c}
  BY <1>1 DEF Touched, Exists
<1>4. ASSUME q \in QIds, key[q] # NULL, NEW d \in Clients \ {c}, maker[q] = d,
             pc[d] \notin {"rmid", "exited"}
      PROVE  d \in Touched(c, q)
  BY <1>2, <1>4 DEF Touched, Exists
<1> QED  BY <1>3, <1>4

LEMMA SendStep ==
  ASSUME IInv, NEW c \in Clients, Notify(c) \/ SendQuit(c)
  PROVE  IInv'
<1> USE QIdsFacts
<1>1. PICK at \in {"notify", "quit"}, m \in {SWITCHED_CHAN, CHAT_QUIT}, l \in {"main", "wait"} :
        Sends(c, at, m, l)
  BY DEF Notify, SendQuit, QuitMessage
<1>2. /\ msgsnd(ctrl2rcvr_qid[c], m) /\ pc' = [pc EXCEPT ![c] = l] /\ pc[c] = at
      /\ disturbed' = disturbed \cup Touched(c, ctrl2rcvr_qid[c])
      /\ UNCHANGED <<numtries, file, ctrl2rcvr_qid, client_udp_port, interrupted, rcvVars, maker, unkept>>
  BY <1>1 DEF Sends, Touches, Goes
<1>3. m \in Messages /\ m.status # "ready"
  BY DEF Messages, SWITCHED_CHAN, CHAT_QUIT
<1>4. MessagesFrom(ctrl2rcvr_qid[c], {m}) /\ key' = key
  BY <1>2, <1>3, Sent DEF IInv
<1>5. UNCHANGED <<rpc, rkey, rqid, rport>>
  BY <1>2 DEF rcvVars
<1>6. pc \in [Clients -> Labels] /\ disturbed \subseteq Clients /\ TypeInv
  BY DEF IInv, TypeInv, TypeOK
<1>7. TypeInv'
  <2>1. pc' \in [Clients -> Labels] /\ disturbed' \subseteq Clients
    BY <1>2, <1>6, TouchedMaker DEF Labels
  <2> QED  BY <1>2, <1>4, <1>5, <1>6, <2>1 DEF TypeInv, TypeOK, MessagesFrom
<1>8. ASSUME NEW d \in Clients PROVE ControlOK(d)'
  <2>1. CASE d # c
    BY <1>2, <1>4, <1>5, <1>6, <2>1, OthersStay
  <2>2. CASE d = c
    <3>1. ControlOK(c)
      BY DEF IInv
    <3> QED  BY <1>2, <1>4, <1>5, <1>6, <2>2, <3>1 DEF ControlOK, ReceiverGone, Before, Made
  <2> QED  BY <2>1, <2>2
<1>9. /\ QueuesOK' /\ \A d \in Clients : ChannelOK(d)'
      /\ \A d \in Clients \ disturbed' : Attended(d)' => ReceiverOK(d)'
  <2>1. \A d \in Clients : StillMade(d)
    BY <1>2, <1>6 DEF StillMade, Made
  <2> QED  BY <1>2, <1>3, <1>4, <2>1, MessagesFrame
<1> QED  BY <1>7, <1>8, <1>9 DEF IInv

LEMMA GetAnswerStep ==
  ASSUME IInv, NEW c \in Clients, GetAnswer(c)
  PROVE  IInv'
<1> USE QIdsFacts
<1> DEFINE q == ctrl2rcvr_qid[c]
           m == msgs[q][FirstFor(q, "control")]
<1>1. /\ pc[c] = "poll" /\ pc' = [pc EXCEPT ![c] = "main"] /\ Taken(q, "control")
      /\ For(q, "control") # {}
      /\ client_udp_port' = [client_udp_port EXCEPT ![c] = PortAfter(c, m)]
      /\ numtries' = [numtries EXCEPT ![c] = 0]
      /\ UNCHANGED <<file, ctrl2rcvr_qid, interrupted, rcvVars, maker, disturbed, unkept>>
  BY DEF GetAnswer, Goes
<1>2. TypeInv /\ ControlOK(c) /\ UNCHANGED <<rpc, rkey, rqid, rport>>
  BY <1>1 DEF IInv, rcvVars
<1>3. /\ MessagesFrom(q, {}) /\ key' = key
      /\ q \in QIds /\ FirstFor(q, "control") \in DOMAIN msgs[q]
  BY <1>1, <1>2, TakenMessage
<1>4. maker[q] = c
  BY <1>1, <1>2 DEF ControlOK
<1>5. /\ pc \in [Clients -> Labels] /\ client_udp_port \in [Clients -> Ports \cup {0}]
      /\ numtries \in [Clients -> 0 .. RETRIES] /\ RETRIES \in Nat \ {0}
      /\ \A d \in Clients : numtries[d] < RETRIES
      /\ msgs[q] \in Seq(Messages)
  BY <1>2, <1>3, ReceiverAssumption DEF TypeInv, TypeOK
<1>6. m \in Messages
  BY <1>3, <1>5
<1>7. PortAfter(c, m) \in Ports \cup {0}
  <2> HIDE DEF m
  <2>1. m.status = "ready" => m.value \in Ports \cup {0}
    BY <1>6, AnswerPort
  <2> QED  BY <1>5, <2>1 DEF PortAfter
<1> HIDE DEF m
<1>8. TypeInv'
  <2>1. pc' \in [Clients -> Labels] /\ client_udp_port' \in [Clients -> Ports \cup {0}]
    BY <1>1, <1>5, <1>7 DEF Labels
  <2>2. numtries' \in [Clients -> 0 .. RETRIES] /\ \A d \in Clients : numtries'[d] < RETRIES
    <3>1. 0 \in 0 .. RETRIES /\ 0 < RETRIES
      BY <1>5
    <3> QED  BY <1>1, <1>5, <3>1
  <2> QED  BY <1>1, <1>2, <1>3, <2>1, <2>2 DEF TypeInv, TypeOK, MessagesFrom
<1>9. ASSUME NEW d \in Clients PROVE ControlOK(d)'
  <2>1. CASE d # c
    BY <1>1, <1>2, <1>3, <1>5, <2>1, OthersStay
  <2>2. CASE d = c
    BY <1>1, <1>2, <1>3, <1>5, <2>2 DEF ControlOK, ReceiverGone, Before, Made
  <2> QED  BY <2>1, <2>2
<1>10. ASSUME NEW d \in Clients \ disturbed, client_udp_port'[d] # client_udp_port[d],
              client_udp_port'[d] # 0, Attended(d)
       PROVE  rpc[d] = "loop" /\ client_udp_port'[d] = rport[d]
  <2>1. d = c /\ client_udp_port'[c] = PortAfter(c, m)
    BY <1>1, <1>5, <1>10
  <2>2. m.status = "ready" /\ client_udp_port'[c] = m.value
    BY <1>10, <2>1 DEF PortAfter
  <2>3. ReceiverOK(c)
    BY <1>10, <2>1 DEF IInv
  <2> QED  BY <1>3, <1>4, <2>1, <2>2, <2>3 DEF ReceiverOK, m
<1>11. /\ QueuesOK' /\ \A d \in Clients : ChannelOK(d)'
       /\ \A d \in Clients \ disturbed' : Attended(d)' => ReceiverOK(d)'
  <2>1. \A d \in Clients : StillMade(d)
    BY <1>1, <1>5 DEF StillMade, Made
  <2> QED  BY <1>1, <1>3, <1>10, <2>1, MessagesFrame
<1> QED  BY <1>8, <1>9, <1>11 DEF IInv

-----------------------------------------------------------------------------
(* Queues are made and removed. *)

LEMMA MakeQueueStep ==
  ASSUME IInv, NEW c \in Clients, MakeQueue(c)
  PROVE  IInv'
<1> USE QIdsFacts
<1>1. /\ pc[c] \in {"create", "again"} /\ QueuesOf(file[c]) = {}
      /\ UNCHANGED <<numtries, file, ctrl2rcvr_qid, client_udp_port, interrupted,
                     rpc, rkey, rqid, rport, msgs, disturbed, unkept>>
      /\ pc' = [pc EXCEPT ![c] = "made"]
  BY DEF MakeQueue, Goes, rcvVars
<1>2. PICK q \in Unmade : /\ key' = [key EXCEPT ![q] = file[c]]
                          /\ maker' = [maker EXCEPT ![q] = c]
  BY DEF MakeQueue
<1>3. TypeInv /\ QueuesOK /\ ControlOK(c) /\ ChannelOK(c)
  BY DEF IInv
<1>4. /\ pc \in [Clients -> Labels] /\ rpc \in [Clients -> {"none", "exec", "bind", "ready",
                                                            "failed", "loop", "gone"}]
      /\ file \in [Clients -> Keys \cup {NULL}] /\ rkey \in [Clients -> Keys \cup {NULL}]
      /\ ctrl2rcvr_qid \in [Clients -> QIds \cup {-1}]
      /\ key \in [QIds -> Keys \cup {NULL}] /\ maker \in [QIds -> Clients \cup {NULL, Earlier}]
      /\ NULL \notin Clients /\ NULL \notin Keys
  BY <1>3, ReceiverAssumption DEF TypeInv, TypeOK
<1>5. /\ q \in QIds /\ maker[q] = NULL /\ key[q] = NULL /\ msgs[q] = <<>>
      /\ file[c] \in Keys /\ \A p \in QIds : key[p] # file[c] /\ maker[p] # c
      /\ rpc[c] = "none" /\ client_udp_port[c] = 0
  BY <1>1, <1>3, <1>4 DEF Unmade, QueuesOK, ControlOK, Before, QueuesOf
<1>6. \A p \in QIds : /\ key'[p] = IF p = q THEN file[c] ELSE key[p]
                      /\ maker'[p] = IF p = q THEN c ELSE maker[p]
  BY <1>2, <1>4
<1>7. TypeInv'
  <2>1. /\ pc' \in [Clients -> Labels] /\ key' \in [QIds -> Keys \cup {NULL}]
        /\ maker' \in [QIds -> Clients \cup {NULL, Earlier}]
    BY <1>1, <1>2, <1>4, <1>5 DEF Labels
  <2> QED  BY <1>1, <1>3, <2>1 DEF TypeInv, TypeOK
<1>8. QueuesOK'
  BY <1>1, <1>3, <1>4, <1>5, <1>6 DEF QueuesOK
<1>9. ASSUME NEW d \in Clients PROVE ControlOK(d)'
  <2>1. CASE d # c
    <3>1. /\ ControlOK(d) /\ pc'[d] = pc[d] /\ file'[d] = file[d] /\ rpc'[d] = rpc[d]
          /\ ctrl2rcvr_qid'[d] = ctrl2rcvr_qid[d] /\ client_udp_port'[d] = client_udp_port[d]
      BY <1>1, <1>2, <1>4, <2>1 DEF IInv
    <3>2. \A p \in QIds : maker'[p] = d <=> maker[p] = d
      BY <1>4, <1>5, <1>6, <2>1
    <3>3. \A p \in QIds : maker[p] = d => key'[p] = key[p]
      BY <1>4, <1>5, <1>6
    <3> QED  BY <1>1, <3>1, <3>2, <3>3 DEF ControlOK, ReceiverGone
  <2>2. CASE d = c
    <3>1. maker'[q] = c /\ \A p \in QIds : maker'[p] = c => p = q
      BY <1>4, <1>5, <1>6
    <3>2. pc'[c] = "made"
      BY <1>1, <1>4
    <3> QED  BY <1>1, <1>4, <1>5, <2>2, <3>1, <3>2 DEF ControlOK, Before, Made
  <2> QED  BY <2>1, <2>2
<1>10. ASSUME NEW d \in Clients PROVE ChannelOK(d)' /\ (Running(d)' => rqid[d] # q /\ Running(d))
  <2>1. CASE d # c
    <3>1. ChannelOK(d) /\ rpc'[d] = rpc[d] /\ rkey'[d] = rkey[d] /\ rqid'[d] = rqid[d]
      BY <1>1, <1>4, <2>1 DEF IInv
    <3> QED  BY <1>4, <1>5, <1>6, <3>1 DEF ChannelOK, Running
  <2>2. CASE d = c
    <3>1. rpc'[c] = "none"
      BY <1>1, <1>5
    <3> QED  BY <1>4, <1>5, <2>2, <3>1 DEF ChannelOK, Running
  <2> QED  BY <2>1, <2>2
<1>11. ASSUME NEW d \in Clients \ disturbed', Attended(d)' PROVE ReceiverOK(d)'
  <2>1. CASE d # c
    <3>1. /\ rpc'[d] = rpc[d] /\ rkey'[d] = rkey[d] /\ rqid'[d] = rqid[d] /\ rport'[d] = rport[d]
          /\ client_udp_port' = client_udp_port /\ msgs' = msgs /\ rqid' = rqid
      BY <1>1, <1>4, <2>1
    <3>10. pc'[d] = pc[d] /\ file' = file
      BY <1>1, <1>4, <2>1
    <3>2. ReceiverOK(d)
      BY <1>1, <1>11, <3>1, <3>10 DEF IInv, Attended, ReceiverGone
    <3>3. \A p \in QIds : (maker'[p] = d <=> maker[p] = d) /\ (maker[p] = d => key'[p] = key[p])
      BY <1>4, <1>5, <1>6, <2>1
    <3>11. pc'[d] \in Made =>
             \E p \in QIds : maker'[p] = d /\ key'[p] = file'[d] /\ key'[p] # NULL
      BY <3>2, <3>3, <3>10 DEF ReceiverOK
    <3>4. \A e \in Clients : Running(e)' => rqid'[e] \in QIds /\ Running(e)
      BY <1>10, <3>1 DEF ChannelOK
    <3>5. rpc'[d] = "exec" => \E p \in QIds : maker'[p] = d /\ key'[p] = rkey'[d] /\ key'[p] # NULL
      BY <3>1, <3>2, <3>3 DEF ReceiverOK
    <3>6. Running(d)' => maker'[rqid'[d]] = d /\ key'[rqid'[d]] # NULL
      BY <3>1, <3>2, <3>3, <3>4 DEF ReceiverOK
    <3>7. \A e \in Clients \ {d} : Running(e)' => maker'[rqid'[e]] # d
      BY <3>1, <3>2, <3>3, <3>4 DEF ReceiverOK
    <3>8. \A p \in QIds : maker'[p] = d => \A i \in DOMAIN msgs'[p] :
            msgs'[p][i].status = "ready" => rpc'[d] = "loop" /\ msgs'[p][i].value = rport'[d]
      BY <3>1, <3>2, <3>3 DEF ReceiverOK
    <3>9. client_udp_port'[d] # 0 => rpc'[d] = "loop" /\ client_udp_port'[d] = rport'[d]
      BY <3>1, <3>2 DEF ReceiverOK
    <3> QED  BY <3>5, <3>6, <3>7, <3>8, <3>9, <3>11 DEF ReceiverOK
  <2>2. CASE d = c
    <3>1. rpc'[c] = "none" /\ file' = file
      BY <1>1, <1>5
    <3>2. maker'[q] = c /\ key'[q] = file'[c] /\ key'[q] # NULL
      BY <1>4, <1>5, <1>6, <3>1
    <3>3. \A p \in QIds : maker'[p] = c => p = q /\ msgs'[p] = <<>>
      BY <1>1, <1>5, <1>6
    <3>4. \A e \in Clients : Running(e)' => rqid'[e] # q /\ rqid'[e] \in QIds
      BY <1>1, <1>10 DEF ChannelOK
    <3>5. ~ Running(c)' /\ client_udp_port'[c] = 0
      BY <1>1, <1>5, <3>1 DEF Running
    <3> QED  BY <1>5, <2>2, <3>1, <3>2, <3>3, <3>4, <3>5 DEF ReceiverOK
  <2> QED  BY <2>1, <2>2
<1> QED  BY <1>7, <1>8, <1>9, <1>10, <1>11 DEF IInv

LEMMA ForkStep ==
  ASSUME IInv, NEW c \in Clients, Fork(c)
  PROVE  IInv'
<1> USE QIdsFacts
<1>1. CASE ForkFails(c)
  BY <1>1, QuietSteps DEF QuietStep
<1>2. CASE ~ ForkFails(c)
  <2>1. /\ pc[c] = "fork" /\ pc' = [pc EXCEPT ![c] = "poll"] /\ rpc' = [rpc EXCEPT ![c] = "exec"]
        /\ rkey' = [rkey EXCEPT ![c] = file[c]]
        /\ UNCHANGED <<numtries, file, ctrl2rcvr_qid, client_udp_port, interrupted, rqid, rport,
                       key, msgs, maker, disturbed, unkept>>
    BY <1>2 DEF Fork, ForkFails, Goes, rcvVars, queueVars
  <2>2. TypeInv /\ QueuesOK /\ ControlOK(c) /\ ChannelOK(c)
    BY DEF IInv
  <2>3. /\ pc \in [Clients -> Labels] /\ rpc \in [Clients -> {"none", "exec", "bind", "ready",
                                                              "failed", "loop", "gone"}]
        /\ file \in [Clients -> Keys \cup {NULL}] /\ rkey \in [Clients -> Keys \cup {NULL}]
    BY <2>2 DEF TypeInv, TypeOK
  <2>4. /\ rpc[c] = "none" /\ client_udp_port[c] = 0 /\ file[c] # NULL
        /\ pc'[c] = "poll" /\ rpc'[c] = "exec" /\ rkey'[c] = file[c]
    BY <2>1, <2>2, <2>3 DEF ControlOK, Made
  <2>5. \A d \in Clients \ {c} : pc'[d] = pc[d] /\ rpc'[d] = rpc[d] /\ rkey'[d] = rkey[d]
    BY <2>1, <2>3
  <2>6. TypeInv'
    <3>1. pc' \in [Clients -> Labels] /\ rkey' \in [Clients -> Keys \cup {NULL}]
      BY <2>1, <2>3 DEF Labels
    <3>2. rpc' \in [Clients -> {"none", "exec", "bind", "ready", "failed", "loop", "gone"}]
      BY <2>1, <2>3
    <3> QED  BY <2>1, <2>2, <3>1, <3>2 DEF TypeInv, TypeOK
  <2>7. QueuesOK'
    BY <2>1, <2>2 DEF QueuesOK
  <2>8. \A d \in Clients : Running(d)' <=> Running(d)
    BY <2>4, <2>5 DEF Running
  <2>9. ASSUME NEW d \in Clients PROVE ControlOK(d)' /\ ChannelOK(d)'
    <3>1. CASE d # c
      <4>1. ControlOK(d) /\ ChannelOK(d)
        BY DEF IInv
      <4> QED  BY <2>1, <2>5, <2>8, <3>1, <4>1 DEF ControlOK, ChannelOK, ReceiverGone
    <3>2. CASE d = c
      <4>1. ~ Running(c)
        BY <2>4 DEF Running
      <4>2. ChannelOK(c)'
        BY <2>4, <2>8, <4>1 DEF ChannelOK
      <4> QED  BY <2>1, <2>2, <2>4, <3>2, <4>2 DEF ControlOK, ReceiverGone, Before, Made
    <3> QED  BY <3>1, <3>2
  <2>10. ASSUME NEW d \in Clients \ disturbed', Attended(d)' PROVE ReceiverOK(d)'
    <3>1. ReceiverOK(d)
      BY <2>1, <2>5, <2>10 DEF IInv, Attended, ReceiverGone, Made
    <3>2. /\ \A e \in Clients \ {d} : Running(e)' => maker'[rqid'[e]] # d
          /\ Running(d)' => maker'[rqid'[d]] = d /\ key'[rqid'[d]] # NULL
      BY <2>1, <2>8, <3>1 DEF ReceiverOK
    <3>3. CASE d # c
      BY <2>1, <2>5, <3>1, <3>2, <3>3 DEF ReceiverOK
    <3>4. CASE d = c
      <4>1. \E q \in QIds : maker[q] = c /\ key[q] = file[c] /\ key[q] # NULL
        BY <2>1, <3>1, <3>4 DEF ReceiverOK, Made
      <4>2. \A q \in QIds : maker[q] = c => \A i \in DOMAIN msgs[q] : msgs[q][i].status # "ready"
        BY <2>4, <3>1, <3>4 DEF ReceiverOK
      <4>3. pc'[c] \notin Made
        BY <2>4 DEF Made
      <4> QED  BY <2>1, <2>4, <3>2, <3>4, <4>1, <4>2, <4>3 DEF ReceiverOK
    <3> QED  BY <3>3, <3>4
  <2> QED  BY <2>6, <2>7, <2>9, <2>10 DEF IInv
<1> QED  BY <1>1, <1>2

\* A queue is removed that is nobody's but a disturbed client's, or one's whose
\* receiver is gone.
LEMMA RemovalFrame ==
  ASSUME IInv, NEW q \in QIds, Removed(q), UNCHANGED <<rcvVars, maker>>,
         \A d \in Clients : client_udp_port'[d] \in {client_udp_port[d], 0} /\ StillMade(d),
         \A d \in Clients \ disturbed' : Attended(d) => d \notin disturbed /\ maker[q] # d
  PROVE  /\ QueuesOK' /\ \A d \in Clients : ChannelOK(d)'
         /\ \A d \in Clients \ disturbed' : Attended(d)' => ReceiverOK(d)'
         /\ key' \in [QIds -> Keys \cup {NULL}] /\ msgs' \in [QIds -> Seq(Messages)]
         /\ \A p \in QIds : Len(msgs'[p]) <= QUEUE /\ key'[p] \in {key[p], NULL} /\ key'[q] = NULL
<1>1. /\ key \in [QIds -> Keys \cup {NULL}] /\ msgs \in [QIds -> Seq(Messages)]
      /\ QUEUE \in Nat /\ \A p \in QIds : Len(msgs[p]) <= QUEUE
      /\ QueuesOK
  BY ReceiverAssumption DEF IInv, TypeInv, TypeOK
<1>2. /\ key' = [key EXCEPT ![q] = NULL] /\ msgs' = [msgs EXCEPT ![q] = <<>>]
      /\ UNCHANGED <<rpc, rkey, rqid, rport>>
  BY DEF Removed, rcvVars
<1>3. \A p \in QIds : /\ key'[p] = IF p = q THEN NULL ELSE key[p]
                      /\ msgs'[p] = IF p = q THEN <<>> ELSE msgs[p]
  BY <1>1, <1>2
<1>4. /\ key' \in [QIds -> Keys \cup {NULL}] /\ msgs' \in [QIds -> Seq(Messages)]
      /\ \A p \in QIds : Len(msgs'[p]) <= QUEUE
  <2>1. <<>> \in Seq(Messages) /\ Len(<<>>) <= QUEUE
    BY <1>1
  <2> QED  BY <1>1, <1>2, <1>3, <2>1
<1>5. QueuesOK'
  BY <1>1, <1>3 DEF QueuesOK
<1>6. ASSUME NEW d \in Clients PROVE ChannelOK(d)'
  BY <1>2 DEF IInv, ChannelOK, Running
<1>7. ASSUME NEW d \in Clients \ disturbed', Attended(d)' PROVE ReceiverOK(d)'
  <2>1. maker[q] # d /\ d \notin disturbed /\ Attended(d) /\ StillMade(d)
    BY <1>2, <1>7 DEF Attended, ReceiverGone, StillMade
  <2>2. ReceiverOK(d) /\ ChannelOK(d)
    BY <2>1 DEF IInv
  <2>3. \A p \in QIds : maker[p] = d => key'[p] = key[p] /\ msgs'[p] = msgs[p]
    BY <1>3, <2>1
  <2>4. client_udp_port'[d] # 0 => rpc[d] = "loop" /\ client_udp_port'[d] = rport[d]
    BY <2>2 DEF ReceiverOK
  <2>5. Running(d) => maker[rqid[d]] = d /\ key'[rqid[d]] # NULL
    BY <2>2, <2>3 DEF ReceiverOK, ChannelOK
  <2> QED  BY <1>2, <2>1, <2>2, <2>3, <2>4, <2>5 DEF ReceiverOK, StillMade, Running
<1> QED  BY <1>3, <1>4, <1>5, <1>6, <1>7

LEMMA RemoveOldStep ==
  ASSUME IInv, NEW c \in Clients, RemoveOld(c)
  PROVE  IInv'
<1> USE QIdsFacts
<1> DEFINE q == ctrl2rcvr_qid[c]
<1>1. CASE ~ Exists(q)
  BY <1>1, QuietSteps DEF RemoveOld, QuietStep, RemoveOldFails
<1>2. CASE Exists(q)
  <2>1. /\ pc[c] = "remove" /\ Removed(q) /\ pc' = [pc EXCEPT ![c] = "again"]
        /\ disturbed' = disturbed \cup Touched(c, q)
        /\ UNCHANGED <<numtries, file, ctrl2rcvr_qid, client_udp_port, interrupted, rcvVars, maker, unkept>>
        /\ q \in QIds /\ key[q] # NULL
    BY <1>2 DEF RemoveOld, Touches, Goes, Exists
  <2>2. TypeInv /\ ControlOK(c) /\ UNCHANGED <<rpc, rkey, rqid, rport>>
    BY <2>1 DEF IInv, rcvVars
  <2>3. maker[q] # c
    BY <2>1, <2>2 DEF ControlOK, Before
  <2>4. ASSUME NEW d \in Clients \ disturbed', Attended(d)
        PROVE  d \notin disturbed /\ maker[q] # d
    <3>1. pc[d] \notin {"rmid", "exited"}
      BY <2>4 DEF IInv, ControlOK, Attended, Made
    <3> QED  BY <2>1, <2>3, <2>4, <3>1, TouchedMaker
  <2>5. /\ QueuesOK' /\ \A d \in Clients : ChannelOK(d)'
        /\ \A d \in Clients \ disturbed' : Attended(d)' => ReceiverOK(d)'
        /\ key' \in [QIds -> Keys \cup {NULL}] /\ msgs' \in [QIds -> Seq(Messages)]
        /\ \A p \in QIds : Len(msgs'[p]) <= QUEUE /\ key'[p] \in {key[p], NULL}
    <3>1. \A d \in Clients : StillMade(d)
      BY <2>1, <2>2 DEF TypeInv, TypeOK, StillMade, Made
    <3> QED  BY <2>1, <2>4, <3>1, RemovalFrame
  <2>6. TypeInv'
    <3>1. pc' \in [Clients -> Labels] /\ disturbed' \subseteq Clients
      BY <2>1, <2>2, TouchedMaker DEF TypeInv, TypeOK, Labels
    <3> QED  BY <2>1, <2>2, <2>5, <3>1 DEF TypeInv, TypeOK
  <2>7. ASSUME NEW d \in Clients PROVE ControlOK(d)'
    <3>1. pc \in [Clients -> Labels] /\ ControlOK(d)
      BY <2>2 DEF TypeInv, TypeOK, IInv
    <3>2. CASE d # c
      <4>1. pc'[d] = pc[d]
        BY <2>1, <3>1, <3>2
      <4> QED  BY <2>1, <2>2, <2>5, <3>1, <4>1 DEF ControlOK, ReceiverGone
    <3>3. CASE d = c
      BY <2>1, <2>2, <3>1, <3>3 DEF ControlOK, ReceiverGone, Before, Made
    <3> QED  BY <3>2, <3>3
  <2> QED  BY <2>5, <2>6, <2>7 DEF IInv
<1> QED  BY <1>1, <1>2

LEMMA RemoveQueueStep ==
  ASSUME IInv, NEW c \in Clients, RemoveQueue(c)
  PROVE  IInv'
<1> USE QIdsFacts
<1> DEFINE q == ctrl2rcvr_qid[c]
<1>1. /\ pc[c] = "rmid" /\ pc' = [pc EXCEPT ![c] = "exited"]
      /\ IF Exists(q) THEN Removed(q) ELSE UNCHANGED queueVars
      /\ disturbed' = (disturbed \cup Touched(c, q)) \ {c}
      /\ interrupted' = [interrupted EXCEPT ![c] = FALSE]
      /\ ctrl2rcvr_qid' = [ctrl2rcvr_qid EXCEPT ![c] = -1]
      /\ client_udp_port' = [client_udp_port EXCEPT ![c] = 0]
      /\ UNCHANGED <<numtries, file, rcvVars, maker, unkept>>
  BY DEF RemoveQueue, Goes
<1>2. TypeInv /\ ControlOK(c) /\ UNCHANGED <<rpc, rkey, rqid, rport>>
  BY <1>1 DEF IInv, rcvVars
<1>3. /\ pc \in [Clients -> Labels] /\ interrupted \in [Clients -> BOOLEAN]
      /\ ctrl2rcvr_qid \in [Clients -> QIds \cup {-1}]
      /\ client_udp_port \in [Clients -> Ports \cup {0}]
      /\ disturbed \subseteq Clients
      /\ key \in [QIds -> Keys \cup {NULL}] /\ msgs \in [QIds -> Seq(Messages)]
      /\ \A p \in QIds : Len(msgs[p]) <= QUEUE
  BY <1>2 DEF TypeInv, TypeOK
<1>4. ReceiverGone(c) /\ file[c] = NULL /\ (c \notin unkept => \A p \in QIds : maker[p] = c => q = p)
  BY <1>1, <1>2 DEF ControlOK
<1>5. \A d \in Clients : client_udp_port'[d] \in {client_udp_port[d], 0} /\ StillMade(d)
  BY <1>1, <1>3 DEF StillMade, Made
<1>6. ASSUME NEW d \in Clients \ disturbed', Attended(d)
      PROVE  d \notin disturbed /\ d # c /\ (Exists(q) => maker[q] # d)
  <2>1. d # c /\ pc[d] \notin {"rmid", "exited"}
    BY <1>1, <1>4, <1>6 DEF IInv, ControlOK, Attended, Made
  <2>2. d \notin disturbed /\ d \notin Touched(c, q)
    BY <1>1, <1>6, <2>1
  <2> QED  BY <2>1, <2>2, TouchedMaker DEF Exists
<1>7. /\ QueuesOK' /\ \A d \in Clients : ChannelOK(d)'
      /\ \A d \in Clients \ disturbed' : Attended(d)' => ReceiverOK(d)'
      /\ key' \in [QIds -> Keys \cup {NULL}] /\ msgs' \in [QIds -> Seq(Messages)]
      /\ \A p \in QIds : /\ Len(msgs'[p]) <= QUEUE /\ key'[p] \in {key[p], NULL}
                         /\ maker[p] = c /\ c \notin unkept => key'[p] = NULL
  <2>1. CASE Exists(q)
    <3>1. q \in QIds /\ Removed(q)
      BY <1>1, <2>1 DEF Exists
    <3>2. /\ QueuesOK' /\ \A d \in Clients : ChannelOK(d)'
          /\ \A d \in Clients \ disturbed' : Attended(d)' => ReceiverOK(d)'
          /\ key' \in [QIds -> Keys \cup {NULL}] /\ msgs' \in [QIds -> Seq(Messages)]
          /\ \A p \in QIds : Len(msgs'[p]) <= QUEUE /\ key'[p] \in {key[p], NULL} /\ key'[q] = NULL
      BY <1>1, <1>5, <1>6, <2>1, <3>1, RemovalFrame
    <3> QED  BY <1>4, <3>2
  <2>2. CASE ~ Exists(q)
    <3>1. key' = key /\ msgs' = msgs
      BY <1>1, <2>2 DEF queueVars
    <3>2. QueuesOK'
      BY <1>1, <3>1 DEF IInv, QueuesOK
    <3>3. ASSUME NEW d \in Clients PROVE ChannelOK(d)'
      BY <1>1, <1>2 DEF IInv, ChannelOK, Running
    <3>4. ASSUME NEW d \in Clients \ disturbed', Attended(d)' PROVE ReceiverOK(d)'
      <4>1. Attended(d) /\ StillMade(d)
        BY <1>2, <1>5, <3>4 DEF Attended, ReceiverGone, StillMade
      <4>2. ReceiverOK(d) /\ d # c
        BY <1>6, <4>1, <3>4 DEF IInv
      <4>3. client_udp_port'[d] = client_udp_port[d]
        BY <1>1, <1>3, <4>2
      <4> QED  BY <1>1, <1>2, <3>1, <4>1, <4>2, <4>3 DEF ReceiverOK, StillMade, Running
    <3>5. \A p \in QIds : maker[p] = c /\ c \notin unkept => key'[p] = NULL
      BY <1>4, <2>2, <3>1 DEF Exists
    <3> QED  BY <1>3, <3>1, <3>2, <3>3, <3>4, <3>5
  <2> QED  BY <2>1, <2>2
<1>8. TypeInv'
  <2>1. /\ pc' \in [Clients -> Labels] /\ disturbed' \subseteq Clients
        /\ ctrl2rcvr_qid' \in [Clients -> QIds \cup {-1}]
        /\ client_udp_port' \in [Clients -> Ports \cup {0}]
    BY <1>1, <1>3, TouchedMaker DEF Labels
  <2>2. interrupted' \in [Clients -> BOOLEAN]
    BY <1>1, <1>3
  <2> QED  BY <1>1, <1>2, <1>7, <2>1, <2>2 DEF TypeInv, TypeOK
<1>9. ASSUME NEW d \in Clients PROVE ControlOK(d)'
  <2>1. CASE d # c
    <3>1. /\ ControlOK(d) /\ pc'[d] = pc[d] /\ ctrl2rcvr_qid'[d] = ctrl2rcvr_qid[d]
          /\ client_udp_port'[d] = client_udp_port[d]
      BY <1>1, <1>3, <2>1 DEF IInv
    <3> QED  BY <1>1, <1>2, <1>7, <3>1 DEF ControlOK, ReceiverGone
  <2>2. CASE d = c
    <3>1. pc'[c] = "exited" /\ ReceiverGone(c)' /\ file'[c] = NULL
      BY <1>1, <1>2, <1>3, <1>4 DEF ReceiverGone
    <3> QED  BY <1>1, <1>7, <2>2, <3>1 DEF ControlOK, Before, Made
  <2> QED  BY <2>1, <2>2
<1> QED  BY <1>7, <1>8, <1>9 DEF IInv

-----------------------------------------------------------------------------
(* Steps of a receiver. *)

\* There is a receiver only after the start.
LEMMA Living ==
  ASSUME IInv, NEW c \in Clients, ~ ReceiverGone(c)
  PROVE  pc[c] \notin Made /\ Attended(c) /\ (c \notin disturbed => ReceiverOK(c))
BY DEF IInv, ControlOK, Attended, ReceiverGone

\* What the receiver of c does does not concern the other clients, as long as it
\* looks into no queue of theirs.
LEMMA ReceiverFrame ==
  ASSUME IInv, NEW c \in Clients, NEW x, NEW k, NEW r, NEW p, ~ ReceiverGone(c),
         rpc' = [rpc EXCEPT ![c] = x], rkey' = [rkey EXCEPT ![c] = k],
         rqid' = [rqid EXCEPT ![c] = r], rport' = [rport EXCEPT ![c] = p],
         UNCHANGED <<ctlVars, key, maker, unkept>>, disturbed \subseteq disturbed',
         NEW M, MessagesFrom(rqid[c], M), M = {} \/ Running(c),
         Running(c)' => \/ Running(c) /\ r = rqid[c]
                        \/ \A d \in Clients \ (disturbed' \cup {c}) :
                             Attended(d) => maker[r] # d
  PROVE  /\ QueuesOK' /\ \A d \in Clients : ControlOK(d)'
         /\ \A d \in Clients \ {c} : ChannelOK(d)'
         /\ \A d \in Clients \ (disturbed' \cup {c}) : Attended(d)' => ReceiverOK(d)'
<1>1. /\ rpc \in [Clients -> {"none", "exec", "bind", "ready", "failed", "loop", "gone"}]
      /\ rkey \in [Clients -> Keys \cup {NULL}] /\ rqid \in [Clients -> QIds \cup {-1}]
      /\ rport \in [Clients -> Ports \cup {0}]
  BY DEF IInv, TypeInv, TypeOK
<1>2. \A d \in Clients \ {c} : /\ rpc'[d] = rpc[d] /\ rkey'[d] = rkey[d]
                               /\ rqid'[d] = rqid[d] /\ rport'[d] = rport[d]
  BY <1>1
<1>3. /\ key' = key /\ maker' = maker /\ client_udp_port' = client_udp_port
      /\ pc' = pc /\ file' = file
  BY DEF ctlVars
<1>4. QueuesOK'
  BY <1>3 DEF IInv, QueuesOK, MessagesFrom
<1>5. \A d \in Clients : ControlOK(d)'
  BY ControlFrame
<1>6. ASSUME NEW d \in Clients \ {c} PROVE ChannelOK(d)'
  BY <1>2, <1>3 DEF IInv, ChannelOK, Running
<1>7. ASSUME NEW d \in Clients \ (disturbed' \cup {c}), Attended(d)'
      PROVE  ReceiverOK(d)'
  <2>1. Attended(d) /\ d \in Clients \ disturbed /\ d # c
    BY <1>2, <1>3, <1>7 DEF Attended, ReceiverGone
  <2>2. ReceiverOK(d)
    BY <2>1 DEF IInv
  <2>3. ASSUME NEW e \in Clients \ {d}, Running(e)' PROVE maker'[rqid'[e]] # d
    <3>1. CASE e # c
      <4>1. Running(e) /\ rqid'[e] = rqid[e]
        BY <1>2, <2>3, <3>1 DEF Running
      <4> QED  BY <1>3, <2>2, <4>1 DEF ReceiverOK
    <3>2. CASE e = c
      <4>1. rqid'[c] = r
        BY <1>1
      <4>2. Running(c) /\ r = rqid[c] => maker[r] # d
        BY <2>1, <2>2 DEF ReceiverOK
      <4> QED  BY <1>3, <1>7, <2>1, <2>3, <3>2, <4>1, <4>2
    <3> QED  BY <3>1, <3>2
  <2>4. ASSUME NEW q \in QIds, maker[q] = d, NEW i \in DOMAIN msgs'[q],
               msgs'[q][i].status = "ready"
        PROVE  rpc[d] = "loop" /\ msgs'[q][i].value = rport[d]
    <3>1. Running(c) => maker[rqid[c]] # d
      BY <2>1, <2>2 DEF ReceiverOK
    <3>2. PICK j \in DOMAIN msgs[q] : msgs'[q][i] = msgs[q][j]
      BY <2>4, <3>1 DEF MessagesFrom
    <3> QED  BY <2>2, <2>4, <3>2 DEF ReceiverOK
  <2>5. Running(d)' => Running(d)
    BY <1>2, <2>1 DEF Running
  <2>6. rpc'[d] = "exec" => \E q \in QIds : maker'[q] = d /\ key'[q] = rkey'[d] /\ key'[q] # NULL
    BY <1>2, <1>3, <2>1, <2>2 DEF ReceiverOK
  <2>7. Running(d)' => maker'[rqid'[d]] = d /\ key'[rqid'[d]] # NULL
    BY <1>2, <1>3, <2>1, <2>2, <2>5 DEF ReceiverOK
  <2>8. client_udp_port'[d] # 0 => rpc'[d] = "loop" /\ client_udp_port'[d] = rport'[d]
    BY <1>2, <1>3, <2>1, <2>2 DEF ReceiverOK
  <2>9. \A q \in QIds : maker'[q] = d =>
          \A i \in DOMAIN msgs'[q] :
            msgs'[q][i].status = "ready" => rpc'[d] = "loop" /\ msgs'[q][i].value = rport'[d]
    BY <1>2, <1>3, <2>1, <2>4
  <2>10. pc'[d] \in Made =>
           \E q \in QIds : maker'[q] = d /\ key'[q] = file'[d] /\ key'[q] # NULL
    BY <1>3, <2>2 DEF ReceiverOK
  <2> QED  BY <2>3, <2>6, <2>7, <2>8, <2>9, <2>10 DEF ReceiverOK
<1> QED  BY <1>4, <1>5, <1>6, <1>7

LEMMA NothingSent ==
  ASSUME TypeInv, msgs' = msgs, NEW q
  PROVE  MessagesFrom(q, {})
BY DEF TypeInv, TypeOK, MessagesFrom

\* The types, for a step of the receiver of c.
LEMMA ReceiverTypes ==
  ASSUME TypeInv, NEW c \in Clients, UNCHANGED <<ctlVars, key, maker, unkept>>,
         disturbed' \subseteq Clients, NEW q, NEW M, MessagesFrom(q, M),
         NEW x \in {"bind", "ready", "failed", "loop", "gone"}, NEW k \in Keys \cup {NULL},
         NEW r \in QIds \cup {-1}, NEW p \in Ports \cup {0},
         rpc' = [rpc EXCEPT ![c] = x], rkey' = [rkey EXCEPT ![c] = k],
         rqid' = [rqid EXCEPT ![c] = r], rport' = [rport EXCEPT ![c] = p]
  PROVE  TypeInv'
<1>1. /\ rpc' \in [Clients -> {"none", "exec", "bind", "ready", "failed", "loop", "gone"}]
      /\ rkey' \in [Clients -> Keys \cup {NULL}]
  BY DEF TypeInv, TypeOK
<1>2. rqid' \in [Clients -> QIds \cup {-1}] /\ rport' \in [Clients -> Ports \cup {0}]
  BY DEF TypeInv, TypeOK
<1> QED  BY <1>1, <1>2 DEF TypeInv, TypeOK, MessagesFrom, ctlVars

\* A receiver ends, wherever it is.
LEMMA EndsStep ==
  ASSUME IInv, NEW c \in Clients, ~ ReceiverGone(c), Ends(c),
         UNCHANGED <<ctlVars, key, maker, disturbed, unkept>>,
         NEW M, MessagesFrom(rqid[c], M), M = {} \/ Running(c)
  PROVE  IInv'
<1> USE QIdsFacts
<1>1. /\ rpc' = [rpc EXCEPT ![c] = "gone"] /\ rkey' = [rkey EXCEPT ![c] = NULL]
      /\ rqid' = [rqid EXCEPT ![c] = -1] /\ rport' = [rport EXCEPT ![c] = 0]
  BY DEF Ends, Receives
<1>2. TypeInv /\ rpc'[c] = "gone" /\ disturbed \subseteq Clients
  BY <1>1 DEF IInv, TypeInv, TypeOK
<1>3. TypeInv'
  BY <1>1, <1>2, ReceiverTypes
<1>4. /\ QueuesOK' /\ \A d \in Clients : ControlOK(d)'
      /\ \A d \in Clients \ {c} : ChannelOK(d)'
      /\ \A d \in Clients \ (disturbed' \cup {c}) : Attended(d)' => ReceiverOK(d)'
  <2>1. ~ Running(c)'
    BY <1>2 DEF Running
  <2> QED  BY <1>1, <2>1, ReceiverFrame
<1>5. ChannelOK(c)' /\ ~ Attended(c)'
  BY <1>2, Living DEF ChannelOK, Running, ReceiverGone, Attended, ctlVars
<1> QED  BY <1>3, <1>4, <1>5 DEF IInv

LEMMA OpenChannelStep ==
  ASSUME IInv, NEW c \in Clients, OpenChannel(c)
  PROVE  IInv'
<1> USE QIdsFacts
<1>1. /\ rpc[c] = "exec" /\ UNCHANGED <<ctlVars, key, msgs, maker, unkept>> /\ ~ ReceiverGone(c)
      /\ TypeInv /\ QueuesOK /\ ChannelOK(c)
  BY DEF OpenChannel, queueVars, ReceiverGone, IInv
<1>2. /\ rpc \in [Clients -> {"none", "exec", "bind", "ready", "failed", "loop", "gone"}]
      /\ rkey \in [Clients -> Keys \cup {NULL}] /\ rqid \in [Clients -> QIds \cup {-1}]
      /\ rport \in [Clients -> Ports \cup {0}] /\ disturbed \subseteq Clients
  BY <1>1 DEF TypeInv, TypeOK
<1>3. MessagesFrom(rqid[c], {})
  BY <1>1, NothingSent
<1>4. CASE Ends(c) /\ UNCHANGED disturbed
  BY <1>1, <1>3, <1>4, EndsStep
<1>5. ASSUME NEW q \in QueuesOf(rkey[c]), rqid' = [rqid EXCEPT ![c] = q],
             disturbed' = disturbed \cup Touched(c, q), rpc' = [rpc EXCEPT ![c] = "bind"],
             UNCHANGED <<rkey, rport>>
      PROVE  IInv'
  <2>1. q \in QIds /\ key[q] = rkey[c] /\ key[q] # NULL /\ maker[q] # NULL
    BY <1>1 DEF QueuesOf, ChannelOK, QueuesOK
  <2>2. rkey' = [rkey EXCEPT ![c] = rkey[c]] /\ rport' = [rport EXCEPT ![c] = rport[c]]
    BY <1>2, <1>5
  <2>3. disturbed \subseteq disturbed' /\ disturbed' \subseteq Clients
    BY <1>2, <1>5, TouchedMaker
  <2>4. ASSUME NEW d \in Clients \ (disturbed' \cup {c}), Attended(d)
        PROVE  maker[q] # d
    <3>1. pc[d] \notin {"rmid", "exited"}
      BY <2>4 DEF IInv, ControlOK, Attended, Made
    <3> QED  BY <1>5, <2>1, <2>4, <3>1, TouchedMaker
  <2>5. TypeInv'
    <3>1. rkey[c] \in Keys \cup {NULL} /\ rport[c] \in Ports \cup {0}
      BY <1>2
    <3> QED  BY <1>1, <1>3, <1>5, <2>1, <2>2, <2>3, <3>1, ReceiverTypes
  <2>6. /\ QueuesOK' /\ \A d \in Clients : ControlOK(d)'
        /\ \A d \in Clients \ {c} : ChannelOK(d)'
        /\ \A d \in Clients \ (disturbed' \cup {c}) : Attended(d)' => ReceiverOK(d)'
    <3>1. \/ Running(c) /\ q = rqid[c]
          \/ \A d \in Clients \ (disturbed' \cup {c}) : Attended(d) => maker[q] # d
      BY <2>4
    <3> DEFINE x == "bind"
               k == rkey[c]
               p == rport[c]
               M == {}
    <3>2. /\ ~ ReceiverGone(c) /\ UNCHANGED <<ctlVars, key, maker, unkept>>
          /\ rpc' = [rpc EXCEPT ![c] = x] /\ rkey' = [rkey EXCEPT ![c] = k]
          /\ rqid' = [rqid EXCEPT ![c] = q] /\ rport' = [rport EXCEPT ![c] = p]
          /\ disturbed \subseteq disturbed' /\ MessagesFrom(rqid[c], M)
          /\ M = {} \/ Running(c)
      BY <1>1, <1>3, <1>5, <2>2, <2>3
    <3> HIDE DEF x, k, p, M
    <3> QED  BY <3>1, <3>2, ReceiverFrame
  <2>7. rpc'[c] = "bind" /\ rqid'[c] = q /\ key' = key /\ maker' = maker /\ msgs' = msgs
    BY <1>1, <1>2, <1>5
  <2>8. ChannelOK(c)'
    BY <2>1, <2>7 DEF ChannelOK
  <2>9. ASSUME c \notin disturbed' PROVE ReceiverOK(c)'
    <3>1. ReceiverOK(c) /\ pc'[c] \notin Made
      BY <1>1, <2>3, <2>9, Living DEF ctlVars
    <3>2. maker[q] = c
      <4>1. PICK p \in QIds : maker[p] = c /\ key[p] = rkey[c]
        BY <1>1, <3>1 DEF ReceiverOK
      <4> QED  BY <1>1, <2>1, <4>1 DEF QueuesOK
    <3>3. ASSUME NEW e \in Clients \ {c}, Running(e)' PROVE maker'[rqid'[e]] # c
      <4>1. Running(e) /\ rqid'[e] = rqid[e]
        BY <1>2, <1>5, <3>3 DEF Running
      <4> QED  BY <2>7, <3>1, <4>1 DEF ReceiverOK
    <3>4. client_udp_port'[c] = 0
      BY <1>1, <3>1 DEF ReceiverOK, ctlVars
    <3>5. \A p \in QIds : maker[p] = c => \A i \in DOMAIN msgs[p] : msgs[p][i].status # "ready"
      BY <1>1, <3>1 DEF ReceiverOK
    <3> QED  BY <3>1, <2>1, <2>7, <3>2, <3>3, <3>4, <3>5 DEF ReceiverOK
  <2> QED  BY <2>5, <2>6, <2>8, <2>9 DEF IInv
<1> QED  BY <1>4, <1>5 DEF OpenChannel, Touches, Receives

LEMMA BindStep ==
  ASSUME IInv, NEW c \in Clients, Bind(c)
  PROVE  IInv'
<1> USE QIdsFacts
<1>1. /\ rpc[c] = "bind" /\ ~ ReceiverGone(c) /\ TypeInv /\ ChannelOK(c)
      /\ UNCHANGED <<ctlVars, rkey, rqid, key, msgs, maker, disturbed, unkept>>
  BY DEF Bind, queueVars, ReceiverGone, IInv
<1>2. /\ rpc \in [Clients -> {"none", "exec", "bind", "ready", "failed", "loop", "gone"}]
      /\ rkey \in [Clients -> Keys \cup {NULL}] /\ rqid \in [Clients -> QIds \cup {-1}]
      /\ rport \in [Clients -> Ports \cup {0}] /\ disturbed \subseteq Clients
  BY <1>1 DEF TypeInv, TypeOK
<1>3. PICK x \in {"ready", "failed"}, p \in Ports \cup {0} :
        rpc' = [rpc EXCEPT ![c] = x] /\ rport' = [rport EXCEPT ![c] = p]
  <2>1. rport' = rport => rport' = [rport EXCEPT ![c] = rport[c]]
    BY <1>2
  <2>2. rport[c] \in Ports \cup {0} /\ FreePorts \subseteq Ports
    BY <1>2 DEF FreePorts
  <2> QED  BY <2>1, <2>2, Zenon DEF Bind, Receives
<1>4. rkey' = [rkey EXCEPT ![c] = rkey[c]] /\ rqid' = [rqid EXCEPT ![c] = rqid[c]]
  BY <1>1, <1>2
<1>5. MessagesFrom(rqid[c], {})
  BY <1>1, NothingSent
<1>6. TypeInv'
  <2>1. rkey[c] \in Keys \cup {NULL} /\ rqid[c] \in QIds \cup {-1}
    BY <1>2
  <2> QED  BY <1>1, <1>2, <1>3, <1>4, <1>5, <2>1, ReceiverTypes
<1>7. /\ QueuesOK' /\ \A d \in Clients : ControlOK(d)'
      /\ \A d \in Clients \ {c} : ChannelOK(d)'
      /\ \A d \in Clients \ (disturbed' \cup {c}) : Attended(d)' => ReceiverOK(d)'
  <2>1. Running(c)
    BY <1>1 DEF Running
  <2> QED  BY <1>1, <1>3, <1>4, <1>5, <2>1, ReceiverFrame
<1>8. /\ rpc'[c] = x /\ Running(c) /\ Running(c)' /\ rqid' = rqid /\ key' = key
      /\ maker' = maker /\ msgs' = msgs /\ \A d \in Clients : Running(d)' => Running(d)
  BY <1>1, <1>2, <1>3 DEF Running
<1>9. ChannelOK(c)'
  BY <1>1, <1>3, <1>8 DEF ChannelOK
<1>10. ASSUME c \notin disturbed' PROVE ReceiverOK(c)'
  <2>1. ReceiverOK(c) /\ pc'[c] \notin Made
    BY <1>1, <1>10, Living DEF ctlVars
  <2>2. client_udp_port'[c] = 0
    BY <1>1, <2>1 DEF ReceiverOK, ctlVars
  <2>3. \A q \in QIds : maker[q] = c => \A i \in DOMAIN msgs[q] : msgs[q][i].status # "ready"
    BY <1>1, <2>1 DEF ReceiverOK
  <2> QED  BY <1>3, <1>8, <2>1, <2>2, <2>3 DEF ReceiverOK
<1> QED  BY <1>6, <1>7, <1>9, <1>10 DEF IInv

LEMMA SendOkStep ==
  ASSUME IInv, NEW c \in Clients, send_ok(c)
  PROVE  IInv'
<1> USE QIdsFacts
<1> DEFINE m == RECV_READY(rport[c])
<1>1. /\ rpc[c] = "ready" /\ rpc' = [rpc EXCEPT ![c] = "loop"] /\ msgsnd(rqid[c], m)
      /\ ~ ReceiverGone(c) /\ TypeInv /\ ChannelOK(c)
      /\ UNCHANGED <<ctlVars, rkey, rqid, rport, maker, disturbed, unkept>>
  BY DEF send_ok, Receives, ToldPort, ReceiverGone, IInv
<1>2. /\ rpc \in [Clients -> {"none", "exec", "bind", "ready", "failed", "loop", "gone"}]
      /\ rkey \in [Clients -> Keys \cup {NULL}] /\ rqid \in [Clients -> QIds \cup {-1}]
      /\ rport \in [Clients -> Ports \cup {0}] /\ disturbed \subseteq Clients
  BY <1>1 DEF TypeInv, TypeOK
<1>3. m \in Messages /\ m.value = rport[c]
  BY <1>2 DEF Messages, RECV_READY
<1> HIDE DEF m
<1>4. MessagesFrom(rqid[c], {m}) /\ key' = key
  BY <1>1, <1>3, Sent
<1>5. /\ rkey' = [rkey EXCEPT ![c] = rkey[c]] /\ rqid' = [rqid EXCEPT ![c] = rqid[c]]
      /\ rport' = [rport EXCEPT ![c] = rport[c]]
  BY <1>1, <1>2
<1>6. TypeInv'
  <2>1. rkey[c] \in Keys \cup {NULL} /\ rqid[c] \in QIds \cup {-1} /\ rport[c] \in Ports \cup {0}
    BY <1>2
  <2>2. /\ disturbed' \subseteq Clients /\ UNCHANGED <<ctlVars, key, maker, unkept>>
        /\ rpc' = [rpc EXCEPT ![c] = "loop"] /\ TypeInv
    BY <1>1, <1>2, <1>4
  <2> QED  BY <1>4, <1>5, <2>1, <2>2, ReceiverTypes
<1>7. /\ QueuesOK' /\ \A d \in Clients : ControlOK(d)'
      /\ \A d \in Clients \ {c} : ChannelOK(d)'
      /\ \A d \in Clients \ (disturbed' \cup {c}) : Attended(d)' => ReceiverOK(d)'
  <2>1. Running(c)
    BY <1>1 DEF Running
  <2> DEFINE k == rkey[c]
             r == rqid[c]
             p == rport[c]
             M == {m}
  <2>2. /\ rpc' = [rpc EXCEPT ![c] = "loop"] /\ rkey' = [rkey EXCEPT ![c] = k]
        /\ rqid' = [rqid EXCEPT ![c] = r] /\ rport' = [rport EXCEPT ![c] = p]
        /\ UNCHANGED <<ctlVars, key, maker, unkept>> /\ disturbed \subseteq disturbed'
        /\ MessagesFrom(rqid[c], M) /\ (M = {} \/ Running(c)) /\ ~ ReceiverGone(c)
        /\ Running(c)' => Running(c) /\ r = rqid[c]
    BY <1>1, <1>4, <1>5, <2>1
  <2> HIDE DEF k, r, p, M
  <2> QED  BY <2>2, ReceiverFrame
<1>8. /\ rpc'[c] = "loop" /\ Running(c) /\ rqid' = rqid /\ key' = key
      /\ maker' = maker /\ rport' = rport /\ \A d \in Clients : Running(d)' => Running(d)
  BY <1>1, <1>2, <1>4 DEF Running
<1>9. ChannelOK(c)'
  BY <1>1, <1>8 DEF ChannelOK
<1>10. ASSUME c \notin disturbed' PROVE ReceiverOK(c)'
  <2>1. ReceiverOK(c) /\ pc'[c] \notin Made
    BY <1>1, <1>10, Living DEF ctlVars
  <2>2. client_udp_port'[c] = 0
    BY <1>1, <2>1 DEF ReceiverOK, ctlVars
  <2>3. ASSUME NEW p \in QIds, maker[p] = c, NEW i \in DOMAIN msgs'[p],
               msgs'[p][i].status = "ready"
        PROVE  msgs'[p][i].value = rport[c]
    <3>1. \A j \in DOMAIN msgs[p] : msgs[p][j].status # "ready"
      BY <1>1, <2>1, <2>3 DEF ReceiverOK
    <3>2. msgs'[p][i] = m
      BY <1>4, <2>3, <3>1 DEF MessagesFrom
    <3> QED  BY <1>3, <3>2
  <2> QED  BY <1>8, <2>1, <2>2, <2>3 DEF ReceiverOK
<1> QED  BY <1>6, <1>7, <1>9, <1>10 DEF IInv

LEMMA SendErrorStep ==
  ASSUME IInv, NEW c \in Clients, send_error(c)
  PROVE  IInv'
<1>1. /\ rpc[c] = "failed" /\ msgsnd(rqid[c], RECV_NOTREADY) /\ Ends(c)
      /\ UNCHANGED <<ctlVars, maker, disturbed, unkept>> /\ TypeInv
  BY DEF send_error, IInv
<1>2. RECV_NOTREADY \in Messages
  BY DEF Messages
<1>3. MessagesFrom(rqid[c], {RECV_NOTREADY}) /\ key' = key
  BY <1>1, <1>2, Sent
<1>4. Running(c) /\ ~ ReceiverGone(c)
  BY <1>1 DEF Running, ReceiverGone
<1> QED  BY <1>1, <1>3, <1>4, EndsStep

LEMMA ReadMessageStep ==
  ASSUME IInv, NEW c \in Clients, ReadMessage(c)
  PROVE  IInv'
<1> USE QIdsFacts
<1>1. /\ rpc[c] = "loop" /\ For(rqid[c], "receiver") # {} /\ Taken(rqid[c], "receiver")
      /\ UNCHANGED <<ctlVars, maker, disturbed, unkept>> /\ (Ends(c) \/ UNCHANGED rcvVars)
      /\ TypeInv /\ ~ ReceiverGone(c)
  BY DEF ReadMessage, IInv, ReceiverGone
<1>2. MessagesFrom(rqid[c], {}) /\ key' = key
  BY <1>1, TakenMessage
<1>3. CASE Ends(c)
  BY <1>1, <1>2, <1>3, EndsStep
<1>4. CASE UNCHANGED rcvVars
  <2>1. /\ UNCHANGED <<pc, numtries, file, ctrl2rcvr_qid, client_udp_port, interrupted>>
        /\ UNCHANGED <<rpc, rkey, rqid, rport, unkept>>
    BY <1>1, <1>4 DEF ctlVars, rcvVars
  <2>2. TypeInv'
    BY <1>1, <1>2, <2>1 DEF TypeInv, TypeOK, MessagesFrom
  <2>3. ASSUME NEW d \in Clients PROVE ControlOK(d)'
    BY <1>1, <1>2, <2>1 DEF IInv, ControlOK, ReceiverGone
  <2>4. /\ QueuesOK' /\ \A d \in Clients : ChannelOK(d)'
        /\ \A d \in Clients \ disturbed' : Attended(d)' => ReceiverOK(d)'
    BY <1>1, <1>2, <1>4, <2>1, MessagesFrame DEF StillMade
  <2> QED  BY <2>2, <2>3, <2>4 DEF IInv
<1> QED  BY <1>1, <1>3, <1>4

LEMMA KilledStep ==
  ASSUME IInv, NEW c \in Clients, Killed(c)
  PROVE  IInv'
<1>1. /\ ~ ReceiverGone(c) /\ Ends(c) /\ UNCHANGED <<ctlVars, key, msgs, maker, disturbed, unkept>>
      /\ TypeInv
  BY DEF Killed, queueVars, IInv
<1>2. MessagesFrom(rqid[c], {})
  BY <1>1, NothingSent
<1> QED  BY <1>1, <1>2, EndsStep

-----------------------------------------------------------------------------
(* The invariant. *)

LEMMA InitInv == Init => IInv
<1> USE QIdsFacts
<1> SUFFICES ASSUME Init PROVE IInv
  OBVIOUS
<1>1. PICK k \in Left : key = [q \in QIds |-> IF q = Leftover THEN k ELSE NULL]
  BY DEF Init
<1>2. /\ NULL \notin Clients \cup Keys /\ Earlier \notin Clients \cup {NULL}
      /\ k \in Keys \cup {NULL} /\ RETRIES \in Nat \ {0} /\ QUEUE \in Nat
  BY <1>1, ReceiverAssumption
<1>3. /\ \A c \in Clients : rpc[c] = "none" /\ pc[c] = "start" /\ client_udp_port[c] = 0
      /\ \A q \in QIds : msgs[q] = <<>> /\ maker[q] \in {NULL, Earlier}
      /\ \A q \in QIds : maker[q] = NULL <=> key[q] = NULL
      /\ \A q \in QIds : q # Leftover => key[q] = NULL
  BY <1>1, <1>2 DEF Init
<1>4. TypeInv
  <2>1. /\ key \in [QIds -> Keys \cup {NULL}] /\ maker \in [QIds -> Clients \cup {NULL, Earlier}]
        /\ disturbed \subseteq Clients /\ unkept \subseteq Clients /\ pc \in [Clients -> Labels]
    BY <1>1, <1>2 DEF Init, Labels
  <2>2. /\ numtries \in [Clients -> 0 .. RETRIES] /\ \A c \in Clients : numtries[c] < RETRIES
        /\ client_udp_port \in [Clients -> Ports \cup {0}]
        /\ rport \in [Clients -> Ports \cup {0}]
    BY <1>2 DEF Init
  <2>3. /\ file \in [Clients -> Keys \cup {NULL}] /\ rkey \in [Clients -> Keys \cup {NULL}]
        /\ ctrl2rcvr_qid \in [Clients -> QIds \cup {-1}] /\ rqid \in [Clients -> QIds \cup {-1}]
        /\ rpc \in [Clients -> {"none", "exec", "bind", "ready", "failed", "loop", "gone"}]
    BY DEF Init, QIds
  <2>4. interrupted \in [Clients -> BOOLEAN]
    BY DEF Init
  <2>5. msgs \in [QIds -> Seq(Messages)] /\ \A q \in QIds : Len(msgs[q]) <= QUEUE
    <3>1. <<>> \in Seq(Messages) /\ Len(<<>>) <= QUEUE
      BY <1>2
    <3> QED  BY <1>3, <3>1 DEF Init
  <2> QED  BY <2>1, <2>2, <2>3, <2>4, <2>5 DEF TypeInv, TypeOK
<1>5. QueuesOK
  BY <1>3 DEF QueuesOK
<1>6. ASSUME NEW c \in Clients PROVE ControlOK(c) /\ ChannelOK(c) /\ ~ Attended(c)
  <2>1. \A q \in QIds : maker[q] # c
    BY <1>2, <1>3
  <2> QED  BY <1>3, <2>1 DEF ControlOK, ChannelOK, Attended, ReceiverGone, Running,
                                 Before, Made
<1> QED  BY <1>4, <1>5, <1>6 DEF IInv

LEMMA NextInv == IInv /\ [Next]_vars => IInv'
<1> SUFFICES ASSUME IInv, [Next]_vars PROVE IInv'
  OBVIOUS
<1>1. ASSUME NEW c \in Clients, Control(c) PROVE IInv'
  <2>1. CASE \/ MakeFile(c) \/ KeepQueue(c) \/ MakeFails(c) \/ QueueExists(c) \/ OpenOld(c) \/ NoAnswer(c)
             \/ GiveUp(c) \/ WaitForReceiver(c)
    BY <2>1, QuietSteps DEF QuietStep
  <2>2. CASE MakeQueue(c)
    BY <2>2, MakeQueueStep
  <2>7. CASE Fork(c)
    BY <2>7, ForkStep
  <2>3. CASE RemoveOld(c)
    BY <2>3, RemoveOldStep
  <2>4. CASE GetAnswer(c)
    BY <2>4, GetAnswerStep
  <2>5. CASE Notify(c) \/ SendQuit(c)
    BY <2>5, SendStep
  <2>6. CASE RemoveQueue(c)
    BY <2>6, RemoveQueueStep
  <2> QED  BY <1>1, <2>1, <2>2, <2>3, <2>4, <2>5, <2>6, <2>7 DEF Control
<1>2. ASSUME NEW c \in Clients, User(c) PROVE IInv'
  BY <1>2, QuietSteps DEF QuietStep
<1>3. ASSUME NEW c \in Clients, Receiver(c) PROVE IInv'
  <2>1. CASE OpenChannel(c)
    BY <2>1, OpenChannelStep
  <2>2. CASE Bind(c)
    BY <2>2, BindStep
  <2>3. CASE send_ok(c)
    BY <2>3, SendOkStep
  <2>4. CASE send_error(c)
    BY <2>4, SendErrorStep
  <2>5. CASE ReadMessage(c)
    BY <2>5, ReadMessageStep
  <2> QED  BY <1>3, <2>1, <2>2, <2>3, <2>4, <2>5 DEF Receiver
<1>4. ASSUME NEW c \in Clients, Killed(c) PROVE IInv'
  BY <1>4, KilledStep
<1>5. CASE UNCHANGED vars
  <2>1. /\ UNCHANGED <<pc, numtries, file, ctrl2rcvr_qid, client_udp_port, interrupted>>
        /\ UNCHANGED <<rpc, rkey, rqid, rport, key, msgs, maker, disturbed, unkept>>
    BY <1>5 DEF vars, ctlVars, rcvVars, queueVars
  <2>2. TypeInv'
    BY <2>1 DEF IInv, TypeInv, TypeOK
  <2>3. ASSUME NEW d \in Clients PROVE ControlOK(d)'
    BY <2>1 DEF IInv, ControlOK, ReceiverGone
  <2>4. /\ QueuesOK' /\ \A d \in Clients : ChannelOK(d)'
        /\ \A d \in Clients \ disturbed' : Attended(d)' => ReceiverOK(d)'
    BY <2>1, QuietFrame DEF rcvVars, queueVars, StillMade
  <2> QED  BY <2>2, <2>3, <2>4 DEF IInv
<1> QED  BY <1>1, <1>2, <1>3, <1>4, <1>5 DEF Next

\* The invariant holds in every state of every run, however many clients there are.
THEOREM InvariantHolds == Spec => []IInv
BY InitInv, NextInv, PTL DEF Spec

\* Every variable has its type, and a queue never holds more than it may.
THEOREM TypeCorrect == Spec => []TypeOK
<1>1. IInv => TypeOK
  BY DEF IInv, TypeInv
<1> QED  BY <1>1, InvariantHolds, PTL

\* The port a client has for its registration is the one its receiver is bound to, as
\* long as the receiver lives and no other client got hold of the queue.
THEOREM PortAgreedCorrect == Spec => []PortAgreed
<1>1. IInv => PortAgreed
  <2> SUFFICES ASSUME IInv, NEW c \in Clients \ disturbed, client_udp_port[c] # 0, Running(c)
               PROVE  rport[c] = client_udp_port[c]
    BY DEF PortAgreed
  <2>1. ~ ReceiverGone(c)
    BY DEF Running, ReceiverGone
  <2> QED  BY <2>1, Living DEF ReceiverOK
<1> QED  BY <1>1, InvariantHolds, PTL

\* A living receiver looks into the queue its own client made, and that queue exists.
THEOREM QueueOutlivesCorrect == Spec => []QueueOutlivesReceiver
<1>1. IInv => QueueOutlivesReceiver
  <2> SUFFICES ASSUME IInv, NEW c \in Clients \ disturbed, Running(c)
               PROVE  Exists(rqid[c]) /\ maker[rqid[c]] = c
    BY DEF QueueOutlivesReceiver
  <2>1. ~ ReceiverGone(c)
    BY DEF Running, ReceiverGone
  <2> QED  BY <2>1, Living DEF IInv, ReceiverOK, ChannelOK, Exists
<1> QED  BY <1>1, InvariantHolds, PTL

\* A client that has shut down leaves no receiver and no file, however often it was
\* interrupted on the way; a queue of its own only if Ctrl-C came between its making and
\* the store of its identifier.
THEOREM LeavesNothingCorrect == Spec => []LeavesNothing
<1>1. IInv => LeavesNothing
  BY DEF IInv, ControlOK, LeavesNothing, ReceiverGone, Exists
<1> QED  BY <1>1, InvariantHolds, PTL
=============================================================================
