------------------------------ MODULE ChatClient ------------------------------
(***************************************************************************)
(* Chat clients (A3/client_main.c) and the server they talk to, which is    *)
(* ChatService and may crash and start again with nothing remembered.        *)
(*                                                                           *)
(* A control request is a connection of its own: the client connects, sends, *)
(* waits for the answer and closes.  The answer may be lost after the server *)
(* did what was asked, and the client then asks again; the server may crash  *)
(* before it answers, and the client then reads an end of file.              *)
(***************************************************************************)
EXTENDS ChatDefs, FiniteSets

CONSTANTS
  NULL, Ids, Rooms, RoomNames, LongNames, FullNames,
  MAX_NUM_OF_ROOMS, MAX_NUM_OF_MEMBERS_PER_ROOM,
  Blank,            \* the room name without a character
  Clients,
  Bases,            \* the names users ask for
  LongBases,        \* those too long for a suffix
  MAX_SUFFIX,       \* 99; less than 10 here, so that a suffix is one digit
  MAX_RETRIES,      \* attempts to reconnect
  TCP_RETRIES       \* attempts at a request

\* A name as registered: "ann" is <<"ann", 0>>, "ann (2)" is <<"ann", 2>>.
Names == Bases \X (0 .. MAX_SUFFIX)

ASSUME ClientAssumption ==
  /\ NULL \notin Clients \cup Ids \cup Rooms \cup RoomNames \cup Names
  /\ Blank \in RoomNames
  /\ MAX_SUFFIX \in 0 .. 9
  /\ MAX_RETRIES \in Nat \ {0} /\ TCP_RETRIES \in Nat \ {0}

VARIABLES
  phase, name, room, heard, rooms, title, idle, reply,  \* see ChatService
  pc,               \* where a client is; "exited"
  request,          \* the request of the client: its type, and a room name or NULL
  attempts,         \* attempts at it that are left
  conn,             \* its connection: "none", "sent", "answered"
  answer,           \* what the server sent back on it; NoReply is an end of file
  member_id, member_name, last_channel, connect_retries,
  suffix,           \* the suffix to try next
  air,              \* ids under which chat messages are on their way to the server
  \* Of each client, for the properties only:
  standing,         \* the id it is registered under, as long as nothing but requests
                    \* of its own has changed what the server knows of it
  missed            \* the room that it entered last, if the answer to that was lost

svars == <<phase, name, room, heard, rooms, title, idle>>
callVars == <<request, attempts, conn, answer>>
selfVars == <<member_id, member_name, last_channel, connect_retries, suffix>>
history == <<standing, missed>>
vars == <<svars, reply, pc, callVars, selfVars, air, history>>

Server == INSTANCE ChatService

Request(type, r) == [type |-> type, room |-> r]

Init ==
  /\ Server!Init
  /\ pc = [c \in Clients |-> "start"]
  /\ request = [c \in Clients |-> Request(REGISTER_REQUEST, NULL)]
  /\ attempts = [c \in Clients |-> TCP_RETRIES]
  /\ conn = [c \in Clients |-> "none"]
  /\ answer = [c \in Clients |-> NoReply]
  /\ member_id = [c \in Clients |-> NULL]
  /\ member_name \in [Clients -> Bases \X {0}]
  /\ last_channel = [c \in Clients |-> Blank]
  /\ connect_retries = [c \in Clients |-> MAX_RETRIES]
  /\ suffix = [c \in Clients |-> 1]
  /\ air = {}
  /\ standing = [c \in Clients |-> NULL]
  /\ missed = [c \in Clients |-> NULL]

Calling(c) == pc[c] \in {"start", "register", "rejoin", "command", "heartbeat"}

-----------------------------------------------------------------------------
(* The server, as its clients see it. *)

ServerQuiet == UNCHANGED svars /\ reply' = NoReply
ClientsQuiet == UNCHANGED <<pc, callVars, selfVars>>

\* What the server does with the request of c.
Handles(c, type, i, r) ==
  \/ type = REGISTER_REQUEST
     /\ (Server!Register(member_name[c]) \/ Server!RegisterRefused(member_name[c]))
  \/ type # REGISTER_REQUEST /\ Server!Unknown(type, i)
  \/ type = QUIT_REQUEST /\ Server!Quit(i)
  \/ /\ Server!Hear(i)
     /\ \/ type = ROOM_LIST_REQUEST /\ Server!ListRooms(i)
        \/ type = MEMBER_LIST_REQUEST /\ Server!ListMembers(i, r)
        \/ type = SWITCH_ROOM_REQUEST /\ (Server!SwitchRoom(i, r) \/ Server!SwitchRefused(i, r))
        \/ type = CREATE_ROOM_REQUEST
           /\ (Server!CreateRoom(i, r) \/ Server!CreateRefused(i, r) \/ Server!CreateDies(i, r))
        \/ type = MEMBER_KEEP_ALIVE /\ Server!KeepAlive(i)

\* Registrations that the step leaves as they were, but for one made by c or
\* changed at its request.
StillStanding(c) ==
  standing' = [d \in Clients |->
    LET i == standing[d]
    IN  IF d = c /\ reply'.type = REGISTER_SUCC THEN reply'.id
        ELSE IF i = NULL \/ name'[i] = NULL \/ (d # c /\ room'[i] # room[i]) THEN NULL
        ELSE i]

\* The server reads the request of c, a client that may have exited since.
Serve(c) ==
  /\ conn[c] = "sent"
  /\ Handles(c, request[c].type, member_id[c], request[c].room)
  /\ conn' = [conn EXCEPT ![c] = "answered"]
  /\ answer' = [answer EXCEPT ![c] = reply']
  /\ StillStanding(c)
  /\ UNCHANGED <<pc, request, attempts, selfVars, air, missed>>

\* A chat message arrives; one that is lost never does.
Relay(i) ==
  /\ i \in air
  /\ (Server!Hear(i) /\ Server!Chat(i)) \/ (i \notin Server!Online /\ Server!Ignored)
  /\ air' = air \ {i}
  /\ ClientsQuiet /\ UNCHANGED history

Sweep ==
  /\ Server!Sweep
  /\ StillStanding(NULL)
  /\ ClientsQuiet /\ UNCHANGED <<air, missed>>

\* The room file has no empty names.
Boot ==
  /\ Server!Start \/ \E r \in RoomNames \ {Blank} : Server!LoadRoom(r)
  /\ ClientsQuiet /\ UNCHANGED <<air, history>>

Crash ==
  /\ phase = "up"
  /\ phase' = "down"
  /\ air' = {}
  /\ reply' = NoReply
  /\ ClientsQuiet /\ UNCHANGED <<name, room, heard, rooms, title, idle, history>>

\* The connections of a server that went down are closed.
Hangup(c) ==
  /\ phase = "down" /\ conn[c] = "sent"
  /\ conn' = [conn EXCEPT ![c] = "answered"]
  /\ answer' = [answer EXCEPT ![c] = NoReply]
  /\ ServerQuiet /\ UNCHANGED <<pc, request, attempts, selfVars, air, history>>

Restart ==
  /\ phase = "down" /\ \A c \in Clients : conn[c] # "sent"
  /\ phase' = "init"
  /\ name' = [i \in Ids |-> NULL] /\ room' = [i \in Ids |-> NULL]
  /\ heard' = {} /\ rooms' = {} /\ idle' = {}
  /\ title' = [h \in Rooms |-> NULL]
  /\ reply' = NoReply
  /\ StillStanding(NULL)
  /\ ClientsQuiet /\ UNCHANGED <<air, missed>>

-----------------------------------------------------------------------------
(* Requests: attempt_request and what its callers do with the result. *)

NoRequest == Request(CHAT, NULL)

\* A client that makes a request; and one that makes none, whose locals are forgotten.
Calls(c, label, req) ==
  /\ pc' = [pc EXCEPT ![c] = label]
  /\ request' = [request EXCEPT ![c] = req]
  /\ attempts' = [attempts EXCEPT ![c] = TCP_RETRIES]
  /\ conn' = [conn EXCEPT ![c] = "none"]
  /\ answer' = [answer EXCEPT ![c] = NoReply]

Rests(c, label) ==
  /\ pc' = [pc EXCEPT ![c] = label]
  /\ request' = [request EXCEPT ![c] = NoRequest]
  /\ attempts' = [attempts EXCEPT ![c] = 0]
  /\ conn' = [conn EXCEPT ![c] = "none"]
  /\ answer' = [answer EXCEPT ![c] = NoReply]

\* shutdown_clean: the server is not told.
Exits(c) == Rests(c, "exited") /\ UNCHANGED selfVars

Connect(c) ==
  /\ Calling(c) /\ conn[c] = "none"
  /\ phase = "up"
  /\ conn' = [conn EXCEPT ![c] = "sent"]
  /\ ServerQuiet
  /\ UNCHANGED <<pc, request, attempts, answer, selfVars, air, history>>

\* No answer: reconnect() starts, or has one attempt less if it is what failed.
Disconnected(c) ==
  LET left == IF pc[c] = "register" THEN connect_retries[c] - 1 ELSE MAX_RETRIES
  IN  /\ Rests(c, IF left = 0 THEN "exited" ELSE "waiting")
      /\ connect_retries' = [connect_retries EXCEPT ![c] = left]
      /\ UNCHANGED <<member_id, member_name, last_channel, suffix>>

\* The server is down, or out of reach.
ConnectFails(c) ==
  /\ Calling(c) /\ conn[c] = "none"
  /\ Disconnected(c)
  /\ ServerQuiet /\ UNCHANGED <<air, history>>

\* Mutant: failed attempts are not counted.
AttemptsLeftForever(c) == attempts[c]

AttemptsLeft(c) == attempts[c] - 1

\* read() fails, whatever the server answered.
ReadFails(c) ==
  /\ Calling(c) /\ conn[c] = "answered"
  /\ \/ /\ AttemptsLeft(c) > 0
        /\ attempts' = [attempts EXCEPT ![c] = AttemptsLeft(c)]
        /\ conn' = [conn EXCEPT ![c] = "none"]
        /\ answer' = [answer EXCEPT ![c] = NoReply]
        /\ UNCHANGED <<pc, request, selfVars>>
     \/ AttemptsLeft(c) = 0 /\ Disconnected(c)
  /\ missed' = IF answer[c].type = SWITCH_ROOM_SUCC
               THEN [missed EXCEPT ![c] = request[c].room] ELSE missed
  /\ ServerQuiet /\ UNCHANGED <<air, standing>>

\* Nothing is missing any more once it is known where the client is.
Reads(c, callers) ==
  /\ pc[c] \in callers /\ conn[c] = "answered"
  /\ missed' = IF answer[c].type \in {REGISTER_SUCC, SWITCH_ROOM_SUCC}
               THEN [missed EXCEPT ![c] = NULL] ELSE missed
  /\ ServerQuiet /\ UNCHANGED <<air, standing>>

-----------------------------------------------------------------------------
(* Registering: init_client, from main or from reconnect. *)

\* Mutant: an id once had is kept.
NewIdFirstOnly(c) == IF member_id[c] = NULL THEN answer[c].id ELSE member_id[c]

NewId(c) == answer[c].id

\* A client that reconnected goes back to its room.
Registered(c) ==
  /\ Reads(c, {"start", "register"})
  /\ answer[c].type = REGISTER_SUCC
  /\ member_id' = [member_id EXCEPT ![c] = NewId(c)]
  /\ suffix' = [suffix EXCEPT ![c] = 1]
  /\ \/ last_channel[c] = Blank /\ Rests(c, "ready")
     \/ /\ last_channel[c] # Blank
        /\ Calls(c, "rejoin", Request(SWITCH_ROOM_REQUEST, last_channel[c]))
  /\ UNCHANGED <<member_name, last_channel, connect_retries>>

NameTaken(c) == answer[c].type = REGISTER_FAIL /\ answer[c].data # {}

\* Mutant: one suffix more.
NamesTriedOneMore(c) == suffix[c] > MAX_SUFFIX + 1

\* The suffixes are used up.
NamesTried(c) == suffix[c] > MAX_SUFFIX

NoSuffixFits(c) == member_name[c][2] = 0 /\ member_name[c][1] \in LongBases

TryNextName(c) ==
  /\ Reads(c, {"start", "register"})
  /\ NameTaken(c)
  /\ ~ NamesTried(c) /\ ~ NoSuffixFits(c)
  /\ member_name' = [member_name EXCEPT ![c] = <<@[1], suffix[c]>>]
  /\ suffix' = [suffix EXCEPT ![c] = @ + 1]
  /\ Calls(c, pc[c], request[c])
  /\ UNCHANGED <<member_id, last_channel, connect_retries>>

\* Any other refusal, and an end of file, ends the program.
NotRegistered(c) ==
  /\ Reads(c, {"start", "register"})
  /\ answer[c].type # REGISTER_SUCC
  /\ NameTaken(c) => NamesTried(c) \/ NoSuffixFits(c)
  /\ Exits(c)

\* Five seconds later.
Reconnect(c) ==
  /\ pc[c] = "waiting"
  /\ Calls(c, "register", Request(REGISTER_REQUEST, NULL))
  /\ suffix' = [suffix EXCEPT ![c] = 1]
  /\ ServerQuiet
  /\ UNCHANGED <<member_id, member_name, last_channel, connect_retries, air, history>>

\* Mutant: the channel is remembered.
ChannelAfterKept(c) == last_channel[c]

\* The channel after an attempt to rejoin it: the empty name stands for none.
ChannelAfter(c) == IF answer[c].type = SWITCH_ROOM_SUCC THEN last_channel[c] ELSE Blank

Rejoined(c) ==
  /\ Reads(c, {"rejoin"})
  /\ last_channel' = [last_channel EXCEPT ![c] = ChannelAfter(c)]
  /\ Rests(c, "ready")
  /\ UNCHANGED <<member_id, member_name, connect_retries, suffix>>

-----------------------------------------------------------------------------
(* The main loop: handle_input. *)

Ready(c) == pc[c] = "ready" /\ ServerQuiet

Command(c) ==
  /\ Ready(c)
  /\ \/ Calls(c, "command", Request(ROOM_LIST_REQUEST, NULL))
     \/ \E type \in {MEMBER_LIST_REQUEST, SWITCH_ROOM_REQUEST, CREATE_ROOM_REQUEST},
           r \in RoomNames : Calls(c, "command", Request(type, r))
  /\ UNCHANGED <<selfVars, air, history>>

\* Only a switch has an effect on the client; a failure is just shown.
Commanded(c) ==
  /\ Reads(c, {"command"})
  /\ last_channel' = IF answer[c].type = SWITCH_ROOM_SUCC
                     THEN [last_channel EXCEPT ![c] = request[c].room] ELSE last_channel
  /\ Rests(c, "ready")
  /\ UNCHANGED <<member_id, member_name, connect_retries, suffix>>

Heartbeat(c) ==
  /\ Ready(c)
  /\ Calls(c, "heartbeat", Request(MEMBER_KEEP_ALIVE, NULL))
  /\ UNCHANGED <<selfVars, air, history>>

\* The heartbeat does not look at the answer, not even "Member id invalid!".
HeartbeatOver(c) ==
  /\ Reads(c, {"heartbeat"})
  /\ Rests(c, "ready")
  /\ UNCHANGED selfVars

\* A client in the room without a name cannot say anything there.
Say(c) ==
  /\ Ready(c)
  /\ last_channel[c] # Blank
  /\ air' = air \cup {member_id[c]}
  /\ ClientsQuiet /\ UNCHANGED history

\* The request is sent if a connection can be had, and not waited for.
Quit(c) ==
  /\ Ready(c)
  /\ \/ /\ phase = "up"
        /\ pc' = [pc EXCEPT ![c] = "exited"]
        /\ request' = [request EXCEPT ![c] = Request(QUIT_REQUEST, NULL)]
        /\ conn' = [conn EXCEPT ![c] = "sent"]
        /\ UNCHANGED <<attempts, answer, selfVars>>
     \/ Exits(c)
  /\ UNCHANGED <<air, history>>

\* Ctrl-C, at any time; a request that was sent is handled all the same.
Interrupt(c) ==
  /\ pc[c] # "exited"
  /\ \/ conn[c] # "sent" /\ Exits(c)
     \/ /\ conn[c] = "sent"
        /\ pc' = [pc EXCEPT ![c] = "exited"]
        /\ UNCHANGED <<callVars, selfVars>>
  /\ ServerQuiet /\ UNCHANGED <<air, history>>

-----------------------------------------------------------------------------
Answers(c) == Serve(c) \/ Hangup(c)

Proceeds(c) ==
  \/ Connect(c) \/ ConnectFails(c) \/ ReadFails(c)
  \/ Registered(c) \/ TryNextName(c) \/ NotRegistered(c)
  \/ Reconnect(c) \/ Rejoined(c) \/ Commanded(c) \/ HeartbeatOver(c)

Next ==
  \/ \E c \in Clients : \/ Answers(c) \/ Proceeds(c)
                        \/ Command(c) \/ Heartbeat(c) \/ Say(c) \/ Quit(c) \/ Interrupt(c)
  \/ \E i \in air : Relay(i)
  \/ Sweep \/ Boot \/ Crash \/ Restart

Spec == Init /\ [][Next]_vars

\* Programs that are not blocked go on, requests that arrived are served while the
\* server is up, and select() times out now and then.  Nothing is asked of users or
\* of the network; the server may stay down.
FairSpec ==
  /\ Spec
  /\ WF_vars(Sweep)
  /\ \A c \in Clients : WF_vars(Answers(c)) /\ WF_vars(Proceeds(c))

-----------------------------------------------------------------------------
(* Properties. *)

TypeOK ==
  /\ phase \in {"init", "up", "down"}
  /\ name \in [Ids -> Names \cup {NULL}] /\ room \in [Ids -> Rooms \cup {NULL}]
  /\ heard \subseteq Server!Online
  /\ rooms \subseteq Rooms /\ idle \subseteq rooms
  /\ title \in [Rooms -> (RoomNames \ LongNames) \cup {NULL}]
  /\ pc \in [Clients -> {"start", "register", "rejoin", "command", "heartbeat",
                         "ready", "waiting", "exited"}]
  /\ request \in [Clients -> [type : 0 .. QUIT_REQUEST, room : RoomNames \cup {NULL}]]
  /\ attempts \in [Clients -> 0 .. TCP_RETRIES]
  /\ conn \in [Clients -> {"none", "sent", "answered"}]
  /\ member_id \in [Clients -> Ids \cup {NULL}]
  /\ member_name \in [Clients -> Names]
  /\ last_channel \in [Clients -> RoomNames]
  /\ connect_retries \in [Clients -> 0 .. MAX_RETRIES]
  /\ suffix \in [Clients -> 1 .. MAX_SUFFIX + 1]
  /\ air \subseteq Ids
  /\ standing \in [Clients -> Ids \cup {NULL}]
  /\ missed \in [Clients -> RoomNames \cup {NULL}]

Standing(c) == phase = "up" /\ pc[c] = "ready" /\ standing[c] # NULL

\* However often the client registered, under whatever names, and whichever answers
\* were lost: the id it uses is that of the registration that stands
\* (handle_register_req, init_client).
ActsAsItself == \A c \in Clients : Standing(c) => member_id[c] = standing[c]

\* The name of the room that the server has the member in.
TitleOf(i) == IF room[i] = NULL THEN Blank ELSE title[room[i]]

\* The room that the client shows, last_channel, is the one it is in, also after it
\* reconnected to a server that has forgotten it or the room - unless the answer to
\* a switch was lost.  Then the client is in the room of that switch until another
\* one is answered: the retry is refused with "Already in this room!", after which
\* last_channel keeps the old room or, after a reconnect, none
\* (handle_switch_room_req and reconnect).  The room whose name is empty looks
\* like no room.
RoomAsShown ==
  \A c \in Clients :
    Standing(c) => TitleOf(standing[c]) = IF missed[c] = NULL THEN last_channel[c] ELSE missed[c]

\* A client that starts or lost its server registers or exits: it does not wait,
\* ask or try names forever (the bounded loops of attempt_request, init_client and
\* reconnect).
Settles ==
  \A c \in Clients :
    pc[c] \in {"start", "register", "waiting"} ~> pc[c] \in {"rejoin", "ready", "exited"}

Known(i) == \E c \in Clients : pc[c] # "exited" /\ member_id[c] = i

\* A registration no client knows of, because its program ended without a quit or
\* because the answer to the request was lost, does not stay: its name and its place
\* become free again.
GhostsLeave ==
  \A i \in Ids : []<>(phase = "up" /\ i \in Server!Online => Known(i))
=============================================================================
