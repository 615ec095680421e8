--------------------------- MODULE ChatClientProofs ---------------------------
(***************************************************************************)
(* Proofs about ChatClient, for any number of clients, ids, names, rooms,    *)
(* retries and suffixes of one digit: the id a client uses is that of its    *)
(* registration, and its room the one it shows or, if the answer to a switch  *)
(* was lost, the one of that switch.                                         *)
(*                                                                           *)
(* The invariant follows what a client knows through the states of a         *)
(* request: what was asked for (CallOK), what was answered (AnswerOK), which *)
(* registration stands (StandingOK) and where the server has put it          *)
(* (PlaceOK), before and after the client has read the answer.               *)
(***************************************************************************)
EXTENDS ChatClient, TLAPS

Commands == {ROOM_LIST_REQUEST, MEMBER_LIST_REQUEST, SWITCH_ROOM_REQUEST, CREATE_ROOM_REQUEST}

\* What the programs of members send.
MemberTypes == Commands \cup {MEMBER_KEEP_ALIVE, QUIT_REQUEST}

\* Requests for a room of some name.
RoomCommands == {SWITCH_ROOM_REQUEST, CREATE_ROOM_REQUEST}

Registering(c) == pc[c] \in {"start", "register"}

\* The request is the one that belongs to the state, and something is left to try.
CallOK(c) ==
  /\ Registering(c) => request[c].type = REGISTER_REQUEST
  /\ pc[c] = "rejoin" => request[c] = Request(SWITCH_ROOM_REQUEST, last_channel[c])
  /\ pc[c] = "command" => request[c].type \in Commands
  /\ pc[c] = "heartbeat" => request[c].type = MEMBER_KEEP_ALIVE
  /\ pc[c] \in {"waiting", "ready"} => conn[c] = "none"
  /\ conn[c] = "sent" => request[c].type \in MemberTypes \cup {REGISTER_REQUEST}
  /\ request[c].type \in RoomCommands => request[c].room \in RoomNames
  /\ Calling(c) => attempts[c] >= 1
  /\ pc[c] \in {"register", "waiting"} => connect_retries[c] >= 1
  /\ pc[c] \in {"ready", "rejoin", "command", "heartbeat"} => member_id[c] # NULL

Moved(c) == conn[c] = "answered" /\ answer[c].type = SWITCH_ROOM_SUCC
Accepted(c) == conn[c] = "answered" /\ answer[c].type = REGISTER_SUCC

\* An answer of success is one to the request.
AnswerOK(c) ==
  /\ Accepted(c) => /\ request[c].type = REGISTER_REQUEST
                    /\ answer[c].id \in Ids
                    /\ standing[c] \in {NULL, answer[c].id}
  /\ Moved(c) => request[c].type = SWITCH_ROOM_REQUEST

\* A registration that stands is known to the server, and to a client that is not
\* about to register anew.
StandingOK(c) ==
  standing[c] # NULL =>
    /\ standing[c] \in Ids /\ name[standing[c]] # NULL
    /\ pc[c] \in {"ready", "rejoin", "command", "heartbeat"} => standing[c] = member_id[c]

\* Where the client is, by its channel and the answer it missed.
Place(c, channel) == IF missed[c] = NULL THEN channel ELSE missed[c]

\* The room it is in, between the answer and its being read too.
PlaceOK(c) ==
  standing[c] # NULL =>
    /\ pc[c] = "ready" => TitleOf(standing[c]) = Place(c, last_channel[c])
    /\ pc[c] \in {"command", "heartbeat"} =>
         TitleOf(standing[c]) = IF Moved(c) THEN request[c].room ELSE Place(c, last_channel[c])
    /\ pc[c] = "rejoin" =>
         TitleOf(standing[c]) = IF Moved(c) THEN last_channel[c] ELSE Place(c, Blank)
    /\ Registering(c) /\ Accepted(c) => TitleOf(standing[c]) = Blank

ClientOK(c) == CallOK(c) /\ AnswerOK(c) /\ StandingOK(c) /\ PlaceOK(c)

\* Who is not registered is in no room, and a room somebody is in exists.
PlacesOK ==
  \A i \in Ids : /\ name[i] = NULL => room[i] = NULL
                 /\ room[i] # NULL => room[i] \in rooms

\* Rooms that stay keep their names.
TitlesKept == \A h \in rooms : h \in rooms' => title'[h] = title[h]

ServerTypes ==
  /\ phase \in {"init", "up", "down"}
  /\ name \in [Ids -> Names \cup {NULL}] /\ room \in [Ids -> Rooms \cup {NULL}]
  /\ heard \subseteq Server!Online
  /\ rooms \subseteq Rooms /\ idle \subseteq rooms
  /\ title \in [Rooms -> (RoomNames \ LongNames) \cup {NULL}]

CallTypes ==
  /\ pc \in [Clients -> {"start", "register", "rejoin", "command", "heartbeat",
                         "ready", "waiting", "exited"}]
  /\ request \in [Clients -> [type : 0 .. QUIT_REQUEST, room : RoomNames \cup {NULL}]]
  /\ attempts \in [Clients -> 0 .. TCP_RETRIES]
  /\ conn \in [Clients -> {"none", "sent", "answered"}]
  /\ DOMAIN answer = Clients

SelfTypes ==
  /\ member_id \in [Clients -> Ids \cup {NULL}]
  /\ member_name \in [Clients -> Names]
  /\ last_channel \in [Clients -> RoomNames]
  /\ connect_retries \in [Clients -> 0 .. MAX_RETRIES]
  /\ suffix \in [Clients -> 1 .. MAX_SUFFIX + 1]

OtherTypes ==
  /\ air \subseteq Ids
  /\ standing \in [Clients -> Ids \cup {NULL}]
  /\ missed \in [Clients -> RoomNames \cup {NULL}]

IInv ==
  /\ ServerTypes /\ CallTypes /\ SelfTypes /\ OtherTypes
  /\ PlacesOK
  /\ \A c \in Clients : ClientOK(c)

-----------------------------------------------------------------------------
(* What the server does with a request. *)

\* The message types are distinct numbers.
LEMMA TypesDiffer ==
  /\ REGISTER_SUCC \notin MemberTypes /\ SWITCH_ROOM_SUCC \notin MemberTypes
  /\ REGISTER_REQUEST \notin MemberTypes /\ CHAT \notin MemberTypes
  /\ \A t \in MemberTypes : t + 2 # REGISTER_SUCC /\ t + 2 # SWITCH_ROOM_SUCC
BY DEF MemberTypes, Commands, REGISTER_REQUEST, REGISTER_SUCC, ROOM_LIST_REQUEST, CHAT,
       MEMBER_LIST_REQUEST, SWITCH_ROOM_REQUEST, SWITCH_ROOM_SUCC, CREATE_ROOM_REQUEST,
       MEMBER_KEEP_ALIVE, QUIT_REQUEST

\* A step of the server that neither registers anybody nor lets anybody change rooms.
Keeps ==
  /\ ServerTypes' /\ PlacesOK' /\ TitlesKept
  /\ reply'.type \notin {REGISTER_SUCC, SWITCH_ROOM_SUCC}
  /\ \A j \in Ids : name'[j] = NULL \/ (name'[j] = name[j] /\ room'[j] = room[j])

Registers ==
  /\ ServerTypes' /\ PlacesOK' /\ TitlesKept
  /\ reply'.type = REGISTER_SUCC
  /\ reply'.id \in Ids /\ name[reply'.id] = NULL /\ name'[reply'.id] # NULL
  /\ room' = room
  /\ \A j \in Ids : j # reply'.id => name'[j] = name[j]

Moves(i, r) ==
  /\ ServerTypes' /\ PlacesOK' /\ TitlesKept
  /\ reply'.type = SWITCH_ROOM_SUCC
  /\ i \in Ids
  /\ TitleOf(i)' = r /\ name' = name
  /\ \A j \in Ids : j # i => room'[j] = room[j]

\* The names are the same in the instance of ChatService.
LEMMA SameNames ==
  /\ Server!REGISTER_SUCC = REGISTER_SUCC /\ Server!REGISTER_FAIL = REGISTER_FAIL
  /\ Server!SWITCH_ROOM_SUCC = SWITCH_ROOM_SUCC /\ Server!NoReply = NoReply
  /\ \A t, i, d : Server!Reply(t, i, d) = Reply(t, i, d)
BY DEF Server!REGISTER_SUCC, REGISTER_SUCC, Server!REGISTER_FAIL, REGISTER_FAIL,
       Server!SWITCH_ROOM_SUCC, SWITCH_ROOM_SUCC, Server!NoReply, NoReply,
       Server!CHAT, CHAT, Server!Reply, Reply

LEMMA HandlesEffect ==
  ASSUME NEW c \in Clients, NEW type \in MemberTypes \cup {REGISTER_REQUEST},
         NEW i \in Ids \cup {NULL}, NEW r \in RoomNames \cup {NULL},
         type = CREATE_ROOM_REQUEST => r \in RoomNames,
         ServerTypes, PlacesOK, member_name[c] \in Names, Handles(c, type, i, r)
  PROVE  \/ Keeps
         \/ type = REGISTER_REQUEST /\ Registers
         \/ type = SWITCH_ROOM_REQUEST /\ Moves(i, r)
<1> USE ClientAssumption
<1>1. CASE type = REGISTER_REQUEST /\ Server!Register(member_name[c])
  <2>1. PICK j \in Ids : /\ j \notin Server!Online
                         /\ name' = [name EXCEPT ![j] = member_name[c]]
                         /\ heard' = heard \cup {j}
                         /\ reply' = Reply(REGISTER_SUCC, j, {})
    BY <1>1, SameNames DEF Server!Register
  <2>2. room' = room /\ phase' = phase /\ rooms' = rooms /\ title' = title /\ idle' = idle
    BY <1>1 DEF Server!Register
  <2>3. name[j] = NULL /\ name'[j] # NULL /\ \A k \in Ids : k # j => name'[k] = name[k]
    BY <2>1 DEF Server!Online, ServerTypes
  <2>4. heard' \subseteq Server!Online'
    BY <2>1, <2>3 DEF ServerTypes, Server!Online
  <2>5. ServerTypes'
    BY <2>1, <2>2, <2>4 DEF ServerTypes
  <2>6. PlacesOK'
    BY <2>2, <2>3 DEF PlacesOK
  <2> QED  BY <1>1, <2>1, <2>2, <2>3, <2>5, <2>6 DEF Registers, TitlesKept, Reply
<1>2. CASE type = SWITCH_ROOM_REQUEST /\ Server!Hear(i) /\ Server!SwitchRoom(i, r)
  <2>1. PICK h \in Server!Found(r) : /\ h # NULL
                                    /\ room' = [room EXCEPT ![i] = h]
                                    /\ idle' = idle \ {h}
    BY <1>2 DEF Server!SwitchRoom, Server!Enterable
  <2>2. h \in rooms /\ title[h] = r
    BY <2>1 DEF Server!Found, Server!Named
  <2>3. /\ i \in Ids /\ name[i] # NULL
        /\ heard' = heard \cup {i}
        /\ name' = name /\ phase' = phase /\ rooms' = rooms /\ title' = title
        /\ reply' = Reply(SWITCH_ROOM_SUCC, i, {})
    BY <1>2, SameNames DEF Server!SwitchRoom, Server!Hear, Server!Online
  <2>4. heard' \subseteq Server!Online'
    BY <2>3 DEF ServerTypes, Server!Online
  <2>5. ServerTypes'
    BY <2>1, <2>2, <2>3, <2>4 DEF ServerTypes
  <2>6. PlacesOK'
    BY <2>1, <2>2, <2>3 DEF PlacesOK, ServerTypes
  <2>7. TitleOf(i)' = r /\ \A j \in Ids : j # i => room'[j] = room[j]
    BY <2>1, <2>2, <2>3 DEF TitleOf, ServerTypes
  <2> QED  BY <1>2, <2>3, <2>5, <2>6, <2>7 DEF Moves, TitlesKept, Reply
<1>3. CASE Server!Quit(i)
  <2>1. /\ i \in Ids
        /\ name' = [name EXCEPT ![i] = NULL] /\ room' = [room EXCEPT ![i] = NULL]
        /\ heard' = heard \ {i} /\ reply' = NoReply
        /\ phase' = phase /\ rooms' = rooms /\ title' = title /\ idle' = idle
    BY <1>3, SameNames DEF Server!Quit, Server!Online
  <2>2. heard' \subseteq Server!Online'
    BY <2>1 DEF ServerTypes, Server!Online
  <2>3. ServerTypes'
    BY <2>1, <2>2 DEF ServerTypes
  <2>4. PlacesOK'
    BY <2>1 DEF PlacesOK, ServerTypes
  <2>5. reply'.type \notin {REGISTER_SUCC, SWITCH_ROOM_SUCC}
    BY <2>1 DEF NoReply, Reply, CHAT, REGISTER_SUCC, SWITCH_ROOM_SUCC
  <2> QED  BY <2>1, <2>3, <2>4, <2>5 DEF Keeps, TitlesKept, ServerTypes
<1>4. CASE /\ Server!Hear(i)
           /\ \/ type = CREATE_ROOM_REQUEST /\ Server!CreateRoom(i, r)
              \/ Server!CreateRefused(i, r) \/ Server!CreateDies(i, r)
              \/ Server!KeepAlive(i) \/ Server!ListRooms(i) \/ Server!ListMembers(i, r)
              \/ Server!SwitchRefused(i, r)
  <2>1. /\ i \in Ids /\ name[i] # NULL
        /\ heard' = heard \cup {i} /\ name' = name /\ room' = room /\ idle' = idle
        /\ phase' \in {"init", "up", "down"}
    BY <1>4 DEF Server!CreateRoom, Server!CreateRefused, Server!CreateDies, Server!KeepAlive,
      Server!ListRooms, Server!ListMembers, Server!SwitchRefused, Server!Hear, Server!Online
  <2>2. UNCHANGED <<rooms, title>> \/ (r \in RoomNames /\ Server!Creates(r))
    BY <1>4 DEF Server!CreateRoom, Server!CreateRefused, Server!CreateDies, Server!KeepAlive,
      Server!ListRooms, Server!ListMembers, Server!SwitchRefused
  <2>3. /\ rooms' \subseteq Rooms /\ rooms \subseteq rooms'
        /\ title' \in [Rooms -> (RoomNames \ LongNames) \cup {NULL}]
        /\ TitlesKept
    <3>1. CASE UNCHANGED <<rooms, title>>
      BY <3>1 DEF ServerTypes, TitlesKept
    <3>2. CASE r \in RoomNames /\ Server!Creates(r)
      <4>1. PICK h \in Rooms \ rooms : /\ rooms' = rooms \cup {h}
                                      /\ title' = [title EXCEPT ![h] = r]
        BY <3>2 DEF Server!Creates
      <4>2. r \notin LongNames
        BY <3>2 DEF Server!Creates, Server!Creatable
      <4> QED  BY <3>2, <4>1, <4>2 DEF ServerTypes, TitlesKept
    <3> QED  BY <2>2, <3>1, <3>2
  <2>4. reply'.type \notin {REGISTER_SUCC, SWITCH_ROOM_SUCC}
    BY <1>4 DEF Server!CreateRoom, Server!CreateRefused, Server!CreateDies, Server!KeepAlive,
      Server!ListRooms, Server!ListMembers, Server!SwitchRefused, Server!NoReply, Server!Reply,
      Server!CHAT, Server!SWITCH_ROOM_FAIL, Server!CREATE_ROOM_SUCC, Server!CREATE_ROOM_FAIL,
      Server!ROOM_LIST_SUCC, Server!ROOM_LIST_FAIL, Server!MEMBER_LIST_SUCC,
      Server!MEMBER_LIST_FAIL, REGISTER_SUCC, SWITCH_ROOM_SUCC
  <2>5. heard' \subseteq Server!Online'
    BY <2>1 DEF ServerTypes, Server!Online
  <2>6. ServerTypes'
    BY <2>1, <2>3, <2>5 DEF ServerTypes
  <2>7. PlacesOK'
    BY <2>1, <2>3 DEF PlacesOK
  <2> QED  BY <2>1, <2>3, <2>4, <2>6, <2>7 DEF Keeps
<1>5. CASE \/ type # REGISTER_REQUEST /\ Server!Unknown(type, i)
           \/ Server!RegisterRefused(member_name[c])
  <2>1. UNCHANGED <<phase, name, room, heard, rooms, title, idle>>
    BY <1>5 DEF Server!Unknown, Server!RegisterRefused
  <2>2. reply'.type \notin {REGISTER_SUCC, SWITCH_ROOM_SUCC}
    BY <1>5, TypesDiffer, SameNames DEF Server!Unknown, Server!RegisterRefused, Reply,
      REGISTER_SUCC, SWITCH_ROOM_SUCC, REGISTER_FAIL
  <2>3. ServerTypes' /\ PlacesOK'
    BY <2>1 DEF ServerTypes, PlacesOK, Server!Online
  <2> QED  BY <2>1, <2>2, <2>3 DEF Keeps, TitlesKept
<1> QED  BY <1>1, <1>2, <1>3, <1>4, <1>5 DEF Handles

-----------------------------------------------------------------------------
(* Steps of the server. *)

\* Who stays in its room stays in one of that name.
LEMMA StaysShown ==
  ASSUME NEW c \in Clients, PlacesOK, PlacesOK', TitlesKept,
         standing'[c] = standing[c], standing[c] \in Ids,
         room'[standing[c]] = room[standing[c]]
  PROVE  TitleOf(standing[c])' = TitleOf(standing[c])
<1>1. TitleOf(standing[c]) = IF room[standing[c]] = NULL THEN Blank ELSE title[room[standing[c]]]
  BY DEF TitleOf
<1>2. TitleOf(standing[c])'
        = IF room'[standing'[c]] = NULL THEN Blank ELSE title'[room'[standing'[c]]]
  BY DEF TitleOf
<1>3. room[standing[c]] # NULL => room[standing[c]] \in rooms /\ room[standing[c]] \in rooms'
  BY DEF PlacesOK
<1> QED  BY <1>1, <1>2, <1>3 DEF TitlesKept

\* What StillStanding keeps, for clients other than the one that is served.
LEMMA OthersStand ==
  ASSUME IInv, NEW c \in Clients \cup {NULL}, StillStanding(c),
         NEW d \in Clients, d # c,
         UNCHANGED <<pc, request, attempts, selfVars>>,
         conn'[d] = conn[d], answer'[d] = answer[d], missed'[d] = missed[d],
         PlacesOK', TitlesKept
  PROVE  ClientOK(d)'
<1> USE ClientAssumption
<1>1. /\ pc'[d] = pc[d] /\ request'[d] = request[d] /\ attempts'[d] = attempts[d]
      /\ member_id'[d] = member_id[d] /\ last_channel'[d] = last_channel[d]
      /\ connect_retries'[d] = connect_retries[d]
  BY DEF selfVars
<1>2. \/ standing'[d] = NULL
      \/ /\ standing'[d] = standing[d] /\ standing[d] # NULL
         /\ name'[standing[d]] # NULL /\ room'[standing[d]] = room[standing[d]]
  BY DEF StillStanding
<1>3. CallOK(d) /\ AnswerOK(d) /\ StandingOK(d) /\ PlaceOK(d)
  BY DEF IInv, ClientOK
<1>8. standing'[d] # NULL => TitleOf(standing[d])' = TitleOf(standing[d])
  BY <1>2, <1>3, StaysShown DEF IInv, StandingOK
<1>4. CallOK(d)'
  BY <1>1, <1>3 DEF CallOK, Registering, Calling
<1>5. AnswerOK(d)'
  BY <1>1, <1>2, <1>3 DEF AnswerOK, Accepted, Moved
<1>6. StandingOK(d)'
  BY <1>1, <1>2, <1>3 DEF StandingOK
<1>7. PlaceOK(d)'
  BY <1>1, <1>2, <1>3, <1>8 DEF PlaceOK, Place, Accepted, Moved, Registering
<1> QED  BY <1>4, <1>5, <1>6, <1>7 DEF ClientOK

LEMMA ServeStep ==
  ASSUME IInv, NEW c \in Clients, Serve(c)
  PROVE  IInv'
<1> USE ClientAssumption
<1> DEFINE i == member_id[c]
           r == request[c].room
           type == request[c].type
<1>1. /\ conn[c] = "sent" /\ Handles(c, type, i, r) /\ StillStanding(c)
      /\ conn' = [conn EXCEPT ![c] = "answered"] /\ answer' = [answer EXCEPT ![c] = reply']
      /\ UNCHANGED <<pc, request, attempts, selfVars, air, missed>>
  BY DEF Serve
<1>2. CallOK(c) /\ AnswerOK(c) /\ StandingOK(c) /\ PlaceOK(c)
  BY DEF IInv, ClientOK
<1>3. /\ type \in MemberTypes \cup {REGISTER_REQUEST} /\ i \in Ids \cup {NULL}
      /\ r \in RoomNames \cup {NULL} /\ member_name[c] \in Names
      /\ type = CREATE_ROOM_REQUEST => r \in RoomNames
  BY <1>1, <1>2 DEF CallOK, RoomCommands, IInv, CallTypes, SelfTypes
<1>4. \/ Keeps
      \/ type = REGISTER_REQUEST /\ Registers
      \/ type = SWITCH_ROOM_REQUEST /\ Moves(i, r)
  <2> HIDE DEF i, r, type
  <2> QED  BY <1>1, <1>3, HandlesEffect DEF IInv
<1>5. ServerTypes' /\ PlacesOK' /\ TitlesKept
  BY <1>4 DEF Keeps, Registers, Moves
<1>6. CallTypes' /\ SelfTypes'
  BY <1>1 DEF IInv, CallTypes, SelfTypes, selfVars
<1>7. /\ conn'[c] = "answered" /\ answer'[c] = reply'
      /\ \A d \in Clients : d # c => conn'[d] = conn[d] /\ answer'[d] = answer[d]
  BY <1>1 DEF IInv, CallTypes
<1>8. \A d \in Clients : d # c => ClientOK(d)'
  BY <1>1, <1>5, <1>7, OthersStand
<1>9. /\ pc'[c] = pc[c] /\ request'[c] = request[c] /\ attempts'[c] = attempts[c]
      /\ member_id'[c] = member_id[c] /\ last_channel'[c] = last_channel[c]
      /\ connect_retries'[c] = connect_retries[c] /\ missed'[c] = missed[c]
  BY <1>1 DEF selfVars
<1>10. standing'[c] = IF reply'.type = REGISTER_SUCC THEN reply'.id
                      ELSE IF standing[c] = NULL \/ name'[standing[c]] = NULL THEN NULL
                      ELSE standing[c]
  BY <1>1 DEF StillStanding
<1>11. /\ Accepted(c)' <=> reply'.type = REGISTER_SUCC
       /\ Moved(c)' <=> reply'.type = SWITCH_ROOM_SUCC
  BY <1>7 DEF Accepted, Moved
<1>12. standing[c] # NULL => standing[c] \in Ids
  BY <1>2 DEF StandingOK
<1>13. CallOK(c)'
  BY <1>1, <1>2, <1>7, <1>9 DEF CallOK, Registering, Calling
<1>14. REGISTER_SUCC # SWITCH_ROOM_SUCC /\ REGISTER_REQUEST # SWITCH_ROOM_REQUEST
       /\ REGISTER_REQUEST \notin Commands \cup {MEMBER_KEEP_ALIVE}
       /\ MEMBER_KEEP_ALIVE # SWITCH_ROOM_REQUEST
  BY DEF REGISTER_SUCC, SWITCH_ROOM_SUCC, REGISTER_REQUEST, SWITCH_ROOM_REQUEST, Commands,
         MEMBER_KEEP_ALIVE, ROOM_LIST_REQUEST, MEMBER_LIST_REQUEST, CREATE_ROOM_REQUEST
<1>15. ASSUME Keeps PROVE ClientOK(c)'
  <2>1. /\ ~ Accepted(c)' /\ ~ Moved(c)'
        /\ standing'[c] # NULL => /\ standing'[c] = standing[c] /\ standing[c] \in Ids
                                  /\ name'[standing[c]] # NULL
                                  /\ room'[standing[c]] = room[standing[c]]
    BY <1>10, <1>11, <1>12, <1>15 DEF Keeps
  <2>6. standing'[c] # NULL => TitleOf(standing[c])' = TitleOf(standing[c])
    BY <2>1, <1>5, StaysShown DEF IInv
  <2>2. ~ Moved(c) /\ ~ Accepted(c)
    BY <1>1 DEF Moved, Accepted
  <2>3. AnswerOK(c)'
    BY <2>1 DEF AnswerOK
  <2>4. StandingOK(c)'
    BY <2>1, <1>2, <1>9 DEF StandingOK
  <2>5. PlaceOK(c)'
    BY <2>1, <2>2, <2>6, <1>2, <1>9 DEF PlaceOK, Place, Registering
  <2> QED  BY <1>13, <2>3, <2>4, <2>5 DEF ClientOK
<1>16. ASSUME type = REGISTER_REQUEST, Registers PROVE ClientOK(c)'
  <2>1. /\ Accepted(c)' /\ ~ Moved(c)' /\ standing'[c] = reply'.id
        /\ reply'.id \in Ids /\ name'[reply'.id] # NULL
        /\ room'[reply'.id] = NULL
    BY <1>10, <1>11, <1>14, <1>16 DEF Registers, PlacesOK, IInv
  <2>7. TitleOf(standing[c])' = Blank
    BY <2>1 DEF TitleOf
  <2>2. pc[c] \in {"start", "register", "waiting", "ready", "exited"}
    BY <1>2, <1>14, <1>16 DEF CallOK, IInv, CallTypes, Request
  <2>3. pc[c] \in {"start", "register", "exited"}
    BY <2>2, <1>1, <1>2 DEF CallOK
  <2>4. AnswerOK(c)'
    BY <2>1, <1>9, <1>7, <1>16 DEF AnswerOK
  <2>5. StandingOK(c)'
    BY <2>1, <2>3, <1>9 DEF StandingOK
  <2>6. PlaceOK(c)'
    BY <2>1, <2>3, <2>7, <1>9 DEF PlaceOK
  <2> QED  BY <1>13, <2>4, <2>5, <2>6 DEF ClientOK
<1>17. ASSUME type = SWITCH_ROOM_REQUEST, Moves(i, r) PROVE ClientOK(c)'
  <2>1. /\ Moved(c)' /\ ~ Accepted(c)'
        /\ standing'[c] # NULL => standing'[c] = standing[c] /\ standing[c] \in Ids
                                  /\ name'[standing[c]] # NULL
    BY <1>10, <1>11, <1>12, <1>14, <1>17 DEF Moves
  <2>2. pc[c] \in {"rejoin", "command", "exited"}
    BY <1>1, <1>2, <1>14, <1>17 DEF CallOK, IInv, CallTypes, Registering
  <2>3. pc[c] = "rejoin" => r = last_channel[c]
    BY <1>2 DEF CallOK, Request
  <2>7. standing'[c] = i => TitleOf(standing[c])' = r
    <3>1. TitleOf(i)' = r /\ i' = i
      BY <1>9, <1>17 DEF Moves
    <3> HIDE DEF i
    <3> QED  BY <3>1 DEF TitleOf
  <2>4. AnswerOK(c)'
    BY <2>1, <1>9, <1>17 DEF AnswerOK
  <2>5. StandingOK(c)'
    BY <2>1, <1>2, <1>9 DEF StandingOK
  <2>6. PlaceOK(c)'
    BY <2>1, <2>2, <2>3, <2>7, <1>2, <1>9 DEF PlaceOK, StandingOK, Registering
  <2> QED  BY <1>13, <2>4, <2>5, <2>6 DEF ClientOK
<1>18. OtherTypes'
  <2>1. reply'.type = REGISTER_SUCC => reply'.id \in Ids
    BY <1>4, <1>14 DEF Keeps, Registers, Moves
  <2> QED  BY <1>1, <2>1 DEF IInv, OtherTypes, StillStanding
<1> QED  BY <1>4, <1>5, <1>6, <1>8, <1>15, <1>16, <1>17, <1>18 DEF IInv

\* A client nothing happens to.
Unaffected(d) ==
  /\ pc'[d] = pc[d] /\ request'[d] = request[d] /\ attempts'[d] = attempts[d]
  /\ conn'[d] = conn[d] /\ answer'[d] = answer[d] /\ member_id'[d] = member_id[d]
  /\ last_channel'[d] = last_channel[d] /\ connect_retries'[d] = connect_retries[d]
  /\ standing'[d] = standing[d] /\ missed'[d] = missed[d]

LEMMA Bystander ==
  ASSUME NEW d \in Clients, ClientOK(d), Unaffected(d), name' = name, room' = room, title' = title
  PROVE  ClientOK(d)'
<1>1. CallOK(d)'
  BY DEF ClientOK, CallOK, Unaffected, Registering, Calling
<1>2. AnswerOK(d)'
  BY DEF ClientOK, AnswerOK, Unaffected, Accepted, Moved
<1>3. StandingOK(d)'
  BY DEF ClientOK, StandingOK, Unaffected
<1>4. PlaceOK(d)'
  BY DEF ClientOK, PlaceOK, Place, TitleOf, Unaffected, Accepted, Moved, Registering
<1> QED  BY <1>1, <1>2, <1>3, <1>4 DEF ClientOK

LEMMA RelayStep ==
  ASSUME IInv, NEW i \in air, Relay(i)
  PROVE  IInv'
<1>1. /\ phase' = phase /\ name' = name /\ room' = room
      /\ rooms' = rooms /\ title' = title /\ idle' = idle
      /\ heard' = heard \/ (i \in Server!Online /\ heard' = heard \cup {i})
      /\ air' = air \ {i}
      /\ UNCHANGED <<pc, callVars, selfVars, history>>
  BY DEF Relay, Server!Chat, Server!Hear, Server!Ignored, ClientsQuiet
<1>2. heard' \subseteq Server!Online'
  BY <1>1 DEF IInv, ServerTypes, Server!Online
<1>3. ServerTypes' /\ PlacesOK'
  BY <1>1, <1>2 DEF IInv, ServerTypes, PlacesOK
<1>4. CallTypes' /\ SelfTypes' /\ OtherTypes'
  BY <1>1 DEF IInv, CallTypes, SelfTypes, OtherTypes, callVars, selfVars, history
<1>5. ASSUME NEW d \in Clients PROVE ClientOK(d)'
  <2>1. Unaffected(d)
    BY <1>1 DEF Unaffected, callVars, selfVars, history
  <2> QED  BY <1>1, <2>1, Bystander DEF IInv
<1> QED  BY <1>3, <1>4, <1>5 DEF IInv

\* Only clients in rooms see the names of rooms.
LEMMA UnplacedStep ==
  ASSUME IInv, name' = name, room' = room, ServerTypes', PlacesOK', TitlesKept,
         UNCHANGED <<pc, callVars, selfVars, air, history>>
  PROVE  IInv'
<1>1. CallTypes' /\ SelfTypes' /\ OtherTypes'
  BY DEF IInv, CallTypes, SelfTypes, OtherTypes, callVars, selfVars, history
<1>2. ASSUME NEW d \in Clients PROVE ClientOK(d)'
  <2>1. ClientOK(d) /\ Unaffected(d)
    BY DEF IInv, Unaffected, callVars, selfVars, history
  <2>2. CallOK(d)' /\ AnswerOK(d)' /\ StandingOK(d)'
    BY <2>1 DEF ClientOK, CallOK, AnswerOK, StandingOK, Unaffected, Registering, Calling,
      Accepted, Moved
  <2>3. standing[d] # NULL => TitleOf(standing[d])' = TitleOf(standing[d])
    BY <2>1, StaysShown DEF IInv, ClientOK, StandingOK, Unaffected
  <2>4. PlaceOK(d)'
    BY <2>1, <2>3 DEF ClientOK, PlaceOK, Place, Unaffected, Accepted, Moved, Registering
  <2> QED  BY <2>2, <2>4 DEF ClientOK
<1> QED  BY <1>1, <1>2 DEF IInv

LEMMA BootStep ==
  ASSUME IInv, Boot
  PROVE  IInv'
<1>1. /\ name' = name /\ room' = room /\ heard' = heard /\ idle' = idle
      /\ phase' \in {"init", "up", "down"}
      /\ UNCHANGED <<pc, callVars, selfVars, air, history>>
  BY DEF Boot, Server!Start, Server!LoadRoom, ClientsQuiet, IInv, ServerTypes
<1>2. heard' \subseteq Server!Online'
  BY <1>1 DEF IInv, ServerTypes, Server!Online
<1>3. /\ rooms' \subseteq Rooms /\ rooms \subseteq rooms'
      /\ title' \in [Rooms -> (RoomNames \ LongNames) \cup {NULL}]
      /\ TitlesKept
  <2>1. CASE Server!Start
    BY <2>1 DEF Server!Start, IInv, ServerTypes, TitlesKept
  <2>2. ASSUME NEW r \in RoomNames \ {Blank}, Server!LoadRoom(r)
        PROVE  /\ rooms' \subseteq Rooms /\ rooms \subseteq rooms'
               /\ title' \in [Rooms -> (RoomNames \ LongNames) \cup {NULL}]
               /\ TitlesKept
    <3>1. PICK h \in Rooms \ rooms : /\ rooms' = rooms \cup {h}
                                    /\ title' = [title EXCEPT ![h] = r]
      BY <2>2 DEF Server!LoadRoom, Server!Creates
    <3>2. r \notin LongNames
      BY <2>2 DEF Server!LoadRoom, Server!Creates, Server!Creatable
    <3> QED  BY <2>2, <3>1, <3>2 DEF IInv, ServerTypes, TitlesKept
  <2> QED  BY <2>1, <2>2 DEF Boot
<1>4. ServerTypes' /\ PlacesOK'
  BY <1>1, <1>2, <1>3 DEF IInv, ServerTypes, PlacesOK
<1> QED  BY <1>1, <1>3, <1>4, UnplacedStep

\* Registrations are only lost.
LEMMA LossStep ==
  ASSUME IInv, StillStanding(NULL), reply' = NoReply, ServerTypes', PlacesOK', TitlesKept,
         UNCHANGED <<pc, callVars, selfVars, missed>>, air' \subseteq air
  PROVE  IInv'
<1>1. NULL \notin Clients
  BY ClientAssumption
<1>2. CallTypes' /\ SelfTypes'
  BY DEF IInv, CallTypes, SelfTypes, callVars, selfVars
<1>3. OtherTypes'
  BY <1>1 DEF IInv, OtherTypes, StillStanding
<1>4. ASSUME NEW d \in Clients PROVE ClientOK(d)'
  BY <1>1, OthersStand DEF callVars
<1> QED  BY <1>2, <1>3, <1>4 DEF IInv

LEMMA SweepStep ==
  ASSUME IInv, Sweep
  PROVE  IInv'
<1>1. /\ phase' = phase
      /\ name' = [i \in Ids |-> IF i \in heard THEN name[i] ELSE NULL]
      /\ room' = [i \in Ids |-> IF i \in heard THEN room[i] ELSE NULL]
      /\ heard' = {} /\ rooms' \subseteq rooms
      /\ reply' = NoReply
      /\ title' = [h \in Rooms |-> IF h \in rooms' THEN title[h] ELSE NULL]
      /\ StillStanding(NULL)
      /\ UNCHANGED <<pc, callVars, selfVars, air, missed>>
  BY SameNames DEF Sweep, Server!Sweep, Server!HeardAfter, ClientsQuiet
<1>2. idle' \subseteq rooms'
  BY DEF Sweep, Server!Sweep
<1>3. heard' \subseteq Server!Online'
  BY <1>1
<1>4. ServerTypes'
  BY <1>1, <1>2, <1>3 DEF IInv, ServerTypes
<1>5. ASSUME NEW i \in Ids, i \in heard, room[i] # NULL PROVE room[i] \in rooms'
  BY <1>5 DEF IInv, PlacesOK, ServerTypes, Sweep, Server!Sweep, Server!Occupants
<1>6. PlacesOK' /\ TitlesKept
  BY <1>1, <1>5 DEF IInv, PlacesOK, ServerTypes, TitlesKept
<1> QED  BY <1>1, <1>4, <1>6, LossStep

LEMMA RestartStep ==
  ASSUME IInv, Restart
  PROVE  IInv'
<1>1. ServerTypes' /\ PlacesOK' /\ TitlesKept
  BY DEF Restart, ServerTypes, PlacesOK, TitlesKept, Server!Online
<1> QED  BY <1>1, LossStep DEF Restart, ClientsQuiet

LEMMA CrashStep ==
  ASSUME IInv, Crash
  PROVE  IInv'
<1>1. /\ name' = name /\ room' = room /\ heard' = heard
      /\ rooms' = rooms /\ title' = title /\ idle' = idle
      /\ phase' = "down" /\ air' = {}
      /\ UNCHANGED <<pc, callVars, selfVars, history>>
  BY DEF Crash, ClientsQuiet
<1>2. ServerTypes' /\ PlacesOK'
  BY <1>1 DEF IInv, ServerTypes, PlacesOK, Server!Online
<1>3. CallTypes' /\ SelfTypes' /\ OtherTypes'
  BY <1>1 DEF IInv, CallTypes, SelfTypes, OtherTypes, callVars, selfVars, history
<1>4. ASSUME NEW d \in Clients PROVE ClientOK(d)'
  <2>1. Unaffected(d)
    BY <1>1 DEF Unaffected, callVars, selfVars, history
  <2> QED  BY <1>1, <2>1, Bystander DEF IInv
<1> QED  BY <1>2, <1>3, <1>4 DEF IInv

-----------------------------------------------------------------------------
(* Steps of a client. *)

CallSame(d) ==
  /\ pc'[d] = pc[d] /\ request'[d] = request[d] /\ attempts'[d] = attempts[d]
  /\ conn'[d] = conn[d] /\ answer'[d] = answer[d]

SelfSame(d) ==
  /\ member_id'[d] = member_id[d] /\ last_channel'[d] = last_channel[d]
  /\ connect_retries'[d] = connect_retries[d]

HistorySame(d) == standing'[d] = standing[d] /\ missed'[d] = missed[d]

LEMMA OwnStep ==
  ASSUME IInv, NEW c \in Clients, ServerQuiet, CallTypes', SelfTypes', OtherTypes',
         \A d \in Clients : d # c => CallSame(d) /\ SelfSame(d) /\ HistorySame(d),
         ClientOK(c)'
  PROVE  IInv'
<1>1. UNCHANGED <<phase, name, room, heard, rooms, title, idle>>
  BY DEF ServerQuiet, svars
<1>2. ServerTypes' /\ PlacesOK'
  BY <1>1 DEF IInv, ServerTypes, PlacesOK, Server!Online
<1>3. ASSUME NEW d \in Clients, d # c PROVE ClientOK(d)'
  <2>1. Unaffected(d)
    BY <1>3 DEF Unaffected, CallSame, SelfSame, HistorySame
  <2> QED  BY <1>1, <2>1, Bystander DEF IInv
<1> QED  BY <1>2, <1>3 DEF IInv

LEMMA CallsEffect ==
  ASSUME CallTypes, NEW c \in Clients, NEW label \in {"start", "register", "rejoin", "command", "heartbeat"},
         NEW req \in [type : 0 .. QUIT_REQUEST, room : RoomNames \cup {NULL}],
         Calls(c, label, req)
  PROVE  /\ CallTypes'
         /\ pc'[c] = label /\ request'[c] = req /\ attempts'[c] = TCP_RETRIES
         /\ conn'[c] = "none"
         /\ \A d \in Clients : d # c => CallSame(d)
BY ClientAssumption DEF CallTypes, Calls, CallSame

LEMMA RestsEffect ==
  ASSUME CallTypes, NEW c \in Clients, NEW label \in {"ready", "waiting", "exited"},
         Rests(c, label)
  PROVE  /\ CallTypes'
         /\ pc'[c] = label /\ request'[c] = NoRequest /\ conn'[c] = "none"
         /\ \A d \in Clients : d # c => CallSame(d)
BY ClientAssumption DEF CallTypes, Rests, CallSame, NoRequest, Request, CHAT, QUIT_REQUEST

\* A client that rests: what it believes of itself is what the server has.
LEMMA RestedOK ==
  ASSUME NEW c \in Clients, NEW label \in {"ready", "waiting", "exited"},
         pc'[c] = label, request'[c] = NoRequest, conn'[c] = "none",
         label = "waiting" => connect_retries'[c] >= 1,
         label = "ready" => member_id'[c] # NULL,
         standing'[c] # NULL =>
           /\ standing'[c] \in Ids /\ name'[standing'[c]] # NULL
           /\ label = "ready" => /\ standing'[c] = member_id'[c]
                                /\ TitleOf(standing[c])' = Place(c, last_channel[c])'
  PROVE  ClientOK(c)'
<1>1. CallOK(c)'
  BY DEF CallOK, Registering, Calling, NoRequest, Request, CHAT, RoomCommands,
    SWITCH_ROOM_REQUEST, CREATE_ROOM_REQUEST
<1>2. AnswerOK(c)'
  BY DEF AnswerOK, Accepted, Moved
<1>3. StandingOK(c)'
  BY DEF StandingOK
<1>4. PlaceOK(c)'
  BY DEF PlaceOK, Registering, Accepted, Moved
<1> QED  BY <1>1, <1>2, <1>3, <1>4 DEF ClientOK

\* The request asked for in a state.
Fits(label, req, channel) ==
  /\ label \in {"start", "register"} => req.type = REGISTER_REQUEST
  /\ label = "rejoin" => req = Request(SWITCH_ROOM_REQUEST, channel)
  /\ label = "command" => req.type \in Commands
  /\ label = "heartbeat" => req.type = MEMBER_KEEP_ALIVE
  /\ req.type \in RoomCommands => req.room \in RoomNames

\* A client about to ask.
LEMMA CalledOK ==
  ASSUME NEW c \in Clients,
         NEW label \in {"start", "register", "rejoin", "command", "heartbeat"},
         pc'[c] = label, attempts'[c] \in Nat \ {0}, conn'[c] = "none",
         Fits(label, request'[c], last_channel'[c]),
         label = "register" => connect_retries'[c] >= 1,
         label \in {"rejoin", "command", "heartbeat"} => member_id'[c] # NULL,
         standing'[c] # NULL =>
           /\ standing'[c] \in Ids /\ name'[standing'[c]] # NULL
           /\ label \in {"rejoin", "command", "heartbeat"} => standing'[c] = member_id'[c]
           /\ label \in {"command", "heartbeat"} =>
                TitleOf(standing[c])' = Place(c, last_channel[c])'
           /\ label = "rejoin" => TitleOf(standing[c])' = Place(c, Blank)'
  PROVE  ClientOK(c)'
<1>1. CallOK(c)'
  BY DEF CallOK, Registering, Calling, Fits
<1>2. AnswerOK(c)'
  BY DEF AnswerOK, Accepted, Moved
<1>3. StandingOK(c)'
  BY DEF StandingOK
<1>4. PlaceOK(c)'
  BY DEF PlaceOK, Registering, Accepted, Moved
<1> QED  BY <1>1, <1>2, <1>3, <1>4 DEF ClientOK

LEMMA ConnectStep ==
  ASSUME IInv, NEW c \in Clients, Connect(c)
  PROVE  IInv'
<1>1. /\ Calling(c) /\ conn[c] = "none" /\ conn' = [conn EXCEPT ![c] = "sent"]
      /\ ServerQuiet /\ UNCHANGED <<pc, request, attempts, answer, selfVars, air, history>>
  BY DEF Connect
<1>2. CallTypes' /\ SelfTypes' /\ OtherTypes'
  BY <1>1 DEF IInv, CallTypes, SelfTypes, OtherTypes, selfVars, history
<1>3. \A d \in Clients : d # c => CallSame(d) /\ SelfSame(d) /\ HistorySame(d)
  BY <1>1 DEF CallSame, SelfSame, HistorySame, selfVars, history, IInv, CallTypes
<1>4. /\ pc'[c] = pc[c] /\ request'[c] = request[c] /\ attempts'[c] = attempts[c]
      /\ SelfSame(c) /\ HistorySame(c) /\ standing'[c] = standing[c] /\ conn'[c] = "sent"
      /\ name' = name /\ room' = room /\ title' = title
  BY <1>1 DEF SelfSame, HistorySame, selfVars, history, IInv, CallTypes, ServerQuiet, svars
<1>5. CallOK(c) /\ StandingOK(c) /\ PlaceOK(c) /\ ~ Moved(c)
  BY <1>1 DEF IInv, ClientOK, Moved
<1>6. request[c].type \in MemberTypes \cup {REGISTER_REQUEST}
  BY <1>1, <1>5 DEF CallOK, Calling, Registering, Request, Commands, MemberTypes
<1>7. CallOK(c)'
  BY <1>1, <1>4, <1>5, <1>6 DEF CallOK, Calling, Registering, SelfSame
<1>8. AnswerOK(c)' /\ ~ Accepted(c)' /\ ~ Moved(c)'
  BY <1>4 DEF AnswerOK, Accepted, Moved
<1>9. StandingOK(c)'
  BY <1>4, <1>5 DEF StandingOK, SelfSame
<1>10. PlaceOK(c)'
  BY <1>4, <1>5, <1>8 DEF PlaceOK, Place, TitleOf, SelfSame, HistorySame, Registering
<1> QED  BY <1>1, <1>2, <1>3, <1>7, <1>8, <1>9, <1>10, OwnStep DEF ClientOK

\* A client that got no answer waits, or gives up.
LEMMA DisconnectedStep ==
  ASSUME IInv, NEW c \in Clients, Calling(c), Disconnected(c), ServerQuiet, air' = air,
         standing' = standing, missed' \in [Clients -> RoomNames \cup {NULL}],
         \A d \in Clients : d # c => missed'[d] = missed[d]
  PROVE  IInv'
<1> DEFINE left == IF pc[c] = "register" THEN connect_retries[c] - 1 ELSE MAX_RETRIES
           label == IF left = 0 THEN "exited" ELSE "waiting"
<1>1. /\ Rests(c, label) /\ connect_retries' = [connect_retries EXCEPT ![c] = left]
      /\ UNCHANGED <<member_id, member_name, last_channel, suffix>>
  BY DEF Disconnected
<1>2. left \in 0 .. MAX_RETRIES
  BY ClientAssumption DEF IInv, ClientOK, CallOK, SelfTypes
<1>3. /\ CallTypes' /\ pc'[c] = label /\ request'[c] = NoRequest /\ conn'[c] = "none"
      /\ \A d \in Clients : d # c => CallSame(d)
  <2> HIDE DEF left
  <2> QED  BY <1>1, RestsEffect DEF IInv
<1>4. SelfTypes' /\ OtherTypes'
  <2> HIDE DEF left
  <2> QED  BY <1>1, <1>2 DEF IInv, SelfTypes, OtherTypes
<1>5. \A d \in Clients : d # c => SelfSame(d) /\ HistorySame(d)
  <2> HIDE DEF left
  <2> QED  BY <1>1 DEF SelfSame, HistorySame, IInv, SelfTypes, OtherTypes
<1>6. /\ connect_retries'[c] = left
      /\ standing'[c] # NULL => /\ standing'[c] = standing[c] /\ standing[c] \in Ids
                                /\ name'[standing[c]] # NULL
  <2> HIDE DEF left
  <2> QED  BY <1>1 DEF IInv, SelfTypes, OtherTypes, ClientOK, StandingOK, ServerQuiet, svars
<1>7. ClientOK(c)'
  <2>1. label \in {"ready", "waiting", "exited"} /\ label # "ready"
    OBVIOUS
  <2>2. label = "waiting" => connect_retries'[c] >= 1
    <3> HIDE DEF left
    <3> QED  BY <1>2, <1>6, ClientAssumption
  <2> HIDE DEF left, label
  <2> QED  BY <1>3, <1>6, <2>1, <2>2, RestedOK DEF ServerQuiet
<1> QED  BY <1>3, <1>4, <1>5, <1>7, OwnStep

LEMMA ConnectFailsStep ==
  ASSUME IInv, NEW c \in Clients, ConnectFails(c)
  PROVE  IInv'
BY DisconnectedStep DEF ConnectFails, history, IInv, OtherTypes

LEMMA ReadFailsStep ==
  ASSUME IInv, NEW c \in Clients, ReadFails(c)
  PROVE  IInv'
<1>1. /\ Calling(c) /\ conn[c] = "answered" /\ ServerQuiet /\ air' = air /\ standing' = standing
      /\ missed' = IF Moved(c) THEN [missed EXCEPT ![c] = request[c].room] ELSE missed
  BY DEF ReadFails, Moved
<1>4. /\ missed' \in [Clients -> RoomNames \cup {NULL}]
      /\ missed'[c] = IF Moved(c) THEN request[c].room ELSE missed[c]
      /\ \A d \in Clients : d # c => missed'[d] = missed[d]
  BY <1>1 DEF IInv, CallTypes, OtherTypes
<1>2. CASE AttemptsLeft(c) = 0 /\ Disconnected(c)
  BY <1>1, <1>2, <1>4, DisconnectedStep
<1>3. CASE /\ AttemptsLeft(c) > 0
           /\ attempts' = [attempts EXCEPT ![c] = AttemptsLeft(c)]
           /\ conn' = [conn EXCEPT ![c] = "none"]
           /\ answer' = [answer EXCEPT ![c] = NoReply]
           /\ UNCHANGED <<pc, request, selfVars>>
  <2>1. AttemptsLeft(c) \in 1 .. TCP_RETRIES
    BY <1>3, ClientAssumption DEF AttemptsLeft, IInv, CallTypes
  <2>2. CallTypes' /\ SelfTypes' /\ OtherTypes'
    BY <1>1, <1>3, <1>4, <2>1 DEF IInv, CallTypes, SelfTypes, OtherTypes, selfVars
  <2>3. \A d \in Clients : d # c => CallSame(d) /\ SelfSame(d) /\ HistorySame(d)
    BY <1>1, <1>3, <1>4 DEF CallSame, SelfSame, HistorySame, selfVars, IInv, CallTypes
  <2>4. /\ pc'[c] = pc[c] /\ request'[c] = request[c] /\ attempts'[c] \in Nat \ {0}
        /\ SelfSame(c) /\ conn'[c] = "none" /\ standing'[c] = standing[c]
        /\ name' = name /\ room' = room /\ title' = title
    BY <1>1, <1>3, <2>1, ClientAssumption
    DEF SelfSame, selfVars, IInv, CallTypes, ServerQuiet, svars
  <2>5. CallOK(c) /\ AnswerOK(c) /\ StandingOK(c) /\ PlaceOK(c)
    BY DEF IInv, ClientOK
  <2>6. pc[c] \in {"start", "register", "rejoin", "command", "heartbeat"}
    BY <1>1 DEF Calling
  <2>7. Fits(pc[c], request'[c], last_channel'[c])
    BY <2>4, <2>5 DEF Fits, CallOK, SelfSame, Registering
  <2>8. standing'[c] # NULL =>
           /\ standing'[c] \in Ids /\ name'[standing'[c]] # NULL
           /\ pc[c] \in {"rejoin", "command", "heartbeat"} => standing'[c] = member_id'[c]
    BY <2>4, <2>5 DEF StandingOK, SelfSame
  <2>11. TitleOf(standing[c])' = TitleOf(standing[c])
    BY <2>4 DEF TitleOf
  <2>12. Moved(c) => missed'[c] = request[c].room /\ missed'[c] # NULL
    BY <1>4, <2>5, ClientAssumption DEF AnswerOK, CallOK, RoomCommands
  <2>13. standing'[c] # NULL =>
           /\ pc[c] \in {"command", "heartbeat"} =>
                TitleOf(standing[c])' = Place(c, last_channel[c])'
           /\ pc[c] = "rejoin" => TitleOf(standing[c])' = Place(c, Blank)'
    <3>1. CASE Moved(c)
      BY <3>1, <2>4, <2>5, <2>11, <2>12 DEF PlaceOK, Place, CallOK, Request
    <3>2. CASE ~ Moved(c)
      BY <3>2, <1>4, <2>4, <2>5, <2>11 DEF PlaceOK, Place, SelfSame
    <3> QED  BY <3>1, <3>2
  <2>9. /\ pc[c] = "register" => connect_retries'[c] >= 1
        /\ pc[c] \in {"rejoin", "command", "heartbeat"} => member_id'[c] # NULL
    BY <2>4, <2>5 DEF CallOK, SelfSame
  <2>10. ClientOK(c)'
    BY <2>4, <2>6, <2>7, <2>8, <2>9, <2>13, CalledOK
  <2> QED  BY <1>1, <2>2, <2>3, <2>10, OwnStep
<1> QED  BY <1>2, <1>3 DEF ReadFails

\* What a client that reads its answer knows.
LEMMA ReadsFacts ==
  ASSUME IInv, NEW c \in Clients, NEW callers, Reads(c, callers)
  PROVE  /\ pc[c] \in callers /\ conn[c] = "answered" /\ ServerQuiet
         /\ air' = air /\ standing' = standing /\ name' = name /\ room' = room /\ title' = title
         /\ CallOK(c) /\ AnswerOK(c) /\ StandingOK(c) /\ PlaceOK(c)
         /\ Accepted(c) <=> answer[c].type = REGISTER_SUCC
         /\ Moved(c) <=> answer[c].type = SWITCH_ROOM_SUCC
         /\ missed' = IF Accepted(c) \/ Moved(c) THEN [missed EXCEPT ![c] = NULL] ELSE missed
         /\ \A d \in Clients : HistorySame(d) \/ d = c
         /\ missed' \in [Clients -> RoomNames \cup {NULL}]
<1>1. /\ pc[c] \in callers /\ conn[c] = "answered" /\ ServerQuiet
      /\ air' = air /\ standing' = standing /\ name' = name /\ room' = room /\ title' = title
      /\ CallOK(c) /\ AnswerOK(c) /\ StandingOK(c) /\ PlaceOK(c)
  BY DEF Reads, ServerQuiet, svars, IInv, ClientOK
<1>2. /\ Accepted(c) <=> answer[c].type = REGISTER_SUCC
      /\ Moved(c) <=> answer[c].type = SWITCH_ROOM_SUCC
  BY <1>1 DEF Accepted, Moved
<1>3. missed' = IF Accepted(c) \/ Moved(c) THEN [missed EXCEPT ![c] = NULL] ELSE missed
  BY <1>2 DEF Reads
<1>4. missed' \in [Clients -> RoomNames \cup {NULL}]
  BY <1>3 DEF IInv, OtherTypes
<1>5. \A d \in Clients : HistorySame(d) \/ d = c
  BY <1>1, <1>3 DEF IInv, OtherTypes, HistorySame
<1> QED  BY <1>1, <1>2, <1>3, <1>4, <1>5

LEMMA RegisteredStep ==
  ASSUME IInv, NEW c \in Clients, Registered(c)
  PROVE  IInv'
<1>1. /\ Reads(c, {"start", "register"}) /\ answer[c].type = REGISTER_SUCC
      /\ member_id' = [member_id EXCEPT ![c] = answer[c].id]
      /\ suffix' = [suffix EXCEPT ![c] = 1]
      /\ UNCHANGED <<member_name, last_channel, connect_retries>>
  BY DEF Registered, NewId
<1>2. /\ pc[c] \in {"start", "register"} /\ conn[c] = "answered" /\ ServerQuiet
      /\ air' = air /\ standing' = standing /\ name' = name /\ room' = room /\ title' = title
      /\ StandingOK(c) /\ PlaceOK(c) /\ AnswerOK(c) /\ Accepted(c)
      /\ missed' = [missed EXCEPT ![c] = NULL]
      /\ missed' \in [Clients -> RoomNames \cup {NULL}]
      /\ \A d \in Clients : HistorySame(d) \/ d = c
  BY <1>1, ReadsFacts
<1>3. answer[c].id \in Ids /\ standing[c] \in {NULL, answer[c].id}
  BY <1>2 DEF AnswerOK
<1>4. /\ SelfTypes' /\ OtherTypes' /\ last_channel'[c] = last_channel[c]
      /\ member_id'[c] = answer[c].id /\ member_id'[c] # NULL
  BY <1>1, <1>2, <1>3, ClientAssumption DEF IInv, SelfTypes, OtherTypes
<1>5. \A d \in Clients : d # c => SelfSame(d) /\ HistorySame(d)
  BY <1>1, <1>2 DEF SelfSame, IInv, SelfTypes
<1>9. missed'[c] = NULL /\ TitleOf(standing[c])' = TitleOf(standing[c])
  BY <1>2 DEF TitleOf, IInv, OtherTypes
<1>6. standing'[c] # NULL => /\ standing'[c] \in Ids /\ name'[standing'[c]] # NULL
                            /\ standing'[c] = member_id'[c]
                            /\ TitleOf(standing[c])' = Place(c, Blank)'
  BY <1>2, <1>3, <1>4, <1>9 DEF StandingOK, PlaceOK, Place, Registering
<1>7. CASE last_channel[c] = Blank /\ Rests(c, "ready")
  <2>1. /\ CallTypes' /\ pc'[c] = "ready" /\ request'[c] = NoRequest /\ conn'[c] = "none"
        /\ \A d \in Clients : d # c => CallSame(d)
    BY <1>7, RestsEffect DEF IInv
  <2>2. ClientOK(c)'
    BY <1>4, <1>6, <1>7, <2>1, RestedOK DEF Place
  <2> QED  BY <1>2, <1>4, <1>5, <2>1, <2>2, OwnStep
<1>8. CASE /\ last_channel[c] # Blank
           /\ Calls(c, "rejoin", Request(SWITCH_ROOM_REQUEST, last_channel[c]))
  <2>1. Request(SWITCH_ROOM_REQUEST, last_channel[c])
          \in [type : 0 .. QUIT_REQUEST, room : RoomNames \cup {NULL}]
    BY DEF Request, SWITCH_ROOM_REQUEST, QUIT_REQUEST, IInv, SelfTypes
  <2>2. /\ CallTypes' /\ pc'[c] = "rejoin" /\ attempts'[c] = TCP_RETRIES /\ conn'[c] = "none"
        /\ request'[c] = Request(SWITCH_ROOM_REQUEST, last_channel[c])
        /\ \A d \in Clients : d # c => CallSame(d)
    BY <1>8, <2>1, CallsEffect DEF IInv
  <2>3. Fits("rejoin", request'[c], last_channel'[c])
    BY <1>4, <2>2 DEF Fits, Request, SelfTypes
  <2>4. ClientOK(c)'
    BY <1>4, <1>6, <2>2, <2>3, ClientAssumption, CalledOK
  <2> QED  BY <1>2, <1>4, <1>5, <2>2, <2>4, OwnStep
<1> QED  BY <1>7, <1>8 DEF Registered

LEMMA TryNextNameStep ==
  ASSUME IInv, NEW c \in Clients, TryNextName(c)
  PROVE  IInv'
<1>1. /\ Reads(c, {"start", "register"})
      /\ ~ (suffix[c] > MAX_SUFFIX)
      /\ member_name' = [member_name EXCEPT ![c] = <<@[1], suffix[c]>>]
      /\ suffix' = [suffix EXCEPT ![c] = @ + 1]
      /\ Calls(c, pc[c], request[c])
      /\ UNCHANGED <<member_id, last_channel, connect_retries>>
  BY DEF TryNextName, NamesTried
<1>2. /\ pc[c] \in {"start", "register"} /\ ServerQuiet
      /\ air' = air /\ standing' = standing /\ name' = name /\ room' = room /\ title' = title
      /\ CallOK(c) /\ StandingOK(c)
      /\ missed' \in [Clients -> RoomNames \cup {NULL}]
      /\ \A d \in Clients : HistorySame(d) \/ d = c
  BY <1>1, ReadsFacts
<1>3. /\ suffix[c] \in 1 .. MAX_SUFFIX /\ suffix[c] + 1 \in 1 .. MAX_SUFFIX + 1
      /\ member_name[c][1] \in Bases
  BY <1>1, ClientAssumption DEF IInv, SelfTypes, Names
<1>4. <<member_name[c][1], suffix[c]>> \in Names
  BY <1>3, ClientAssumption DEF Names
<1>5. SelfTypes' /\ OtherTypes'
  BY <1>1, <1>2, <1>3, <1>4 DEF IInv, SelfTypes, OtherTypes
<1>6. \A d \in Clients : SelfSame(d) /\ (d # c => HistorySame(d))
  BY <1>1, <1>2 DEF SelfSame
<1>7. /\ CallTypes' /\ pc'[c] = pc[c] /\ attempts'[c] = TCP_RETRIES /\ conn'[c] = "none"
      /\ request'[c] = request[c]
      /\ \A d \in Clients : d # c => CallSame(d)
  <2>1. request[c] \in [type : 0 .. QUIT_REQUEST, room : RoomNames \cup {NULL}]
    BY DEF IInv, CallTypes
  <2> QED  BY <1>1, <1>2, <2>1, CallsEffect DEF IInv
<1>8. Fits(pc[c], request'[c], last_channel'[c])
  BY <1>2, <1>7 DEF Fits, CallOK, Registering
<1>9. ClientOK(c)'
  <2>1. pc[c] = "register" => connect_retries'[c] >= 1
    BY <1>1, <1>2 DEF CallOK
  <2>2. standing'[c] # NULL => standing'[c] \in Ids /\ name'[standing'[c]] # NULL
    BY <1>2 DEF StandingOK
  <2> QED  BY <1>2, <1>7, <1>8, <2>1, <2>2, ClientAssumption, CalledOK
<1> QED  BY <1>2, <1>5, <1>6, <1>7, <1>9, OwnStep

LEMMA HangupStep ==
  ASSUME IInv, NEW c \in Clients, Hangup(c)
  PROVE  IInv'
<1>1. /\ conn[c] = "sent" /\ conn' = [conn EXCEPT ![c] = "answered"]
      /\ answer' = [answer EXCEPT ![c] = NoReply]
      /\ ServerQuiet /\ UNCHANGED <<pc, request, attempts, selfVars, air, history>>
  BY DEF Hangup
<1>2. CallTypes' /\ SelfTypes' /\ OtherTypes'
  BY <1>1 DEF IInv, CallTypes, SelfTypes, OtherTypes, selfVars, history
<1>3. \A d \in Clients : d # c => CallSame(d) /\ SelfSame(d) /\ HistorySame(d)
  BY <1>1 DEF CallSame, SelfSame, HistorySame, selfVars, history, IInv, CallTypes
<1>4. /\ pc'[c] = pc[c] /\ request'[c] = request[c] /\ attempts'[c] = attempts[c]
      /\ SelfSame(c) /\ HistorySame(c) /\ standing'[c] = standing[c]
      /\ conn'[c] = "answered" /\ answer'[c] = NoReply
      /\ name' = name /\ room' = room /\ title' = title
  BY <1>1 DEF SelfSame, HistorySame, selfVars, history, IInv, CallTypes, ServerQuiet, svars
<1>5. CallOK(c) /\ StandingOK(c) /\ PlaceOK(c) /\ ~ Moved(c)
  BY <1>1 DEF IInv, ClientOK, Moved
<1>6. CallOK(c)'
  BY <1>1, <1>4, <1>5 DEF CallOK, Calling, Registering, SelfSame
<1>7. AnswerOK(c)' /\ ~ Accepted(c)' /\ ~ Moved(c)'
  BY <1>4 DEF AnswerOK, Accepted, Moved, NoReply, Reply, CHAT, REGISTER_SUCC, SWITCH_ROOM_SUCC
<1>8. StandingOK(c)'
  BY <1>4, <1>5 DEF StandingOK, SelfSame
<1>9. PlaceOK(c)'
  BY <1>4, <1>5, <1>7 DEF PlaceOK, Place, TitleOf, SelfSame, HistorySame, Registering
<1> QED  BY <1>1, <1>2, <1>3, <1>6, <1>7, <1>8, <1>9, OwnStep DEF ClientOK

LEMMA ExitsStep ==
  ASSUME IInv, NEW c \in Clients, Exits(c), ServerQuiet, air' = air, standing' = standing,
         missed' \in [Clients -> RoomNames \cup {NULL}],
         \A d \in Clients : d # c => missed'[d] = missed[d]
  PROVE  IInv'
<1>1. Rests(c, "exited") /\ UNCHANGED selfVars
  BY DEF Exits
<1>2. /\ CallTypes' /\ pc'[c] = "exited" /\ request'[c] = NoRequest /\ conn'[c] = "none"
      /\ \A d \in Clients : d # c => CallSame(d)
  BY <1>1, RestsEffect DEF IInv
<1>3. SelfTypes' /\ OtherTypes'
  BY <1>1 DEF IInv, SelfTypes, OtherTypes, selfVars
<1>4. \A d \in Clients : SelfSame(d) /\ (d # c => HistorySame(d))
  BY <1>1 DEF SelfSame, HistorySame, selfVars
<1>5. standing'[c] # NULL => standing'[c] \in Ids /\ name'[standing'[c]] # NULL
  BY DEF IInv, ClientOK, StandingOK, ServerQuiet, svars
<1>6. ClientOK(c)'
  BY <1>2, <1>5, RestedOK
<1> QED  BY <1>2, <1>3, <1>4, <1>6, OwnStep

LEMMA NotRegisteredStep ==
  ASSUME IInv, NEW c \in Clients, NotRegistered(c)
  PROVE  IInv'
BY ExitsStep, ReadsFacts DEF NotRegistered, HistorySame

\* A client that reads an answer and goes on with its main loop.
LEMMA ReadyStep ==
  ASSUME IInv, NEW c \in Clients, NEW callers \in SUBSET {"rejoin", "command", "heartbeat"},
         Reads(c, callers), Rests(c, "ready"),
         NEW STATE channel, channel \in RoomNames,
         last_channel' = [last_channel EXCEPT ![c] = channel],
         UNCHANGED <<member_id, member_name, connect_retries, suffix>>,
         standing[c] # NULL =>
           TitleOf(standing[c]) = IF Moved(c) \/ missed[c] = NULL THEN channel ELSE missed[c],
         ~ Accepted(c)
  PROVE  IInv'
<1>1. /\ pc[c] \in {"rejoin", "command", "heartbeat"} /\ ServerQuiet
      /\ air' = air /\ standing' = standing /\ name' = name /\ room' = room /\ title' = title
      /\ CallOK(c) /\ StandingOK(c)
      /\ missed' = IF Moved(c) THEN [missed EXCEPT ![c] = NULL] ELSE missed
      /\ missed' \in [Clients -> RoomNames \cup {NULL}]
      /\ \A d \in Clients : HistorySame(d) \/ d = c
  BY ReadsFacts
<1>2. /\ CallTypes' /\ pc'[c] = "ready" /\ request'[c] = NoRequest /\ conn'[c] = "none"
      /\ \A d \in Clients : d # c => CallSame(d)
  BY RestsEffect DEF IInv
<1>3. SelfTypes' /\ OtherTypes' /\ last_channel'[c] = channel
  BY <1>1 DEF IInv, SelfTypes, OtherTypes
<1>4. \A d \in Clients : d # c => SelfSame(d) /\ HistorySame(d)
  BY <1>1 DEF SelfSame, IInv, SelfTypes
<1>5. member_id'[c] # NULL
  BY <1>1 DEF CallOK
<1>6. standing'[c] # NULL => /\ standing'[c] \in Ids /\ name'[standing'[c]] # NULL
                            /\ standing'[c] = member_id'[c]
                            /\ TitleOf(standing[c])' = Place(c, last_channel[c])'
  <2>1. missed'[c] = IF Moved(c) THEN NULL ELSE missed[c]
    BY <1>1 DEF IInv, OtherTypes
  <2>2. TitleOf(standing[c])' = TitleOf(standing[c])
    BY <1>1 DEF TitleOf
  <2> QED  BY <1>1, <1>3, <2>1, <2>2 DEF StandingOK, Place
<1>7. ClientOK(c)'
  BY <1>2, <1>5, <1>6, RestedOK
<1> QED  BY <1>1, <1>2, <1>3, <1>4, <1>7, OwnStep

LEMMA RejoinedStep ==
  ASSUME IInv, NEW c \in Clients, Rejoined(c)
  PROVE  IInv'
<1>1. /\ Reads(c, {"rejoin"}) /\ Rests(c, "ready")
      /\ last_channel' = [last_channel EXCEPT ![c] = ChannelAfter(c)]
      /\ UNCHANGED <<member_id, member_name, connect_retries, suffix>>
  BY DEF Rejoined
<1>2. /\ pc[c] = "rejoin" /\ PlaceOK(c) /\ (Moved(c) <=> answer[c].type = SWITCH_ROOM_SUCC)
      /\ CallOK(c) /\ AnswerOK(c)
  BY <1>1, ReadsFacts
<1>5. ~ Accepted(c)
  BY <1>2 DEF CallOK, AnswerOK, Request, REGISTER_REQUEST, SWITCH_ROOM_REQUEST
<1>3. ChannelAfter(c) \in RoomNames
  BY ClientAssumption DEF ChannelAfter, IInv, SelfTypes
<1>4. standing[c] # NULL =>
        TitleOf(standing[c]) = IF Moved(c) \/ missed[c] = NULL THEN ChannelAfter(c) ELSE missed[c]
  BY <1>2 DEF PlaceOK, Place, ChannelAfter
<1> QED  BY <1>1, <1>3, <1>4, <1>5, ReadyStep

LEMMA CommandedStep ==
  ASSUME IInv, NEW c \in Clients, Commanded(c)
  PROVE  IInv'
<1> DEFINE channel == IF answer[c].type = SWITCH_ROOM_SUCC THEN request[c].room
                      ELSE last_channel[c]
<1>1. /\ Reads(c, {"command"}) /\ Rests(c, "ready")
      /\ UNCHANGED <<member_id, member_name, connect_retries, suffix>>
  BY DEF Commanded
<1>2. last_channel' = [last_channel EXCEPT ![c] = channel]
  BY DEF Commanded, IInv, SelfTypes
<1>3. /\ pc[c] = "command" /\ PlaceOK(c) /\ (Moved(c) <=> answer[c].type = SWITCH_ROOM_SUCC)
      /\ CallOK(c) /\ AnswerOK(c)
  BY <1>1, ReadsFacts
<1>4. channel \in RoomNames
  BY <1>3 DEF CallOK, AnswerOK, RoomCommands, IInv, SelfTypes
<1>5. standing[c] # NULL =>
        TitleOf(standing[c]) = IF Moved(c) \/ missed[c] = NULL THEN channel ELSE missed[c]
  BY <1>3 DEF PlaceOK, Place
<1>6. ~ Accepted(c)
  BY <1>3 DEF CallOK, AnswerOK, Commands, REGISTER_REQUEST, ROOM_LIST_REQUEST,
    MEMBER_LIST_REQUEST, SWITCH_ROOM_REQUEST, CREATE_ROOM_REQUEST
<1> HIDE DEF channel
<1> QED  BY <1>1, <1>2, <1>4, <1>5, <1>6, ReadyStep

LEMMA HeartbeatOverStep ==
  ASSUME IInv, NEW c \in Clients, HeartbeatOver(c)
  PROVE  IInv'
<1>1. Reads(c, {"heartbeat"}) /\ Rests(c, "ready") /\ UNCHANGED selfVars
  BY DEF HeartbeatOver
<1>2. pc[c] = "heartbeat" /\ CallOK(c) /\ AnswerOK(c) /\ PlaceOK(c)
  BY <1>1, ReadsFacts
<1>3. ~ Moved(c) /\ ~ Accepted(c)
  BY <1>2 DEF CallOK, AnswerOK, MEMBER_KEEP_ALIVE, SWITCH_ROOM_REQUEST, REGISTER_REQUEST
<1>4. last_channel[c] \in RoomNames
  BY DEF IInv, SelfTypes
<1>5. /\ last_channel' = [last_channel EXCEPT ![c] = last_channel[c]]
      /\ UNCHANGED <<member_id, member_name, connect_retries, suffix>>
  BY <1>1 DEF IInv, SelfTypes, selfVars
<1>6. standing[c] # NULL => TitleOf(standing[c]) = Place(c, last_channel[c])
  BY <1>2, <1>3 DEF PlaceOK
<1> QED  BY <1>1, <1>3, <1>4, <1>5, <1>6, ReadyStep DEF Place

LEMMA ReconnectStep ==
  ASSUME IInv, NEW c \in Clients, Reconnect(c)
  PROVE  IInv'
<1>1. /\ pc[c] = "waiting" /\ Calls(c, "register", Request(REGISTER_REQUEST, NULL))
      /\ suffix' = [suffix EXCEPT ![c] = 1]
      /\ ServerQuiet
      /\ UNCHANGED <<member_id, member_name, last_channel, connect_retries, air, history>>
  BY DEF Reconnect
<1>2. Request(REGISTER_REQUEST, NULL) \in [type : 0 .. QUIT_REQUEST, room : RoomNames \cup {NULL}]
  BY DEF Request, REGISTER_REQUEST, QUIT_REQUEST
<1>3. /\ CallTypes' /\ pc'[c] = "register" /\ attempts'[c] = TCP_RETRIES /\ conn'[c] = "none"
      /\ request'[c] = Request(REGISTER_REQUEST, NULL)
      /\ \A d \in Clients : d # c => CallSame(d)
  BY <1>1, <1>2, CallsEffect DEF IInv
<1>4. SelfTypes' /\ OtherTypes'
  BY <1>1, ClientAssumption DEF IInv, SelfTypes, OtherTypes, history
<1>5. \A d \in Clients : SelfSame(d) /\ HistorySame(d)
  BY <1>1 DEF SelfSame, HistorySame, history
<1>6. /\ connect_retries'[c] >= 1
      /\ standing'[c] # NULL => standing'[c] \in Ids /\ name'[standing'[c]] # NULL
  BY <1>1 DEF IInv, ClientOK, CallOK, StandingOK, ServerQuiet, svars, history
<1>7. Fits("register", request'[c], last_channel'[c])
  BY <1>3 DEF Fits, Request, RoomCommands, REGISTER_REQUEST,
    SWITCH_ROOM_REQUEST, CREATE_ROOM_REQUEST
<1>8. ClientOK(c)'
  BY <1>3, <1>6, <1>7, ClientAssumption, CalledOK
<1> QED  BY <1>1, <1>3, <1>4, <1>5, <1>8, OwnStep

\* A client that leaves its main loop for a request.
LEMMA AskStep ==
  ASSUME IInv, NEW c \in Clients, Ready(c), UNCHANGED <<selfVars, air, history>>,
         NEW label \in {"command", "heartbeat"},
         NEW req \in [type : 0 .. QUIT_REQUEST, room : RoomNames \cup {NULL}],
         Calls(c, label, req), \A channel : Fits(label, req, channel)
  PROVE  IInv'
<1>1. /\ CallTypes' /\ pc'[c] = label /\ attempts'[c] = TCP_RETRIES /\ conn'[c] = "none"
      /\ request'[c] = req
      /\ \A d \in Clients : d # c => CallSame(d)
  BY CallsEffect DEF IInv
<1>2. SelfTypes' /\ OtherTypes'
  BY DEF IInv, SelfTypes, OtherTypes, selfVars, history
<1>3. \A d \in Clients : SelfSame(d) /\ HistorySame(d)
  BY DEF SelfSame, HistorySame, selfVars, history
<1>4. /\ pc[c] = "ready" /\ ServerQuiet
      /\ name' = name /\ room' = room /\ title' = title
      /\ CallOK(c) /\ StandingOK(c) /\ PlaceOK(c)
  BY DEF Ready, ServerQuiet, svars, IInv, ClientOK
<1>5. /\ member_id'[c] # NULL
      /\ standing'[c] # NULL => /\ standing'[c] \in Ids /\ name'[standing'[c]] # NULL
                                /\ standing'[c] = member_id'[c]
                                /\ TitleOf(standing[c])' = Place(c, last_channel[c])'
  BY <1>3, <1>4 DEF CallOK, StandingOK, PlaceOK, Place, TitleOf, SelfSame, HistorySame
<1>6. Fits(label, request'[c], last_channel'[c])
  BY <1>1
<1>7. ClientOK(c)'
  BY <1>1, <1>5, <1>6, ClientAssumption, CalledOK
<1> QED  BY <1>1, <1>2, <1>3, <1>4, <1>7, OwnStep

LEMMA CommandStep ==
  ASSUME IInv, NEW c \in Clients, Command(c)
  PROVE  IInv'
<1>1. PICK req \in [type : Commands, room : RoomNames \cup {NULL}] :
        /\ Calls(c, "command", req)
        /\ req.type \in RoomCommands => req.room \in RoomNames
  <2>1. CASE Calls(c, "command", Request(ROOM_LIST_REQUEST, NULL))
    BY <2>1 DEF Request, Commands, RoomCommands, ROOM_LIST_REQUEST, SWITCH_ROOM_REQUEST,
      CREATE_ROOM_REQUEST
  <2>2. ASSUME NEW type \in {MEMBER_LIST_REQUEST, SWITCH_ROOM_REQUEST, CREATE_ROOM_REQUEST},
               NEW r \in RoomNames, Calls(c, "command", Request(type, r))
        PROVE  \E req \in [type : Commands, room : RoomNames \cup {NULL}] :
                 /\ Calls(c, "command", req)
                 /\ req.type \in RoomCommands => req.room \in RoomNames
    <3>1. /\ Request(type, r) \in [type : Commands, room : RoomNames \cup {NULL}]
          /\ Request(type, r).room \in RoomNames
      BY DEF Request, Commands
    <3> QED  BY <2>2, <3>1
  <2> QED  BY <2>1, <2>2 DEF Command
<1>2. req \in [type : 0 .. QUIT_REQUEST, room : RoomNames \cup {NULL}]
  BY DEF Commands, ROOM_LIST_REQUEST, MEMBER_LIST_REQUEST, SWITCH_ROOM_REQUEST,
         CREATE_ROOM_REQUEST, QUIT_REQUEST
<1>3. \A channel : Fits("command", req, channel)
  BY <1>1 DEF Fits
<1> QED  BY <1>1, <1>2, <1>3, AskStep DEF Command

LEMMA HeartbeatStep ==
  ASSUME IInv, NEW c \in Clients, Heartbeat(c)
  PROVE  IInv'
<1> DEFINE req == Request(MEMBER_KEEP_ALIVE, NULL)
<1>1. req \in [type : 0 .. QUIT_REQUEST, room : RoomNames \cup {NULL}]
  BY DEF Request, MEMBER_KEEP_ALIVE, QUIT_REQUEST
<1>2. \A channel : Fits("heartbeat", req, channel)
  BY DEF Fits, Request, RoomCommands, MEMBER_KEEP_ALIVE, SWITCH_ROOM_REQUEST, CREATE_ROOM_REQUEST
<1>3. Calls(c, "heartbeat", req)
  BY DEF Heartbeat
<1> HIDE DEF req
<1> QED  BY <1>1, <1>2, <1>3, AskStep DEF Heartbeat

LEMMA SayStep ==
  ASSUME IInv, NEW c \in Clients, Say(c)
  PROVE  IInv'
<1>1. /\ pc[c] = "ready" /\ ServerQuiet /\ air' = air \cup {member_id[c]}
      /\ UNCHANGED <<pc, callVars, selfVars, history>>
  BY DEF Say, Ready, ClientsQuiet
<1>2. member_id[c] \in Ids
  BY <1>1 DEF IInv, ClientOK, CallOK, SelfTypes
<1>3. CallTypes' /\ SelfTypes' /\ OtherTypes'
  BY <1>1, <1>2 DEF IInv, CallTypes, SelfTypes, OtherTypes, callVars, selfVars, history
<1>4. \A d \in Clients : CallSame(d) /\ SelfSame(d) /\ HistorySame(d)
  BY <1>1 DEF CallSame, SelfSame, HistorySame, callVars, selfVars, history
<1>5. ClientOK(c)'
  <2>1. Unaffected(c)
    BY <1>4 DEF Unaffected, CallSame, SelfSame, HistorySame
  <2> QED  BY <1>1, <2>1, Bystander DEF IInv, ServerQuiet, svars
<1> QED  BY <1>1, <1>3, <1>4, <1>5, OwnStep

\* A program that ends with a request on its way.
LEMMA LeavesStep ==
  ASSUME IInv, NEW c \in Clients, ServerQuiet,
         pc' = [pc EXCEPT ![c] = "exited"], CallTypes', conn'[c] = "sent",
         \A d \in Clients : d # c => CallSame(d),
         request'[c].type \in MemberTypes \cup {REGISTER_REQUEST},
         request'[c].type \in RoomCommands => request'[c].room \in RoomNames,
         UNCHANGED <<selfVars, air, history>>
  PROVE  IInv'
<1>1. SelfTypes' /\ OtherTypes'
  BY DEF IInv, SelfTypes, OtherTypes, selfVars, history
<1>2. \A d \in Clients : SelfSame(d) /\ HistorySame(d)
  BY DEF SelfSame, HistorySame, selfVars, history
<1>3. pc'[c] = "exited"
  BY DEF IInv, CallTypes
<1>4. CallOK(c)'
  BY <1>3 DEF CallOK, Registering, Calling
<1>5. AnswerOK(c)'
  BY DEF AnswerOK, Accepted, Moved
<1>6. StandingOK(c)'
  BY <1>3 DEF IInv, ClientOK, StandingOK, ServerQuiet, svars, history
<1>7. PlaceOK(c)'
  BY <1>3 DEF PlaceOK, Registering
<1> QED  BY <1>1, <1>2, <1>4, <1>5, <1>6, <1>7, OwnStep DEF ClientOK

LEMMA QuitStep ==
  ASSUME IInv, NEW c \in Clients, Quit(c)
  PROVE  IInv'
<1>1. ServerQuiet /\ UNCHANGED <<air, history>>
  BY DEF Quit, Ready
<1>2. CASE Exits(c)
  BY <1>1, <1>2, ExitsStep DEF history, IInv, OtherTypes
<1>3. CASE /\ pc' = [pc EXCEPT ![c] = "exited"]
           /\ request' = [request EXCEPT ![c] = Request(QUIT_REQUEST, NULL)]
           /\ conn' = [conn EXCEPT ![c] = "sent"]
           /\ UNCHANGED <<attempts, answer, selfVars>>
  <2>1. /\ Request(QUIT_REQUEST, NULL) \in [type : 0 .. QUIT_REQUEST, room : RoomNames \cup {NULL}]
        /\ Request(QUIT_REQUEST, NULL).type \in MemberTypes
        /\ Request(QUIT_REQUEST, NULL).type \notin RoomCommands
    BY DEF Request, QUIT_REQUEST, MemberTypes, RoomCommands, CREATE_ROOM_REQUEST,
      SWITCH_ROOM_REQUEST, ROOM_LIST_REQUEST
  <2>2. CallTypes'
    BY <1>3, <2>1 DEF IInv, CallTypes
  <2>3. conn'[c] = "sent" /\ request'[c] = Request(QUIT_REQUEST, NULL)
    BY <1>3 DEF IInv, CallTypes
  <2>4. \A d \in Clients : d # c => CallSame(d)
    BY <1>3 DEF IInv, CallTypes, CallSame
  <2> QED  BY <1>1, <1>3, <2>1, <2>2, <2>3, <2>4, LeavesStep
<1> QED  BY <1>2, <1>3 DEF Quit

LEMMA InterruptStep ==
  ASSUME IInv, NEW c \in Clients, Interrupt(c)
  PROVE  IInv'
<1>1. ServerQuiet /\ UNCHANGED <<air, history>>
  BY DEF Interrupt
<1>2. CASE Exits(c)
  BY <1>1, <1>2, ExitsStep DEF history, IInv, OtherTypes
<1>3. CASE /\ conn[c] = "sent"
           /\ pc' = [pc EXCEPT ![c] = "exited"]
           /\ UNCHANGED <<callVars, selfVars>>
  <2>1. CallTypes' /\ conn'[c] = "sent" /\ request'[c] = request[c]
    BY <1>3 DEF IInv, CallTypes, callVars
  <2>2. \A d \in Clients : d # c => CallSame(d)
    BY <1>3 DEF IInv, CallTypes, CallSame, callVars
  <2>3. /\ request[c].type \in MemberTypes \cup {REGISTER_REQUEST}
        /\ request[c].type \in RoomCommands => request[c].room \in RoomNames
    BY <1>3 DEF IInv, ClientOK, CallOK
  <2> QED  BY <1>1, <1>3, <2>1, <2>2, <2>3, LeavesStep
<1> QED  BY <1>2, <1>3 DEF Interrupt

-----------------------------------------------------------------------------
(* The invariant, and what follows from it. *)

LEMMA InitInv == Init => IInv
<1> SUFFICES ASSUME Init PROVE IInv
  OBVIOUS
<1>1. /\ phase = "init" /\ name = [i \in Ids |-> NULL] /\ room = [i \in Ids |-> NULL]
      /\ heard = {} /\ rooms = {} /\ idle = {} /\ title = [h \in Rooms |-> NULL]
  BY DEF Init, Server!Init
<1>2. ServerTypes /\ PlacesOK
  BY <1>1 DEF ServerTypes, PlacesOK, Server!Online
<1>3. CallTypes
  BY ClientAssumption DEF Init, CallTypes, Request, REGISTER_REQUEST, QUIT_REQUEST
<1>4. Bases \X {0} \subseteq Names
  BY ClientAssumption DEF Names
<1>5. SelfTypes /\ OtherTypes
  BY <1>4, ClientAssumption DEF Init, SelfTypes, OtherTypes
<1>6. ASSUME NEW c \in Clients PROVE ClientOK(c)
  <2>1. /\ pc[c] = "start" /\ conn[c] = "none" /\ standing[c] = NULL
        /\ request[c].type = REGISTER_REQUEST /\ attempts[c] >= 1
    BY ClientAssumption DEF Init, Request
  <2>2. CallOK(c)
    BY <2>1 DEF CallOK, Registering, Calling, RoomCommands, REGISTER_REQUEST,
      SWITCH_ROOM_REQUEST, CREATE_ROOM_REQUEST
  <2> QED  BY <2>1, <2>2 DEF ClientOK, AnswerOK, StandingOK, PlaceOK, Accepted, Moved
<1> QED  BY <1>2, <1>3, <1>5, <1>6 DEF IInv

LEMMA StutterStep ==
  ASSUME IInv, UNCHANGED vars
  PROVE  IInv'
<1>1. /\ UNCHANGED <<phase, name, room, heard, rooms, title, idle>>
      /\ UNCHANGED <<pc, callVars, selfVars, air, history>>
  BY DEF vars, svars
<1>2. ServerTypes' /\ PlacesOK'
  BY <1>1 DEF IInv, ServerTypes, PlacesOK, Server!Online
<1>3. CallTypes' /\ SelfTypes' /\ OtherTypes'
  BY <1>1 DEF IInv, CallTypes, SelfTypes, OtherTypes, callVars, selfVars, history
<1>4. ASSUME NEW d \in Clients PROVE ClientOK(d)'
  <2>1. Unaffected(d)
    BY <1>1 DEF Unaffected, callVars, selfVars, history
  <2> QED  BY <1>1, <2>1, Bystander DEF IInv
<1> QED  BY <1>2, <1>3, <1>4 DEF IInv

LEMMA NextInv == IInv /\ [Next]_vars => IInv'
<1> SUFFICES ASSUME IInv, [Next]_vars PROVE IInv'
  OBVIOUS
<1>1. ASSUME NEW c \in Clients, Answers(c) PROVE IInv'
  BY <1>1, ServeStep, HangupStep DEF Answers
<1>2. ASSUME NEW c \in Clients, Proceeds(c) PROVE IInv'
  <2>1. CASE Connect(c)  BY <2>1, ConnectStep
  <2>2. CASE ConnectFails(c)  BY <2>2, ConnectFailsStep
  <2>3. CASE ReadFails(c)  BY <2>3, ReadFailsStep
  <2>4. CASE Registered(c)  BY <2>4, RegisteredStep
  <2>5. CASE TryNextName(c)  BY <2>5, TryNextNameStep
  <2>6. CASE NotRegistered(c)  BY <2>6, NotRegisteredStep
  <2>7. CASE Reconnect(c)  BY <2>7, ReconnectStep
  <2>8. CASE Rejoined(c)  BY <2>8, RejoinedStep
  <2>9. CASE Commanded(c)  BY <2>9, CommandedStep
  <2>10. CASE HeartbeatOver(c)  BY <2>10, HeartbeatOverStep
  <2> QED  BY <1>2, <2>1, <2>2, <2>3, <2>4, <2>5, <2>6, <2>7, <2>8, <2>9, <2>10 DEF Proceeds
<1>3. ASSUME NEW c \in Clients,
             Command(c) \/ Heartbeat(c) \/ Say(c) \/ Quit(c) \/ Interrupt(c)
      PROVE  IInv'
  BY <1>3, CommandStep, HeartbeatStep, SayStep, QuitStep, InterruptStep
<1>4. ASSUME NEW i \in air, Relay(i) PROVE IInv'
  BY <1>4, RelayStep
<1>5. CASE Sweep  BY <1>5, SweepStep
<1>6. CASE Boot  BY <1>6, BootStep
<1>7. CASE Crash  BY <1>7, CrashStep
<1>8. CASE Restart  BY <1>8, RestartStep
<1>9. CASE UNCHANGED vars  BY <1>9, StutterStep
<1> QED  BY <1>1, <1>2, <1>3, <1>4, <1>5, <1>6, <1>7, <1>8, <1>9 DEF Next

LEMMA SpecInv == Spec => []IInv
BY InitInv, NextInv, PTL DEF Spec

\* Every variable of the clients, and of the server they see, has its type: the
\* attempts, retries and suffixes of attempt_request, reconnect and init_client
\* stay within their bounds.
THEOREM TypeCorrect == Spec => []TypeOK
<1>1. IInv => TypeOK
  BY DEF IInv, TypeOK, ServerTypes, CallTypes, SelfTypes, OtherTypes
<1> QED  BY <1>1, SpecInv, PTL

\* The id a client in its main loop uses is that of the registration that stands,
\* for any number of clients, ids, names and retries (handle_register_req,
\* init_client).
THEOREM ActsAsItselfCorrect == Spec => []ActsAsItself
<1>1. IInv => ActsAsItself
  BY DEF IInv, ClientOK, StandingOK, ActsAsItself, Standing
<1> QED  BY <1>1, SpecInv, PTL

\* The room a client in its main loop shows is the one it is in - or, if the answer
\* to a switch was lost, the client is in the room of that switch, until another is
\* answered (last_channel in handle_switch_room_req and reconnect): for any number
\* of clients, rooms and retries, and for the room without a name too.
THEOREM RoomAsShownCorrect == Spec => []RoomAsShown
<1>1. IInv => RoomAsShown
  BY DEF IInv, ClientOK, PlaceOK, Place, RoomAsShown, Standing
<1> QED  BY <1>1, SpecInv, PTL
=============================================================================
