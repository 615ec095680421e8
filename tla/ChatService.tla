------------------------------ MODULE ChatService ------------------------------
(***************************************************************************)
(* What the chat server promises its clients, without its lists: who is     *)
(* registered, under which id and name and in which room, which rooms        *)
(* exist, and when the sweep drops members and rooms.  A sweep is one step.  *)
(* Of a room whose name has the full MAX_ROOM_NAME_LEN characters less is    *)
(* promised: asking for the name may not find it, and a second room of the   *)
(* name may be created.                                                      *)
(*                                                                           *)
(* ChatRefinement shows that ChatServer implements this specification.       *)
(***************************************************************************)
EXTENDS ChatDefs, FiniteSets

CONSTANTS
  NULL, Ids, Names, Rooms, RoomNames, LongNames, FullNames,
  MAX_NUM_OF_ROOMS, MAX_NUM_OF_MEMBERS_PER_ROOM

VARIABLES
  phase,        \* "init": reading the room file; "up"; "down"
  name,         \* the name a member id is registered under, or NULL
  room,         \* the room the member is in, or NULL
  heard,        \* ids heard from, or registered, since the last sweep
  rooms,        \* the rooms there are
  title,        \* the name of each
  idle,         \* rooms that were empty at the last sweep and still are
  reply         \* what the last step sent

svars == <<phase, name, room, heard, rooms, title, idle, reply>>

Online == {i \in Ids : name[i] # NULL}
Occupants(h) == {i \in Online : room[i] = h}

Init ==
  /\ phase = "init"
  /\ name = [i \in Ids |-> NULL]
  /\ room = [i \in Ids |-> NULL]
  /\ heard = {} /\ rooms = {} /\ idle = {}
  /\ title = [h \in Rooms |-> NULL]
  /\ reply = NoReply

-----------------------------------------------------------------------------
(* Rooms by name. *)

Named(n) == {h \in rooms : title[h] = n}

\* What a search for the name may find; NULL is nothing.
Found(n) == Named(n) \cup (IF n \in FullNames \/ Named(n) = {} THEN {NULL} ELSE {})

Creatable(n) ==
  /\ n \notin LongNames
  /\ Cardinality(rooms) < MAX_NUM_OF_ROOMS
  /\ NULL \in Found(n)

Creates(n) ==
  /\ Creatable(n)
  /\ \E h \in Rooms \ rooms :
       /\ rooms' = rooms \cup {h}
       /\ title' = [title EXCEPT ![h] = n]

LoadRoom(n) ==
  /\ phase = "init"
  /\ Creates(n)
  /\ UNCHANGED <<phase, name, room, heard, idle, reply>>

Start ==
  /\ phase = "init"
  /\ phase' = "up"
  /\ UNCHANGED <<name, room, heard, rooms, title, idle, reply>>

-----------------------------------------------------------------------------
(* Requests. *)

Full == Cardinality(Online) = MAX_NUM_OF_ROOMS * MAX_NUM_OF_MEMBERS_PER_ROOM
Taken(n) == \E j \in Online : name[j] = n

\* A free id under a free name.
Register(n) ==
  /\ phase = "up"
  /\ ~ Full /\ ~ Taken(n)
  /\ \E i \in Ids \ Online :
       /\ name' = [name EXCEPT ![i] = n]
       /\ heard' = heard \cup {i}
       /\ reply' = Reply(REGISTER_SUCC, i, {})
  /\ UNCHANGED <<phase, room, rooms, title, idle>>

\* The refusal says whether it is for the name.
RegisterRefused(n) ==
  /\ phase = "up"
  /\ Full \/ Taken(n)
  /\ reply' = Reply(REGISTER_FAIL, 0, IF Full THEN {} ELSE {n})
  /\ UNCHANGED <<phase, name, room, heard, rooms, title, idle>>

Unknown(type, i) ==
  /\ phase = "up"
  /\ reply' = Reply(type + 2, 0, {})
  /\ i \notin Online
  /\ UNCHANGED <<phase, name, room, heard, rooms, title, idle>>

Ignored ==
  /\ phase = "up"
  /\ reply' = NoReply
  /\ UNCHANGED <<phase, name, room, heard, rooms, title, idle>>

-----------------------------------------------------------------------------
(* Requests of a member, and the messages it sends.  Each of them counts as *)
(* having heard from it: Hear is a part of the step.                        *)

Hear(i) ==
  /\ phase = "up"
  /\ i \in Online
  /\ heard' = heard \cup {i}

KeepAlive(i) ==
  /\ reply' = NoReply
  /\ UNCHANGED <<phase, name, room, rooms, title, idle>>

\* Some of the full names are not shown as what they are.
ListRooms(i) ==
  /\ \/ /\ rooms = {}
        /\ reply' = Reply(ROOM_LIST_FAIL, i, {})
     \/ /\ rooms # {}
        /\ \E garbled \in SUBSET {h \in rooms : title[h] \in FullNames} :
             reply' = Reply(ROOM_LIST_SUCC, i,
                        {<<IF h \in garbled THEN NULL ELSE title[h],
                           Cardinality(Occupants(h))>> : h \in rooms})
  /\ UNCHANGED <<phase, name, room, rooms, title, idle>>

\* The names of everybody in the room, and of nobody else.
ListMembers(i, n) ==
  /\ \E h \in Found(n) :
       reply' = IF h # NULL /\ Occupants(h) # {}
                THEN Reply(MEMBER_LIST_SUCC, i, {name[j] : j \in Occupants(h)})
                ELSE Reply(MEMBER_LIST_FAIL, i, {})
  /\ UNCHANGED <<phase, name, room, rooms, title, idle>>

CreateRoom(i, n) ==
  /\ reply' = Reply(CREATE_ROOM_SUCC, i, {})
  /\ Creates(n)
  /\ UNCHANGED <<phase, name, room, idle>>

CreateRefused(i, n) ==
  /\ reply' = Reply(CREATE_ROOM_FAIL, i, {})
  /\ n \in LongNames \/ Named(n) # {} \/ Cardinality(rooms) = MAX_NUM_OF_ROOMS
  /\ UNCHANGED <<phase, name, room, rooms, title, idle>>

\* All a client can be promised of a create request after some room was
\* swept: the server may die of it (see the README on remove_room).
CreateDies(i, n) ==
  /\ reply' = NoReply
  /\ Creatable(n)
  /\ phase' = "down"
  /\ UNCHANGED <<name, room, rooms, title, idle>>

Enterable(i, h) ==
  /\ h # NULL
  /\ room[i] # h
  /\ Cardinality(Occupants(h)) < MAX_NUM_OF_MEMBERS_PER_ROOM

SwitchRoom(i, n) ==
  /\ reply' = Reply(SWITCH_ROOM_SUCC, i, {})
  /\ \E h \in Found(n) :
       /\ Enterable(i, h)
       /\ room' = [room EXCEPT ![i] = h]
       /\ idle' = idle \ {h}
  /\ UNCHANGED <<phase, name, rooms, title>>

SwitchRefused(i, n) ==
  /\ reply' = Reply(SWITCH_ROOM_FAIL, i, {})
  /\ \E h \in Found(n) : ~ Enterable(i, h)
  /\ UNCHANGED <<phase, name, room, rooms, title, idle>>

\* A message reaches members of the sender's room only, all of them unless
\* sending to one of them fails; a sender in no room reaches nobody.
Chat(i) ==
  /\ \/ room[i] = NULL /\ reply' = NoReply
     \/ /\ room[i] # NULL
        /\ \E to \in SUBSET Occupants(room[i]) : reply' = Reply(CHAT, i, to)
  /\ UNCHANGED <<phase, name, room, rooms, title, idle>>

Request(i) ==
  \/ KeepAlive(i) \/ ListRooms(i) \/ Chat(i)
  \/ \E n \in RoomNames :
       \/ ListMembers(i, n)
       \/ CreateRoom(i, n) \/ CreateRefused(i, n) \/ CreateDies(i, n)
       \/ SwitchRoom(i, n) \/ SwitchRefused(i, n)

\* The one request after which its sender is gone.
Quit(i) ==
  /\ phase = "up"
  /\ i \in Online
  /\ name' = [name EXCEPT ![i] = NULL]
  /\ room' = [room EXCEPT ![i] = NULL]
  /\ heard' = heard \ {i}
  /\ reply' = NoReply
  /\ UNCHANGED <<phase, rooms, title, idle>>

-----------------------------------------------------------------------------
(* The sweep: exactly the members not heard since the last one leave, and  *)
(* exactly the rooms nobody was in from that one to this one are removed.  *)

\* Mutant: the flags survive the sweep.
HeardAfterKept == heard

\* The sweep marks everybody that stays as not heard from.
HeardAfter == {}

Sweep ==
  /\ phase = "up"
  /\ LET deserted == {h \in rooms : Occupants(h) \cap heard = {}}
     IN  /\ rooms' = rooms \ (deserted \cap idle)
         /\ idle' = deserted \ idle
  /\ title' = [h \in Rooms |-> IF h \in rooms' THEN title[h] ELSE NULL]
  /\ name' = [i \in Ids |-> IF i \in heard THEN name[i] ELSE NULL]
  /\ room' = [i \in Ids |-> IF i \in heard THEN room[i] ELSE NULL]
  /\ heard' = HeardAfter
  /\ reply' = NoReply
  /\ UNCHANGED phase

-----------------------------------------------------------------------------
Next ==
  \/ Start
  \/ \E n \in RoomNames : LoadRoom(n)
  \/ \E n \in Names : Register(n) \/ RegisterRefused(n)
  \/ \E i \in Ids : \/ Hear(i) /\ Request(i)
                    \/ Quit(i)
                    \/ \E type \in MemberRequests : Unknown(type, i)
  \/ Ignored
  \/ Sweep

Spec == Init /\ [][Next]_svars
=============================================================================
