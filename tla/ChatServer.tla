------------------------------ MODULE ChatServer ------------------------------
(***************************************************************************)
(* The chat server of A3 (server_main.c, server_util.c): one process that    *)
(* waits in select() for control requests, chat messages and time-outs, and  *)
(* keeps every member and every room in linked lists of malloc'd objects.    *)
(*                                                                           *)
(* Variables have the names of the C globals and structure fields; a field   *)
(* is a function from the addresses of the objects.  One action is one       *)
(* handler, run between two calls of select(); the time-out sweep, which     *)
(* walks the lists it unlinks nodes from, is one action per iteration.       *)
(***************************************************************************)
EXTENDS LinkedLists, ChatDefs, Integers, FiniteSets

CONSTANTS
  Members,                        \* addresses of struct member_type objects
  Rooms,                          \* addresses of struct room_type objects
  Ids,                            \* member ids the random generator may draw
  Names,                          \* member names clients ask for
  RoomNames,                      \* room names clients ask for
  LongNames,                      \* those longer than MAX_ROOM_NAME_LEN
  FullNames,                      \* those exactly that long
  Zeroed,                         \* rooms whose address has a lowest byte of 0
  MAX_NUM_OF_ROOMS,
  MAX_NUM_OF_MEMBERS_PER_ROOM

\* NULL, the C null pointer, also stands for the fields of a freed object.
ASSUME AddressAssumption ==
  /\ 0 \notin Ids
  /\ NULL \notin Members \cup Rooms \cup Ids \cup Names \cup RoomNames
  /\ LongNames \cup FullNames \subseteq RoomNames
  /\ LongNames \cap FullNames = {}
  /\ Zeroed \subseteq Rooms

ASSUME LimitAssumption ==
  /\ MAX_NUM_OF_ROOMS \in Nat \ {0}
  /\ MAX_NUM_OF_MEMBERS_PER_ROOM \in Nat \ {0}

MAX_NUM_OF_MEMBERS == MAX_NUM_OF_ROOMS * MAX_NUM_OF_MEMBERS_PER_ROOM

VARIABLES
  pc,                     \* where the server is: see PC below
  mt, rt,                 \* the cursors of the two sweep loops
  members,                \* the member objects malloc'd and not yet freed
  member_id, member_name, quiet_flag, current_room,
  next_member, prev_member, mem_list_head, mem_list_tail, total_num_of_members,
  next_room_member, prev_room_member,
  rooms,                  \* the room objects malloc'd and not yet freed
  room_name, empty_flag, num_of_members, member_list_head, member_list_tail,
  next_room, room_list_head, room_list_tail, total_num_of_rooms,
  reply                   \* what the last action sent

memberVars == <<members, member_id, member_name>>
memListVars == <<next_member, prev_member, mem_list_head, mem_list_tail,
                 total_num_of_members>>
placeVars == <<current_room, next_room_member, prev_room_member, num_of_members,
               member_list_head, member_list_tail>>
roomVars == <<rooms, room_name, next_room, room_list_head, room_list_tail,
              total_num_of_rooms>>
cursorVars == <<mt, rt>>
vars == <<pc, cursorVars, memberVars, quiet_flag, memListVars, placeVars,
          roomVars, empty_flag, reply>>

\* init: init_server reads the room file.  select: waiting for events.
\* sweepMembers, sweepRooms: in one of the loops of the time-out.
\* down: the process has died.
PC == {"init", "select", "sweepMembers", "sweepRooms", "down"}

-----------------------------------------------------------------------------
Silent == reply' = NoReply

(* Searches: each visits the nodes of a list from its head. *)

MemberList == Walk(mem_list_head, next_member)
RoomList == Walk(room_list_head, next_room)
RoomMembers(r) == Walk(member_list_head[r], next_room_member)

find_member_with_id(id) == {m \in MemberList : member_id[m] = id}

\* room_name has no place for the terminator of a full name: strcpy puts it into
\* the lowest byte of next_room, where the address of a room appended later
\* overwrites it.  What is read then is no name a client asks for.
Readable(r) == room_name[r] \in FullNames => next_room[r] = NULL \/ next_room[r] \in Zeroed

\* The rooms that strcmp finds equal to the name, and the one a search stops at.
RoomsNamed(name) == {r \in RoomList : room_name[r] = name /\ Readable(r)}
FirstNamed(name) == {r \in RoomsNamed(name) : RoomsNamed(name) \subseteq Walk(r, next_room)}

-----------------------------------------------------------------------------
(* create_room and init_server.  An object malloc'd for a request that then *)
(* fails is never linked and never freed: it is left out of the state.       *)

\* Mutant: the test for the name is missing.
RoomRefusedNoSearch(name) == name \in LongNames \/ total_num_of_rooms = MAX_NUM_OF_ROOMS

RoomRefused(name) ==                    \* create_room returns 1, 2 or 3
  \/ name \in LongNames
  \/ total_num_of_rooms = MAX_NUM_OF_ROOMS
  \/ RoomsNamed(name) # {}

\* The new room goes behind room_list_tail, which the code dereferences
\* whenever the list has a head.
TailIsNull == room_list_head # NULL /\ room_list_tail = NULL

RoomCreated(name) ==
  /\ ~ RoomRefused(name)
  /\ ~ TailIsNull
  /\ \E r \in Rooms \ rooms :
       /\ rooms' = rooms \cup {r}
       /\ room_name' = [room_name EXCEPT ![r] = name]
       /\ next_room' = AppendedNext(room_list_head, room_list_tail, next_room, r)
       /\ room_list_head' = AppendedHead(room_list_head, r)
       /\ room_list_tail' = r
  /\ total_num_of_rooms' = total_num_of_rooms + 1
  /\ UNCHANGED <<mt, rt, memberVars, memListVars, placeVars, empty_flag>>

\* The null tail is dereferenced and the process dies.
ServerDies ==
  /\ pc' = "down"
  /\ UNCHANGED <<mt, rt, memberVars, memListVars, placeVars, roomVars, empty_flag>>

Init ==
  /\ pc = "init" /\ mt = NULL /\ rt = NULL
  /\ members = {} /\ rooms = {}
  /\ member_id = [m \in Members |-> NULL]
  /\ member_name = [m \in Members |-> NULL]
  /\ quiet_flag = [m \in Members |-> 0]
  /\ current_room = [m \in Members |-> NULL]
  /\ next_member = [m \in Members |-> NULL]
  /\ prev_member = [m \in Members |-> NULL]
  /\ mem_list_head = NULL /\ mem_list_tail = NULL /\ total_num_of_members = 0
  /\ next_room_member = [m \in Members |-> NULL]
  /\ prev_room_member = [m \in Members |-> NULL]
  /\ room_name = [r \in Rooms |-> NULL]
  /\ empty_flag = [r \in Rooms |-> 0]
  /\ num_of_members = [r \in Rooms |-> 0]
  /\ member_list_head = [r \in Rooms |-> NULL]
  /\ member_list_tail = [r \in Rooms |-> NULL]
  /\ next_room = [r \in Rooms |-> NULL]
  /\ room_list_head = NULL /\ room_list_tail = NULL /\ total_num_of_rooms = 0
  /\ reply = NoReply

\* One more name of the room file; its refusals are ignored.
LoadRoom(name) ==
  /\ pc = "init"
  /\ RoomCreated(name)
  /\ UNCHANGED <<pc, quiet_flag, reply>>

StartLoop ==
  /\ pc = "init"
  /\ pc' = "select"
  /\ UNCHANGED <<cursorVars, memberVars, quiet_flag, memListVars, placeVars,
                 roomVars, empty_flag, reply>>

-----------------------------------------------------------------------------
(* Register requests. *)

\* Mutant: the loop stops one member too early.
FreeIdsOffByOne == Ids \ {member_id[m] : m \in MemberList \ {mem_list_tail}}

\* The loop that draws an id compares it with every member's before the tail.
FreeIds == Ids \ {member_id[m] : m \in MemberList}

ServerFull == total_num_of_members = MAX_NUM_OF_MEMBERS

Register(name) ==
  /\ pc = "select"
  /\ ~ ServerFull
  /\ \A m \in MemberList : member_name[m] # name
  /\ \E m \in Members \ members, id \in FreeIds :
       /\ members' = members \cup {m}
       /\ member_id' = [member_id EXCEPT ![m] = id]
       /\ member_name' = [member_name EXCEPT ![m] = name]
       /\ quiet_flag' = [quiet_flag EXCEPT ![m] = 0]
       /\ next_member' = AppendedNext(mem_list_head, mem_list_tail, next_member, m)
       /\ prev_member' = AppendedPrev(mem_list_head, mem_list_tail, prev_member, m)
       /\ mem_list_head' = AppendedHead(mem_list_head, m)
       /\ mem_list_tail' = m
       /\ reply' = Reply(REGISTER_SUCC, id, {})
  /\ total_num_of_members' = total_num_of_members + 1
  /\ UNCHANGED <<pc, cursorVars, placeVars, roomVars, empty_flag>>

RegisterRefused(name) ==
  /\ pc = "select"
  /\ \/ ServerFull
     \/ \E m \in MemberList : member_name[m] = name
  /\ reply' = Reply(REGISTER_FAIL, 0, IF ServerFull THEN {} ELSE {name})
  /\ UNCHANGED <<pc, cursorVars, memberVars, quiet_flag, memListVars, placeVars,
                 roomVars, empty_flag>>

-----------------------------------------------------------------------------
(* Requests of a member: process_control_msg looks the id up, clears the   *)
(* member's quiet flag and calls the handler.                              *)

\* Mutant: the flag is not cleared.
HeardFromStillQuiet(m, id) ==
  /\ pc = "select"
  /\ m \in find_member_with_id(id)
  /\ UNCHANGED quiet_flag

HeardFrom(m, id) ==
  /\ pc = "select"
  /\ m \in find_member_with_id(id)
  /\ quiet_flag' = [quiet_flag EXCEPT ![m] = 0]

\* No member has the id: the reply has type msg_type+2, whatever that means for
\* the request, or for the answer that somebody sends to the server.
UnknownSender(type) ==
  /\ pc = "select"
  /\ \E id \in Ids : find_member_with_id(id) = {}
  /\ reply' = Reply(type + 2, 0, {})
  /\ UNCHANGED <<pc, cursorVars, memberVars, quiet_flag, memListVars, placeVars,
                 roomVars, empty_flag>>

\* A read that fails, a type the switch does not know, a chat message from an
\* unknown id: nothing changes and nothing is sent.
Ignored ==
  /\ pc = "select"
  /\ Silent
  /\ UNCHANGED <<pc, cursorVars, memberVars, quiet_flag, memListVars, placeVars,
                 roomVars, empty_flag>>

\* Also what an answer does that a member sends to the server.
KeepAlive(m, id) ==
  /\ HeardFrom(m, id)
  /\ Silent
  /\ UNCHANGED <<pc, cursorVars, memberVars, memListVars, placeVars, roomVars, empty_flag>>

NameRead(r) == IF Readable(r) THEN room_name[r] ELSE NULL

ListRooms(m, id) ==
  /\ HeardFrom(m, id)
  /\ reply' = IF total_num_of_rooms = 0 THEN Reply(ROOM_LIST_FAIL, id, {})
              ELSE Reply(ROOM_LIST_SUCC, id,
                         {<<NameRead(r), num_of_members[r]>> : r \in RoomList})
  /\ UNCHANGED <<pc, cursorVars, memberVars, memListVars, placeVars, roomVars, empty_flag>>

ListMembers(m, id, name) ==
  /\ HeardFrom(m, id)
  /\ \/ \E r \in FirstNamed(name) :
          /\ member_list_head[r] # NULL
          /\ reply' = Reply(MEMBER_LIST_SUCC, id, {member_name[x] : x \in RoomMembers(r)})
     \/ /\ RoomsNamed(name) = {} \/ \E r \in FirstNamed(name) : member_list_head[r] = NULL
        /\ reply' = Reply(MEMBER_LIST_FAIL, id, {})
  /\ UNCHANGED <<pc, cursorVars, memberVars, memListVars, placeVars, roomVars, empty_flag>>

CreateRoom(m, id, name) ==
  /\ HeardFrom(m, id)
  /\ \/ /\ RoomCreated(name)
        /\ reply' = Reply(CREATE_ROOM_SUCC, id, {})
        /\ pc' = pc
     \/ /\ RoomRefused(name)
        /\ reply' = Reply(CREATE_ROOM_FAIL, id, {})
        /\ UNCHANGED <<pc, cursorVars, memberVars, memListVars, placeVars, roomVars,
                       empty_flag>>
     \/ /\ ~ RoomRefused(name) /\ TailIsNull
        /\ Silent
        /\ ServerDies

-----------------------------------------------------------------------------
(* Rooms and their members. *)

\* Mutant: the pointer of the unlinked node is not reset.
NextWithoutNoReset(m) ==
  IF current_room[m] = NULL THEN next_room_member
  ELSE UnlinkedNext(next_room_member, prev_room_member, m)

\* The room lists once m's node has left the list of its current room, if it
\* has one: remove_member and process_switch_room_request do this alike.
NextWithout(m) ==
  IF current_room[m] = NULL THEN next_room_member
  ELSE [UnlinkedNext(next_room_member, prev_room_member, m) EXCEPT ![m] = NULL]

PrevWithout(m) ==
  IF current_room[m] = NULL THEN prev_room_member
  ELSE [UnlinkedPrev(next_room_member, prev_room_member, m) EXCEPT ![m] = NULL]

HeadWithout(m) ==
  IF current_room[m] = NULL THEN member_list_head
  ELSE [member_list_head EXCEPT
          ![current_room[m]] = UnlinkedHead(@, next_room_member, prev_room_member, m)]

TailWithout(m) ==
  IF current_room[m] = NULL THEN member_list_tail
  ELSE [member_list_tail EXCEPT
          ![current_room[m]] = UnlinkedTail(@, next_room_member, prev_room_member, m)]

\* Mutant: the caller counts the member out once more.
CountWithoutTwice(m) ==
  IF current_room[m] = NULL THEN num_of_members
  ELSE [num_of_members EXCEPT ![current_room[m]] = @ - 2]

CountWithout(m) ==
  IF current_room[m] = NULL THEN num_of_members
  ELSE [num_of_members EXCEPT ![current_room[m]] = @ - 1]

SwitchRoom(m, id, name) ==
  /\ HeardFrom(m, id)
  /\ \E r \in FirstNamed(name) :
       /\ num_of_members[r] # MAX_NUM_OF_MEMBERS_PER_ROOM
       /\ current_room[m] # r
       /\ current_room' = [current_room EXCEPT ![m] = r]
       /\ next_room_member' =
            AppendedNext(HeadWithout(m)[r], TailWithout(m)[r], NextWithout(m), m)
       /\ prev_room_member' =
            AppendedPrev(HeadWithout(m)[r], TailWithout(m)[r], PrevWithout(m), m)
       /\ member_list_head' = [HeadWithout(m) EXCEPT ![r] = AppendedHead(@, m)]
       /\ member_list_tail' = [TailWithout(m) EXCEPT ![r] = m]
       /\ num_of_members' = [CountWithout(m) EXCEPT ![r] = @ + 1]
       /\ empty_flag' = [empty_flag EXCEPT ![r] = 0]
  /\ reply' = Reply(SWITCH_ROOM_SUCC, id, {})
  /\ UNCHANGED <<pc, cursorVars, memberVars, memListVars, roomVars>>

\* No such room, no place left in it, or the member is there already.
SwitchRefused(m, id, name) ==
  /\ HeardFrom(m, id)
  /\ \/ RoomsNamed(name) = {}
     \/ \E r \in FirstNamed(name) :
          num_of_members[r] = MAX_NUM_OF_MEMBERS_PER_ROOM \/ current_room[m] = r
  /\ reply' = Reply(SWITCH_ROOM_FAIL, id, {})
  /\ UNCHANGED <<pc, cursorVars, memberVars, memListVars, placeVars, roomVars, empty_flag>>

\* m leaves its room and the member list, and the caller frees it.
remove_member(m) ==
  /\ members' = members \ {m}
  /\ member_id' = [member_id EXCEPT ![m] = NULL]
  /\ member_name' = [member_name EXCEPT ![m] = NULL]
  /\ quiet_flag' = [quiet_flag EXCEPT ![m] = 0]
  /\ current_room' = [current_room EXCEPT ![m] = NULL]
  /\ next_room_member' = NextWithout(m)
  /\ prev_room_member' = PrevWithout(m)
  /\ member_list_head' = HeadWithout(m)
  /\ member_list_tail' = TailWithout(m)
  /\ num_of_members' = CountWithout(m)
  /\ next_member' = [UnlinkedNext(next_member, prev_member, m) EXCEPT ![m] = NULL]
  /\ prev_member' = [UnlinkedPrev(next_member, prev_member, m) EXCEPT ![m] = NULL]
  /\ mem_list_head' = UnlinkedHead(mem_list_head, next_member, prev_member, m)
  /\ mem_list_tail' = UnlinkedTail(mem_list_tail, next_member, prev_member, m)
  /\ total_num_of_members' = total_num_of_members - 1

Quit(m, id) ==
  /\ pc = "select"
  /\ m \in find_member_with_id(id)
  /\ remove_member(m)
  /\ Silent
  /\ UNCHANGED <<pc, cursorVars, roomVars, empty_flag>>

-----------------------------------------------------------------------------
(* Chat messages: relayed to the sender's room, first member first.  A      *)
(* sendto that fails ends the loop, so the members from there on miss it.   *)

Recipients(r, failed) == RoomMembers(r) \ Walk(failed, next_room_member)

ChatMessage(m, id) ==
  /\ HeardFrom(m, id)
  /\ \/ /\ current_room[m] = NULL
        /\ Silent
     \/ /\ current_room[m] # NULL
        /\ \E failed \in RoomMembers(current_room[m]) \cup {NULL} :
             reply' = Reply(CHAT, id,
                       {member_id[x] : x \in Recipients(current_room[m], failed)})
  /\ UNCHANGED <<pc, cursorVars, memberVars, memListVars, placeVars, roomVars, empty_flag>>

-----------------------------------------------------------------------------
(* The time-out of select(): sweep the member list, then the room list. *)

SweepTimeout ==
  /\ pc = "select"
  /\ pc' = "sweepMembers"
  /\ mt' = mem_list_head
  /\ Silent
  /\ UNCHANGED <<rt, memberVars, quiet_flag, memListVars, placeVars, roomVars, empty_flag>>

\* Mutant: the cursor stays on the node that may be freed.
NextMemberStays ==
  /\ pc = "sweepMembers" /\ mt # NULL
  /\ UNCHANGED <<mt, pc, rt, roomVars, empty_flag, reply>>

\* An iteration reads next_member (tmp_mt) before it may free the node.
NextMember ==
  /\ pc = "sweepMembers" /\ mt # NULL
  /\ mt' = next_member[mt]
  /\ UNCHANGED <<pc, rt, roomVars, empty_flag, reply>>

\* Mutant: the flag is not raised.
MarkQuietForgotten ==
  /\ NextMember
  /\ quiet_flag[mt] = 0
  /\ UNCHANGED <<quiet_flag, memberVars, memListVars, placeVars>>

MarkQuiet ==
  /\ NextMember
  /\ quiet_flag[mt] = 0
  /\ quiet_flag' = [quiet_flag EXCEPT ![mt] = @ + 1]
  /\ UNCHANGED <<memberVars, memListVars, placeVars>>

SweepMember ==
  /\ NextMember
  /\ quiet_flag[mt] # 0
  /\ remove_member(mt)

MembersSwept ==
  /\ pc = "sweepMembers" /\ mt = NULL
  /\ pc' = "sweepRooms"
  /\ rt' = room_list_head
  /\ UNCHANGED <<mt, memberVars, quiet_flag, memListVars, placeVars, roomVars,
                 empty_flag, reply>>

\* Mutant: the tail is left on the freed room.
TailWithoutRoomKept(r) == room_list_tail

\* The last room's predecessor does not become the tail: the tail becomes NULL.
TailWithoutRoom(r) == IF next_room[r] = NULL THEN NULL ELSE room_list_tail

\* remove_room searches the list for r or for the room before r.
remove_room(r) ==
  /\ rooms' = rooms \ {r}
  /\ room_name' = [room_name EXCEPT ![r] = NULL]
  /\ \/ /\ r = room_list_head
        /\ room_list_head' = next_room[r]
        /\ next_room' = [next_room EXCEPT ![r] = NULL]
     \/ /\ r # room_list_head
        /\ \E before \in RoomList :
             /\ next_room[before] = r
             /\ next_room' = [next_room EXCEPT ![before] = next_room[r], ![r] = NULL]
        /\ UNCHANGED room_list_head
  /\ room_list_tail' = TailWithoutRoom(r)

NextRoom ==
  /\ pc = "sweepRooms" /\ rt # NULL
  /\ rt' = next_room[rt]
  /\ UNCHANGED <<pc, mt, memberVars, quiet_flag, memListVars, placeVars, reply>>

SkipRoom ==
  /\ NextRoom
  /\ num_of_members[rt] # 0
  /\ UNCHANGED <<roomVars, empty_flag>>

\* Mutant: the flag is not raised.
MarkEmptyForgotten ==
  /\ NextRoom
  /\ num_of_members[rt] = 0 /\ empty_flag[rt] = 0
  /\ UNCHANGED <<empty_flag, roomVars>>

MarkEmpty ==
  /\ NextRoom
  /\ num_of_members[rt] = 0 /\ empty_flag[rt] = 0
  /\ empty_flag' = [empty_flag EXCEPT ![rt] = @ + 1]
  /\ UNCHANGED roomVars

\* Mutant: the room's members are not counted.
SweepRoomUncounted ==
  /\ NextRoom
  /\ empty_flag[rt] # 0 \/ num_of_members[rt] # 0
  /\ remove_room(rt)
  /\ total_num_of_rooms' = total_num_of_rooms - 1
  /\ empty_flag' = [empty_flag EXCEPT ![rt] = 0]

SweepRoom ==
  /\ NextRoom
  /\ num_of_members[rt] = 0 /\ empty_flag[rt] # 0
  /\ remove_room(rt)
  /\ total_num_of_rooms' = total_num_of_rooms - 1
  /\ empty_flag' = [empty_flag EXCEPT ![rt] = 0]

SweepDone ==
  /\ pc = "sweepRooms" /\ rt = NULL
  /\ pc' = "select"
  /\ UNCHANGED <<mt, rt, memberVars, quiet_flag, memListVars, placeVars, roomVars,
                 empty_flag, reply>>

-----------------------------------------------------------------------------
MemberRequest(m, id) ==
  \/ KeepAlive(m, id)
  \/ ListRooms(m, id)
  \/ Quit(m, id)
  \/ ChatMessage(m, id)
  \/ \E name \in RoomNames : \/ ListMembers(m, id, name)
                             \/ CreateRoom(m, id, name)
                             \/ SwitchRoom(m, id, name)
                             \/ SwitchRefused(m, id, name)

SweepStep ==
  \/ MarkQuiet \/ SweepMember \/ MembersSwept
  \/ SkipRoom \/ MarkEmpty \/ SweepRoom \/ SweepDone

\* The process is gone.
Down == pc = "down" /\ UNCHANGED vars

Next ==
  \/ \E name \in RoomNames : LoadRoom(name)
  \/ StartLoop
  \/ \E name \in Names : Register(name) \/ RegisterRefused(name)
  \/ \E m \in Members, id \in Ids : MemberRequest(m, id)
  \/ \E type \in MemberRequests : UnknownSender(type)
  \/ Ignored
  \/ SweepTimeout
  \/ SweepStep
  \/ Down

Spec == Init /\ [][Next]_vars

\* The server is given the processor, and select() times out again and again:
\* "-s" was given and some stretch of the load lets the timer run out.
FairSpec == Spec /\ WF_vars(StartLoop) /\ WF_vars(SweepTimeout) /\ WF_vars(SweepStep)

-----------------------------------------------------------------------------
(* Properties. *)

MemberTypes ==
  /\ members \subseteq Members
  /\ member_id \in [Members -> Ids \cup {NULL}]
  /\ member_name \in [Members -> Names \cup {NULL}]
  /\ quiet_flag \in [Members -> {0, 1}]
  /\ next_member \in [Members -> Members \cup {NULL}]
  /\ prev_member \in [Members -> Members \cup {NULL}]
  /\ mem_list_head \in Members \cup {NULL}
  /\ mem_list_tail \in Members \cup {NULL}
  /\ total_num_of_members \in 0 .. MAX_NUM_OF_MEMBERS

PlaceTypes ==
  /\ current_room \in [Members -> Rooms \cup {NULL}]
  /\ next_room_member \in [Members -> Members \cup {NULL}]
  /\ prev_room_member \in [Members -> Members \cup {NULL}]
  /\ member_list_head \in [Rooms -> Members \cup {NULL}]
  /\ member_list_tail \in [Rooms -> Members \cup {NULL}]
  /\ num_of_members \in [Rooms -> 0 .. MAX_NUM_OF_MEMBERS_PER_ROOM]

RoomTypes ==
  /\ rooms \subseteq Rooms
  /\ room_name \in [Rooms -> RoomNames \cup {NULL}]
  /\ empty_flag \in [Rooms -> {0, 1}]
  /\ next_room \in [Rooms -> Rooms \cup {NULL}]
  /\ room_list_head \in Rooms \cup {NULL}
  /\ room_list_tail \in Rooms \cup {NULL}
  /\ total_num_of_rooms \in 0 .. MAX_NUM_OF_ROOMS

ControlTypes ==
  /\ pc \in PC
  /\ mt \in Members \cup {NULL}
  /\ rt \in Rooms \cup {NULL}

\* Every variable has its type, and no count exceeds its limit.
TypeOK == MemberTypes /\ PlaceTypes /\ RoomTypes /\ ControlTypes

\* The member list is the registered members, each once, however they were
\* appended, unlinked by a quit or unlinked by a sweep in progress, and the
\* server's count of them is exact (process_register_request, remove_member).
MemberListOK ==
  /\ IsList(members, mem_list_head, mem_list_tail, next_member, prev_member)
  /\ total_num_of_members = Cardinality(members)

InRoom(r) == {m \in members : current_room[m] = r}

\* Every room's list is exactly the members whose current_room it is and its
\* count is exact: nobody is in two lists, left behind in a room by a switch,
\* or pointed to after being freed (process_switch_room_request, remove_member).
RoomMembersOK ==
  \A r \in Rooms :
    /\ IsList(InRoom(r), member_list_head[r], member_list_tail[r],
              next_room_member, prev_room_member)
    /\ num_of_members[r] = Cardinality(InRoom(r))

\* A member's room is a room that exists: the sweep frees no room that somebody
\* is in (the num_of_members test of the sweep, remove_room).
NoDanglingRoom == \A m \in members : current_room[m] \in rooms \cup {NULL}

\* The room list is exactly the rooms, and the server's count of them is exact
\* (create_room, remove_room).
RoomListOK ==
  /\ IsChain(rooms, room_list_head, next_room)
  /\ total_num_of_rooms = Cardinality(rooms)

\* room_list_tail is the last room or NULL, never a room that was freed or one
\* in the middle, behind which create_room would lose the rest of the list.
RoomTailOK ==
  IF room_list_tail = NULL THEN TRUE
  ELSE room_list_tail \in rooms /\ next_room[room_list_tail] = NULL

\* The sweep's cursors are nodes still allocated: freeing a node leaves the next
\* one, saved before, valid (the loops of server_main.c).
CursorsOK == mt \in members \cup {NULL} /\ rt \in rooms \cup {NULL}

\* An id and a member name belong to one member (process_register_request).
MembersDiffer ==
  /\ \A m \in members : member_id[m] # NULL /\ member_name[m] # NULL
  /\ \A m, n \in members :
       member_id[m] = member_id[n] \/ member_name[m] = member_name[n] => m = n

\* Two rooms never have the same name, but for the names of MAX_ROOM_NAME_LEN
\* characters, which create_room lets through and may not find again.
RoomsDiffer ==
  /\ \A r \in rooms : room_name[r] # NULL
  /\ \A r, s \in rooms :
       room_name[r] = room_name[s] /\ room_name[r] \notin FullNames => r = s

\* It does not matter which match a search from the head of a list meets first:
\* ids, member names and shorter room names are unique (find_member_with_id,
\* process_register_request, create_room, process_switch_room_request).
SearchesAgree == MembersDiffer /\ RoomsDiffer

\* A node that is in no list points nowhere, so it can be appended to one.
UnlinkedOK ==
  /\ \A m \in Members \ members :
       next_member[m] = NULL /\ prev_member[m] = NULL /\ current_room[m] = NULL
  /\ \A m \in Members :
       current_room[m] = NULL => next_room_member[m] = NULL /\ prev_room_member[m] = NULL
  /\ \A r \in Rooms \ rooms : next_room[r] = NULL

\* A cursor points somewhere in its own loop only: no request is handled, and so
\* nothing is freed behind the loop's back, while a sweep runs.
CursorsIdle ==
  /\ pc # "sweepMembers" => mt = NULL
  /\ pc # "sweepRooms" => rt = NULL

Up == pc # "down"

\* "server times out periodically to remove dormant/crashed clients"
\* (server_main.c:118): no member stays unmarked for ever, and a marked one is
\* heard from or leaves.
DormantMembersLeave ==
  \A m \in Members :
    /\ []<>(Up /\ m \in members => quiet_flag[m] = 1)
    /\ []<>(Up /\ m \in members => quiet_flag[m] = 0)

\* "... and rooms that do not have a member": an empty room is entered or goes.
EmptyRoomsLeave ==
  \A r \in Rooms : []<>(Up /\ r \in rooms => InRoom(r) # {})

\* The process stays in its loop: "server sits in an infinite loop waiting for
\* events" (A3/server_main.c:116).
SitsInLoop == pc # "down"
=============================================================================
