--------------------------- MODULE ChatServerProofs ---------------------------
(***************************************************************************)
(* The server's lists and counts are right whatever its members, rooms, ids  *)
(* and names are, and however many.  The inductive invariant has one part    *)
(* per group of variables, so that a handler disturbs one or two of them.    *)
(* From it, the second half of the module: ChatServer implements ChatService. *)
(***************************************************************************)
EXTENDS ChatRefinement, LinkedListsProofs, FiniteSetTheorems, TLAPS

MemberInv ==
  /\ MemberTypes /\ MemberListOK /\ MembersDiffer
  /\ IsFiniteSet(members)
  /\ \A m \in Members \ members : next_member[m] = NULL /\ prev_member[m] = NULL

PlaceInv ==
  /\ PlaceTypes /\ RoomMembersOK /\ NoDanglingRoom
  /\ \A m \in Members \ members : current_room[m] = NULL
  /\ \A m \in Members :
       current_room[m] = NULL => next_room_member[m] = NULL /\ prev_room_member[m] = NULL

RoomInv ==
  /\ RoomTypes /\ RoomListOK /\ RoomTailOK /\ RoomsDiffer
  /\ IsFiniteSet(rooms)
  /\ \A r \in Rooms \ rooms : next_room[r] = NULL

CursorInv == ControlTypes /\ CursorsOK /\ CursorsIdle

IInv == MemberInv /\ PlaceInv /\ RoomInv /\ CursorInv

-----------------------------------------------------------------------------
LEMMA LimitIsNat == MAX_NUM_OF_MEMBERS \in Nat
<1>1. \A a, b \in Nat : a * b \in Nat
  OBVIOUS
<1> QED  BY <1>1, LimitAssumption DEF MAX_NUM_OF_MEMBERS

LEMMA NullIsNoObject == NULL \notin Members /\ NULL \notin Rooms
BY AddressAssumption

\* Each part depends on its own variables only.
LEMMA MemberFrame ==
  ASSUME MemberInv, quiet_flag' \in [Members -> {0, 1}],
         UNCHANGED <<memberVars, memListVars>>
  PROVE  MemberInv'
BY DEF MemberInv, MemberTypes, MemberListOK, MembersDiffer, memberVars, memListVars

LEMMA PlaceFrame ==
  ASSUME PlaceInv, UNCHANGED <<members, placeVars>>, rooms \subseteq rooms'
  PROVE  PlaceInv'
BY DEF PlaceInv, PlaceTypes, RoomMembersOK, InRoom, NoDanglingRoom, placeVars

LEMMA RoomFrame ==
  ASSUME RoomInv, empty_flag' \in [Rooms -> {0, 1}], UNCHANGED roomVars
  PROVE  RoomInv'
BY DEF RoomInv, RoomTypes, RoomListOK, RoomTailOK, RoomsDiffer, roomVars

LEMMA CursorFrame ==
  ASSUME CursorInv, pc' \in PC, pc' \notin {"sweepMembers", "sweepRooms"},
         pc \notin {"sweepMembers", "sweepRooms"}, UNCHANGED cursorVars
  PROVE  CursorInv'
BY DEF CursorInv, ControlTypes, CursorsOK, CursorsIdle, cursorVars, PC

\* A search meets registered members, and rooms that exist, only.
LEMMA SearchesFind ==
  ASSUME IInv
  PROVE  MemberList = members /\ RoomList = rooms
<1>1. MemberList = members
  BY WalkVisitsChain DEF IInv, MemberInv, MemberTypes, MemberListOK, IsList, MemberList
<1>2. RoomList = rooms
  BY WalkVisitsChain DEF IInv, RoomInv, RoomTypes, RoomListOK, RoomList
<1> QED  BY <1>1, <1>2

-----------------------------------------------------------------------------
(* create_room and remove_room. *)

LEMMA RoomCreatedStep ==
  ASSUME IInv, NEW name \in RoomNames, RoomCreated(name)
  PROVE  RoomInv' /\ rooms \subseteq rooms'
<1> USE NullIsNoObject
<1>1. PICK r \in Rooms \ rooms :
        /\ rooms' = rooms \cup {r}
        /\ room_name' = [room_name EXCEPT ![r] = name]
        /\ next_room' = AppendedNext(room_list_head, room_list_tail, next_room, r)
        /\ room_list_head' = AppendedHead(room_list_head, r)
        /\ room_list_tail' = r
  BY DEF RoomCreated
<1>2. /\ total_num_of_rooms' = total_num_of_rooms + 1 /\ empty_flag' = empty_flag
      /\ total_num_of_rooms # MAX_NUM_OF_ROOMS
      /\ \A s \in rooms : room_name[s] = name => name \in FullNames
  BY SearchesFind DEF RoomCreated, RoomRefused, RoomsNamed, Readable
<1>3. room_list_head # NULL => room_list_tail \in rooms /\ next_room[room_list_tail] = NULL
  BY DEF RoomCreated, TailIsNull, IInv, RoomInv, RoomTailOK
<1>4. /\ next_room' \in [Rooms -> Rooms \cup {NULL}]
      /\ IsChain(rooms', room_list_head', next_room')
  BY <1>1, <1>3, ChainAppend DEF IInv, RoomInv, RoomTypes, RoomListOK
<1>5. next_room'[r] = NULL /\ \A s \in Rooms \ rooms' : next_room'[s] = NULL
  BY <1>1, <1>3 DEF AppendedNext, IInv, RoomInv, RoomTypes
<1>6. IsFiniteSet(rooms') /\ Cardinality(rooms') = total_num_of_rooms'
  BY <1>1, <1>2, FS_AddElement DEF IInv, RoomInv, RoomListOK
<1>7. RoomTypes'
  <2>1. total_num_of_rooms' \in 0 .. MAX_NUM_OF_ROOMS
    BY <1>2, LimitAssumption DEF IInv, RoomInv, RoomTypes
  <2>2. /\ rooms' \subseteq Rooms
        /\ room_list_head' \in Rooms \cup {NULL} /\ room_list_tail' \in Rooms \cup {NULL}
    BY <1>1 DEF IInv, RoomInv, RoomTypes, AppendedHead
  <2>3. /\ room_name' \in [Rooms -> RoomNames \cup {NULL}]
        /\ empty_flag' \in [Rooms -> {0, 1}]
    BY <1>1, <1>2 DEF IInv, RoomInv, RoomTypes
  <2> QED  BY <1>4, <2>1, <2>2, <2>3 DEF RoomTypes
<1>8. RoomsDiffer'
  BY <1>1, <1>2, AddressAssumption DEF IInv, RoomInv, RoomTypes, RoomsDiffer
<1>9. RoomListOK' /\ RoomTailOK'
  BY <1>1, <1>4, <1>5, <1>6 DEF RoomListOK, RoomTailOK
<1> QED  BY <1>1, <1>5, <1>6, <1>7, <1>8, <1>9 DEF RoomInv

LEMMA remove_roomStep ==
  ASSUME IInv, NEW r \in rooms, remove_room(r),
         total_num_of_rooms' = total_num_of_rooms - 1,
         empty_flag' = [empty_flag EXCEPT ![r] = 0]
  PROVE  RoomInv' /\ rooms' = rooms \ {r}
<1> USE NullIsNoObject
<1>1. /\ rooms \subseteq Rooms /\ next_room \in [Rooms -> Rooms \cup {NULL}]
      /\ IsChain(rooms, room_list_head, next_room) /\ r \in Rooms /\ NULL \notin rooms
      /\ rooms' = rooms \ {r} /\ room_name' = [room_name EXCEPT ![r] = NULL]
      /\ room_list_tail' = IF next_room[r] = NULL THEN NULL ELSE room_list_tail
      /\ next_room[r] # r
  BY ChainHasNoLoop DEF IInv, RoomInv, RoomTypes, RoomListOK, remove_room, TailWithoutRoom
<1>2. /\ next_room' \in [Rooms -> Rooms \cup {NULL}]
      /\ IsChain(rooms', room_list_head', next_room')
      /\ next_room'[r] = NULL
      /\ \A s \in Rooms \ rooms : next_room'[s] = next_room[s]
      /\ \A s \in rooms' : next_room[s] = NULL => next_room'[s] = NULL
      /\ room_list_head' \in Rooms \cup {NULL}
  <2>1. CASE r = room_list_head
    <3>1. /\ room_list_head' = next_room[r]
          /\ next_room' = [next_room EXCEPT ![r] = NULL]
      BY <2>1 DEF remove_room, TailWithoutRoom
    <3>2. IsChain(rooms \ {r}, next_room[r], next_room)
      BY <1>1, <2>1, ChainUnlinkHead
    <3>3. \A s \in rooms \ {r} : next_room'[s] = next_room[s]
      BY <1>1, <3>1
    <3>4. IsChain(rooms \ {r}, next_room[r], next_room')
      BY <1>1, <3>2, <3>3, ChainFrame
    <3> QED  BY <1>1, <3>1, <3>4
  <2>2. CASE r # room_list_head
    <3>1. room_list_head' = room_list_head
      BY <2>2 DEF remove_room, TailWithoutRoom
    <3>2. PICK before \in rooms :
            /\ next_room[before] = r
            /\ next_room' = [next_room EXCEPT ![before] = next_room[r], ![r] = NULL]
      BY <2>2, SearchesFind DEF remove_room, TailWithoutRoom
    <3> DEFINE n == [next_room EXCEPT ![before] = next_room[r]]
    <3>3. IsChain(rooms \ {r}, room_list_head, n)
      BY <1>1, <3>2, ChainUnlink
    <3>4. before # r /\ \A s \in rooms \ {r} : next_room'[s] = n[s]
      BY <1>1, <3>2
    <3>5. IsChain(rooms \ {r}, room_list_head, next_room')
      <4> HIDE DEF n
      <4> QED  BY <1>1, <3>3, <3>4, ChainFrame
    <3>6. next_room' \in [Rooms -> Rooms \cup {NULL}]
      BY <1>1, <3>2
    <3>7. \A s \in Rooms \ rooms : next_room'[s] = next_room[s]
      BY <1>1, <3>2
    <3>8. \A s \in rooms' : next_room[s] = NULL => next_room'[s] = NULL
      BY <1>1, <3>2
    <3>9. next_room'[r] = NULL
      BY <1>1, <3>2
    <3> QED  BY <1>1, <3>1, <3>5, <3>6, <3>7, <3>8, <3>9 DEF IsChain
  <2> QED  BY <2>1, <2>2
<1>3. IsFiniteSet(rooms') /\ Cardinality(rooms') = total_num_of_rooms'
  BY <1>1, FS_RemoveElement DEF IInv, RoomInv, RoomListOK
<1>4. total_num_of_rooms' \in 0 .. MAX_NUM_OF_ROOMS
  <2>1. Cardinality(rooms') \in Nat
    BY <1>3, FS_CardinalityType
  <2> QED  BY <1>3, <2>1, LimitAssumption DEF IInv, RoomInv, RoomTypes
<1>5. RoomTailOK'
  <2>1. CASE room_list_tail' = NULL
    BY <2>1 DEF RoomTailOK
  <2>2. CASE room_list_tail' # NULL
    <3>1. /\ room_list_tail' = room_list_tail /\ next_room[r] # NULL
          /\ room_list_tail \in rooms /\ next_room[room_list_tail] = NULL
      BY <1>1, <2>2 DEF IInv, RoomInv, RoomTailOK
    <3> QED  BY <1>1, <1>2, <3>1 DEF RoomTailOK
  <2> QED  BY <2>1, <2>2
<1>6. RoomTypes'
  BY <1>1, <1>2, <1>4 DEF IInv, RoomInv, RoomTypes
<1>7. RoomsDiffer'
  BY <1>1 DEF IInv, RoomInv, RoomTypes, RoomsDiffer
<1>8. \A s \in Rooms \ rooms' : next_room'[s] = NULL
  BY <1>1, <1>2 DEF IInv, RoomInv
<1> QED  BY <1>1, <1>2, <1>3, <1>5, <1>6, <1>7, <1>8 DEF RoomInv, RoomListOK

-----------------------------------------------------------------------------
(* Members enter and leave. *)

LEMMA RegisterStep ==
  ASSUME IInv, NEW name \in Names, Register(name)
  PROVE  IInv'
<1> USE NullIsNoObject
<1>1. PICK m \in Members \ members, id \in FreeIds :
        /\ members' = members \cup {m}
        /\ member_id' = [member_id EXCEPT ![m] = id]
        /\ member_name' = [member_name EXCEPT ![m] = name]
        /\ quiet_flag' = [quiet_flag EXCEPT ![m] = 0]
        /\ next_member' = AppendedNext(mem_list_head, mem_list_tail, next_member, m)
        /\ prev_member' = AppendedPrev(mem_list_head, mem_list_tail, prev_member, m)
        /\ mem_list_head' = AppendedHead(mem_list_head, m)
        /\ mem_list_tail' = m
  BY DEF Register, ServerFull
<1>2. /\ total_num_of_members' = total_num_of_members + 1
      /\ total_num_of_members # MAX_NUM_OF_MEMBERS
      /\ \A x \in members : member_name[x] # name /\ member_id[x] # id
      /\ id \in Ids /\ pc = "select"
      /\ UNCHANGED <<pc, cursorVars, placeVars, roomVars, empty_flag>>
  BY SearchesFind DEF Register, FreeIds, ServerFull
<1>3. /\ next_member' \in [Members -> Members \cup {NULL}]
      /\ prev_member' \in [Members -> Members \cup {NULL}]
      /\ IsList(members', mem_list_head', mem_list_tail', next_member', prev_member')
  BY <1>1, ListAppend DEF IInv, MemberInv, MemberTypes, MemberListOK
<1>4. \A x \in Members \ members' : next_member'[x] = NULL /\ prev_member'[x] = NULL
  <2>1. mem_list_head # NULL => mem_list_tail \in members
    BY DEF IInv, MemberInv, MemberListOK, IsList, IsChain
  <2> QED  BY <1>1, <2>1 DEF AppendedNext, AppendedPrev, IInv, MemberInv, MemberTypes
<1>5. IsFiniteSet(members') /\ Cardinality(members') = total_num_of_members'
  BY <1>1, <1>2, FS_AddElement DEF IInv, MemberInv, MemberListOK
<1>6. MemberTypes'
  <2>1. total_num_of_members' \in 0 .. MAX_NUM_OF_MEMBERS
    BY <1>2, LimitIsNat DEF IInv, MemberInv, MemberTypes
  <2>2. /\ members' \subseteq Members
        /\ mem_list_head' \in Members \cup {NULL} /\ mem_list_tail' \in Members \cup {NULL}
    BY <1>1 DEF IInv, MemberInv, MemberTypes, AppendedHead
  <2>3. /\ member_id' \in [Members -> Ids \cup {NULL}]
        /\ member_name' \in [Members -> Names \cup {NULL}]
        /\ quiet_flag' \in [Members -> {0, 1}]
    BY <1>1, <1>2 DEF IInv, MemberInv, MemberTypes
  <2>4. MAX_NUM_OF_MEMBERS' = MAX_NUM_OF_MEMBERS
    BY DEF MAX_NUM_OF_MEMBERS
  <2> QED  BY <1>3, <2>1, <2>2, <2>3, <2>4 DEF MemberTypes
<1>7. MembersDiffer'
  BY <1>1, <1>2, AddressAssumption DEF IInv, MemberInv, MemberTypes, MembersDiffer
<1>8. MemberInv'
  BY <1>3, <1>4, <1>5, <1>6, <1>7 DEF MemberInv, MemberListOK
<1>9. PlaceInv'
  <2>1. current_room[m] = NULL
    BY DEF IInv, PlaceInv
  <2>2. \A r \in Rooms : {x \in members' : current_room[x] = r} = {x \in members : current_room[x] = r}
    BY <1>1, <2>1
  <2>3. RoomMembersOK'
    BY <1>2, <2>2 DEF IInv, PlaceInv, RoomMembersOK, InRoom, placeVars
  <2>4. NoDanglingRoom'
    BY <1>1, <1>2, <2>1 DEF IInv, PlaceInv, NoDanglingRoom, placeVars, roomVars
  <2>5. PlaceTypes' /\ \A x \in Members \ members' : current_room'[x] = NULL
    BY <1>1, <1>2 DEF IInv, PlaceInv, PlaceTypes, placeVars
  <2>6. \A x \in Members : current_room'[x] = NULL =>
                           next_room_member'[x] = NULL /\ prev_room_member'[x] = NULL
    BY <1>2 DEF IInv, PlaceInv, placeVars
  <2> QED  BY <2>3, <2>4, <2>5, <2>6 DEF PlaceInv
<1>10. RoomInv'
  BY <1>2, RoomFrame DEF IInv, RoomInv, RoomTypes
<1>11. CursorInv'
  BY <1>2, CursorFrame DEF IInv, CursorInv, ControlTypes
<1> QED  BY <1>8, <1>9, <1>10, <1>11 DEF IInv

\* Once m has left its room every room's list is right for the others, and m's
\* own pointers are reset.
LEMMA LeavingRoom ==
  ASSUME IInv, NEW m \in members
  PROVE  /\ NextWithout(m) \in [Members -> Members \cup {NULL}]
         /\ PrevWithout(m) \in [Members -> Members \cup {NULL}]
         /\ HeadWithout(m) \in [Rooms -> Members \cup {NULL}]
         /\ TailWithout(m) \in [Rooms -> Members \cup {NULL}]
         /\ CountWithout(m) \in [Rooms -> 0 .. MAX_NUM_OF_MEMBERS_PER_ROOM]
         /\ NextWithout(m)[m] = NULL /\ PrevWithout(m)[m] = NULL
         /\ \A x \in Members : current_room[x] = NULL =>
              NextWithout(m)[x] = NULL /\ PrevWithout(m)[x] = NULL
         /\ \A r \in Rooms :
              /\ IsList(InRoom(r) \ {m}, HeadWithout(m)[r], TailWithout(m)[r],
                        NextWithout(m), PrevWithout(m))
              /\ IsFiniteSet(InRoom(r) \ {m})
              /\ CountWithout(m)[r] = Cardinality(InRoom(r) \ {m})
<1> USE NullIsNoObject
<1> DEFINE o == current_room[m]
           n == NextWithout(m)
           p == PrevWithout(m)
<1>1. /\ PlaceTypes /\ RoomMembersOK /\ m \in Members /\ members \subseteq Members
      /\ o \in Rooms \cup {NULL}
      /\ \A r \in Rooms : InRoom(r) \subseteq Members /\ IsFiniteSet(InRoom(r))
  BY FS_Subset DEF IInv, MemberInv, MemberTypes, PlaceInv, PlaceTypes, InRoom
<1>2. CASE o = NULL
  <2>1. /\ n = next_room_member /\ p = prev_room_member /\ HeadWithout(m) = member_list_head
        /\ TailWithout(m) = member_list_tail /\ CountWithout(m) = num_of_members
    BY <1>2 DEF NextWithout, PrevWithout, HeadWithout, TailWithout, CountWithout
  <2>2. \A r \in Rooms : InRoom(r) \ {m} = InRoom(r)
    BY <1>2 DEF InRoom
  <2>3. \A x \in Members : current_room[x] = NULL => n[x] = NULL /\ p[x] = NULL
    BY <2>1 DEF IInv, PlaceInv
  <2>4. \A r \in Rooms :
          /\ IsList(InRoom(r) \ {m}, HeadWithout(m)[r], TailWithout(m)[r], n, p)
          /\ IsFiniteSet(InRoom(r) \ {m})
          /\ CountWithout(m)[r] = Cardinality(InRoom(r) \ {m})
    <3> HIDE DEF n, p
    <3> QED  BY <1>1, <2>1, <2>2 DEF RoomMembersOK
  <2>5. PlaceTypes
    BY <1>1
  <2> QED  BY <1>1, <1>2, <2>1, <2>3, <2>4, <2>5 DEF PlaceTypes
<1>3. CASE o # NULL
  <2> DEFINE S == InRoom(o)
  <2>1. o \in Rooms /\ m \in S /\ S \in SUBSET Members
    BY <1>1, <1>3 DEF InRoom
  <2>2. IsList(S, member_list_head[o], member_list_tail[o], next_room_member, prev_room_member)
    BY <1>1, <2>1 DEF RoomMembersOK
  <2>3. /\ n = [UnlinkedNext(next_room_member, prev_room_member, m) EXCEPT ![m] = NULL]
        /\ p = [UnlinkedPrev(next_room_member, prev_room_member, m) EXCEPT ![m] = NULL]
    BY <1>3 DEF NextWithout, PrevWithout
  <2>4. HeadWithout(m) = [member_list_head EXCEPT ![o] =
                  UnlinkedHead(member_list_head[o], next_room_member, prev_room_member, m)]
    BY <1>3, <2>1 DEF HeadWithout
  <2>5. TailWithout(m) = [member_list_tail EXCEPT ![o] =
                  UnlinkedTail(member_list_tail[o], next_room_member, prev_room_member, m)]
    BY <1>3, <2>1 DEF TailWithout
  <2>6. /\ n \in [Members -> Members \cup {NULL}]
        /\ p \in [Members -> Members \cup {NULL}]
        /\ n[m] = NULL /\ p[m] = NULL
        /\ \A x \in Members \ S : n[x] = next_room_member[x] /\ p[x] = prev_room_member[x]
        /\ IsList(S \ {m},
                  UnlinkedHead(member_list_head[o], next_room_member, prev_room_member, m),
                  UnlinkedTail(member_list_tail[o], next_room_member, prev_room_member, m),
                  n, p)
    <3> DEFINE N == [UnlinkedNext(next_room_member, prev_room_member, m) EXCEPT ![m] = NULL]
               P == [UnlinkedPrev(next_room_member, prev_room_member, m) EXCEPT ![m] = NULL]
    <3>1. /\ N \in [Members -> Members \cup {NULL}]
          /\ P \in [Members -> Members \cup {NULL}]
          /\ N[m] = NULL /\ P[m] = NULL
          /\ \A x \in Members \ S : N[x] = next_room_member[x] /\ P[x] = prev_room_member[x]
          /\ IsList(S \ {m},
                    UnlinkedHead(member_list_head[o], next_room_member, prev_room_member, m),
                    UnlinkedTail(member_list_tail[o], next_room_member, prev_room_member, m),
                    N, P)
      <4> HIDE DEF S
      <4>1. /\ next_room_member \in [Members -> Members \cup {NULL}]
            /\ prev_room_member \in [Members -> Members \cup {NULL}]
        BY <1>1 DEF PlaceTypes
      <4> QED  BY <2>1, <2>2, <4>1, ListUnlink
    <3>2. n = N /\ p = P
      BY <2>3
    <3> HIDE DEF N, P, n, p, S
    <3> QED  BY <3>1, <3>2
  <2>7. /\ HeadWithout(m) \in [Rooms -> Members \cup {NULL}]
        /\ TailWithout(m) \in [Rooms -> Members \cup {NULL}]
    <3>1. /\ UnlinkedHead(member_list_head[o], next_room_member, prev_room_member, m)
               \in Members \cup {NULL}
          /\ UnlinkedTail(member_list_tail[o], next_room_member, prev_room_member, m)
               \in Members \cup {NULL}
      BY <1>1, <2>1 DEF PlaceTypes, UnlinkedHead, UnlinkedTail
    <3> QED  BY <1>1, <2>1, <2>4, <2>5, <3>1 DEF PlaceTypes
  <2>8. /\ CountWithout(m) = [num_of_members EXCEPT ![o] = num_of_members[o] - 1]
        /\ num_of_members[o] = Cardinality(S) /\ IsFiniteSet(S)
        /\ IsFiniteSet(S \ {m}) /\ Cardinality(S \ {m}) = Cardinality(S) - 1
        /\ Cardinality(S \ {m}) \in Nat
    BY <1>1, <1>3, <2>1, FS_RemoveElement, FS_CardinalityType
    DEF RoomMembersOK, CountWithout
  <2>9. CountWithout(m) \in [Rooms -> 0 .. MAX_NUM_OF_MEMBERS_PER_ROOM]
    <3>1. num_of_members[o] - 1 \in 0 .. MAX_NUM_OF_MEMBERS_PER_ROOM
      BY <1>1, <2>1, <2>8, LimitAssumption DEF PlaceTypes
    <3> QED  BY <1>1, <2>1, <2>8, <3>1 DEF PlaceTypes
  <2>10. ASSUME NEW r \in Rooms
         PROVE  /\ IsList(InRoom(r) \ {m}, HeadWithout(m)[r], TailWithout(m)[r], n, p)
                /\ IsFiniteSet(InRoom(r) \ {m})
                /\ CountWithout(m)[r] = Cardinality(InRoom(r) \ {m})
    <3>1. CASE r = o
      BY <1>1, <2>1, <2>4, <2>5, <2>6, <2>8, <3>1 DEF PlaceTypes
    <3>2. CASE r # o
      <4>1. InRoom(r) \ {m} = InRoom(r) /\ InRoom(r) \subseteq Members \ S
        BY <1>1, <3>2 DEF InRoom
      <4>2. /\ HeadWithout(m)[r] = member_list_head[r]
            /\ TailWithout(m)[r] = member_list_tail[r]
            /\ CountWithout(m)[r] = num_of_members[r]
        BY <1>1, <2>1, <2>4, <2>5, <2>8, <3>2 DEF PlaceTypes
      <4>3. IsList(InRoom(r), member_list_head[r], member_list_tail[r],
                   next_room_member, prev_room_member)
        BY <1>1 DEF RoomMembersOK
      <4>4. IsList(InRoom(r), member_list_head[r], member_list_tail[r], n, p)
        BY <2>6, <4>1, <4>3, ListFrame
      <4> QED  BY <1>1, <4>1, <4>2, <4>4 DEF RoomMembersOK
    <3> QED  BY <3>1, <3>2
  <2>11. ASSUME NEW x \in Members, current_room[x] = NULL
         PROVE  n[x] = NULL /\ p[x] = NULL
    <3>1. x \in Members \ S
      BY <1>3, <2>11 DEF InRoom
    <3> QED  BY <2>6, <2>11, <3>1 DEF IInv, PlaceInv
  <2> QED  BY <2>6, <2>7, <2>9, <2>10, <2>11
<1> QED  BY <1>1, <1>2, <1>3

LEMMA remove_memberStep ==
  ASSUME IInv, NEW m \in members, remove_member(m), rooms' = rooms
  PROVE  MemberInv' /\ PlaceInv' /\ members' = members \ {m}
<1> USE NullIsNoObject
<1> DEFINE N == [UnlinkedNext(next_member, prev_member, m) EXCEPT ![m] = NULL]
           P == [UnlinkedPrev(next_member, prev_member, m) EXCEPT ![m] = NULL]
<1>1. /\ members' = members \ {m}
      /\ member_id' = [member_id EXCEPT ![m] = NULL]
      /\ member_name' = [member_name EXCEPT ![m] = NULL]
      /\ quiet_flag' = [quiet_flag EXCEPT ![m] = 0]
      /\ current_room' = [current_room EXCEPT ![m] = NULL]
      /\ total_num_of_members' = total_num_of_members - 1
      /\ m \in Members /\ members \subseteq Members
  BY DEF remove_member, IInv, MemberInv, MemberTypes
<1>2. /\ N \in [Members -> Members \cup {NULL}]
      /\ P \in [Members -> Members \cup {NULL}]
      /\ N[m] = NULL /\ P[m] = NULL
      /\ \A x \in Members \ members : N[x] = next_member[x] /\ P[x] = prev_member[x]
      /\ IsList(members \ {m}, UnlinkedHead(mem_list_head, next_member, prev_member, m),
                UnlinkedTail(mem_list_tail, next_member, prev_member, m), N, P)
  <2>1. /\ next_member \in [Members -> Members \cup {NULL}]
        /\ prev_member \in [Members -> Members \cup {NULL}]
        /\ IsList(members, mem_list_head, mem_list_tail, next_member, prev_member)
    BY DEF IInv, MemberInv, MemberTypes, MemberListOK
  <2> QED  BY <1>1, <2>1, ListUnlink
<1>3. /\ next_member' = N /\ prev_member' = P
      /\ mem_list_head' = UnlinkedHead(mem_list_head, next_member, prev_member, m)
      /\ mem_list_tail' = UnlinkedTail(mem_list_tail, next_member, prev_member, m)
  BY DEF remove_member
<1> HIDE DEF N, P
<1>4. IsList(members', mem_list_head', mem_list_tail', next_member', prev_member')
  BY <1>1, <1>2, <1>3
<1>5. /\ IsFiniteSet(members') /\ Cardinality(members') = total_num_of_members'
      /\ Cardinality(members') \in Nat
  BY <1>1, FS_RemoveElement, FS_CardinalityType DEF IInv, MemberInv, MemberListOK
<1>6. MemberTypes'
  <2>1. total_num_of_members' \in 0 .. MAX_NUM_OF_MEMBERS
    BY <1>1, <1>5, LimitIsNat DEF IInv, MemberInv, MemberTypes
  <2>2. mem_list_head' \in Members \cup {NULL} /\ mem_list_tail' \in Members \cup {NULL}
    BY <1>1, <1>4 DEF IsList, IsChain
  <2>3. /\ member_id' \in [Members -> Ids \cup {NULL}]
        /\ member_name' \in [Members -> Names \cup {NULL}]
        /\ quiet_flag' \in [Members -> {0, 1}]
    BY <1>1 DEF IInv, MemberInv, MemberTypes
  <2>4. MAX_NUM_OF_MEMBERS' = MAX_NUM_OF_MEMBERS
    BY DEF MAX_NUM_OF_MEMBERS
  <2> QED  BY <1>1, <1>2, <1>3, <2>1, <2>2, <2>3, <2>4 DEF MemberTypes
<1>7. MembersDiffer'
  BY <1>1 DEF IInv, MemberInv, MemberTypes, MembersDiffer
<1>8. \A x \in Members \ members' : next_member'[x] = NULL /\ prev_member'[x] = NULL
  BY <1>1, <1>2, <1>3 DEF IInv, MemberInv
<1>9. MemberInv'
  BY <1>4, <1>5, <1>6, <1>7, <1>8 DEF MemberInv, MemberListOK
<1>10. /\ next_room_member' = NextWithout(m) /\ prev_room_member' = PrevWithout(m)
       /\ member_list_head' = HeadWithout(m) /\ member_list_tail' = TailWithout(m)
       /\ num_of_members' = CountWithout(m)
  BY DEF remove_member
<1>11. PlaceTypes'
  BY <1>1, <1>10, LeavingRoom DEF IInv, PlaceInv, PlaceTypes
<1>12. ASSUME NEW r \in Rooms
       PROVE  {x \in members' : current_room'[x] = r} = InRoom(r) \ {m}
  BY <1>1 DEF InRoom, IInv, PlaceInv, PlaceTypes
<1>13. RoomMembersOK'
  <2> SUFFICES ASSUME NEW r \in Rooms
               PROVE  /\ IsList(InRoom(r)', member_list_head'[r], member_list_tail'[r],
                                next_room_member', prev_room_member')
                      /\ num_of_members'[r] = Cardinality(InRoom(r)')
    BY DEF RoomMembersOK
  <2>1. InRoom(r)' = InRoom(r) \ {m}
    BY <1>12 DEF InRoom
  <2>2. /\ IsList(InRoom(r) \ {m}, HeadWithout(m)[r], TailWithout(m)[r],
                  NextWithout(m), PrevWithout(m))
        /\ CountWithout(m)[r] = Cardinality(InRoom(r) \ {m})
    BY LeavingRoom
  <2> QED  BY <1>10, <2>1, <2>2
<1>14. /\ NoDanglingRoom'
       /\ \A x \in Members \ members' : current_room'[x] = NULL
  BY <1>1 DEF IInv, PlaceInv, PlaceTypes, NoDanglingRoom
<1>15. \A x \in Members : current_room'[x] = NULL =>
                          next_room_member'[x] = NULL /\ prev_room_member'[x] = NULL
  <2>1. \A x \in Members : current_room'[x] = NULL => x = m \/ current_room[x] = NULL
    BY <1>1 DEF IInv, PlaceInv, PlaceTypes
  <2> QED  BY <1>10, <2>1, LeavingRoom
<1> QED  BY <1>1, <1>9, <1>11, <1>13, <1>14, <1>15 DEF PlaceInv

\* ListAppend for lists of members, as a formula.
LEMMA MemberAppend ==
  \A S \in SUBSET Members : \A m \in Members \ S : \A h, t :
  \A f, g \in [Members -> Members \cup {NULL}] :
    IsList(S, h, t, f, g) /\ f[m] = NULL /\ g[m] = NULL
    => /\ AppendedNext(h, t, f, m) \in [Members -> Members \cup {NULL}]
       /\ AppendedPrev(h, t, g, m) \in [Members -> Members \cup {NULL}]
       /\ IsList(S \cup {m}, AppendedHead(h, m), m,
                 AppendedNext(h, t, f, m), AppendedPrev(h, t, g, m))
<1> SUFFICES ASSUME NEW S \in SUBSET Members, NEW m \in Members \ S, NEW h, NEW t,
                    NEW f \in [Members -> Members \cup {NULL}],
                    NEW g \in [Members -> Members \cup {NULL}],
                    IsList(S, h, t, f, g), f[m] = NULL, g[m] = NULL
             PROVE  /\ AppendedNext(h, t, f, m) \in [Members -> Members \cup {NULL}]
                    /\ AppendedPrev(h, t, g, m) \in [Members -> Members \cup {NULL}]
                    /\ IsList(S \cup {m}, AppendedHead(h, m), m,
                              AppendedNext(h, t, f, m), AppendedPrev(h, t, g, m))
  OBVIOUS
<1> QED  BY NullIsNoObject, ListAppend

LEMMA SwitchRoomStep ==
  ASSUME IInv, NEW m \in Members, NEW id \in Ids, NEW name \in RoomNames,
         SwitchRoom(m, id, name)
  PROVE  IInv'
<1> USE NullIsNoObject
<1> DEFINE n == NextWithout(m)
           p == PrevWithout(m)
           h == HeadWithout(m)
           t == TailWithout(m)
           c == CountWithout(m)
<1>1. PICK r \in rooms :
        /\ num_of_members[r] # MAX_NUM_OF_MEMBERS_PER_ROOM
        /\ current_room[m] # r
        /\ current_room' = [current_room EXCEPT ![m] = r]
        /\ next_room_member' = AppendedNext(h[r], t[r], n, m)
        /\ prev_room_member' = AppendedPrev(h[r], t[r], p, m)
        /\ member_list_head' = [h EXCEPT ![r] = AppendedHead(h[r], m)]
        /\ member_list_tail' = [t EXCEPT ![r] = m]
        /\ num_of_members' = [c EXCEPT ![r] = c[r] + 1]
        /\ empty_flag' = [empty_flag EXCEPT ![r] = 0]
  BY SearchesFind DEF SwitchRoom, FirstNamed, RoomsNamed
<1>2. /\ m \in members /\ pc = "select" /\ quiet_flag' = [quiet_flag EXCEPT ![m] = 0]
      /\ UNCHANGED <<pc, cursorVars, memberVars, memListVars, roomVars>>
      /\ r \in Rooms /\ rooms \subseteq Rooms /\ members \subseteq Members
      /\ PlaceTypes /\ members' = members /\ rooms' = rooms
  BY SearchesFind
  DEF SwitchRoom, HeardFrom, find_member_with_id, IInv, RoomInv, RoomTypes,
      MemberInv, MemberTypes, PlaceInv, memberVars, roomVars
<1>3. /\ n \in [Members -> Members \cup {NULL}]
      /\ p \in [Members -> Members \cup {NULL}]
      /\ h \in [Rooms -> Members \cup {NULL}]
      /\ t \in [Rooms -> Members \cup {NULL}]
      /\ c \in [Rooms -> 0 .. MAX_NUM_OF_MEMBERS_PER_ROOM]
      /\ n[m] = NULL /\ p[m] = NULL
      /\ \A x \in Members : current_room[x] = NULL => n[x] = NULL /\ p[x] = NULL
      /\ \A s \in Rooms : /\ IsList(InRoom(s) \ {m}, h[s], t[s], n, p)
                          /\ IsFiniteSet(InRoom(s) \ {m})
                          /\ c[s] = Cardinality(InRoom(s) \ {m})
  BY <1>2, LeavingRoom
<1>4. c[r] + 1 \in 0 .. MAX_NUM_OF_MEMBERS_PER_ROOM
  <2>1. c[r] = num_of_members[r]
    BY <1>1, <1>2 DEF CountWithout, PlaceTypes
  <2> QED  BY <1>1, <1>2, <2>1, LimitAssumption DEF PlaceTypes
<1> HIDE DEF n, p, h, t, c
<1> DEFINE S == InRoom(r) \ {m}
<1>5. S = InRoom(r) /\ S \in SUBSET Members /\ m \in Members \ S
  BY <1>1, <1>2 DEF InRoom
<1>6. IsList(S, h[r], t[r], n, p)
  BY <1>2, <1>3
<1>7. /\ next_room_member' \in [Members -> Members \cup {NULL}]
      /\ prev_room_member' \in [Members -> Members \cup {NULL}]
      /\ IsList(S \cup {m}, AppendedHead(h[r], m), m, next_room_member', prev_room_member')
  <2>1. /\ AppendedNext(h[r], t[r], n, m) \in [Members -> Members \cup {NULL}]
        /\ AppendedPrev(h[r], t[r], p, m) \in [Members -> Members \cup {NULL}]
        /\ IsList(S \cup {m}, AppendedHead(h[r], m), m,
                  AppendedNext(h[r], t[r], n, m), AppendedPrev(h[r], t[r], p, m))
    <3>1. /\ n \in [Members -> Members \cup {NULL}] /\ n[m] = NULL
          /\ p \in [Members -> Members \cup {NULL}] /\ p[m] = NULL
      BY <1>3
    <3> DEFINE first == h[r]
               last == t[r]
    <3>2. S \in SUBSET Members /\ m \in Members \ S /\ IsList(S, first, last, n, p)
      BY <1>5, <1>6
    <3> HIDE DEF S, first, last
    <3>3. /\ AppendedNext(first, last, n, m) \in [Members -> Members \cup {NULL}]
          /\ AppendedPrev(first, last, p, m) \in [Members -> Members \cup {NULL}]
          /\ IsList(S \cup {m}, AppendedHead(first, m), m,
                    AppendedNext(first, last, n, m), AppendedPrev(first, last, p, m))
      BY <3>1, <3>2, MemberAppend
    <3> QED  BY <3>3 DEF first, last
  <2> QED  BY <1>1, <2>1
<1>8. \A x \in Members : x \notin S \cup {m} =>
        next_room_member'[x] = n[x] /\ prev_room_member'[x] = p[x]
  <2>1. h[r] # NULL => t[r] \in S
    BY <1>6 DEF IsList, IsChain
  <2> QED  BY <1>1, <1>3, <2>1 DEF AppendedNext, AppendedPrev
<1>9. PlaceTypes'
  <2>1. AppendedHead(h[r], m) \in Members \cup {NULL}
    BY <1>2, <1>3 DEF AppendedHead
  <2> QED  BY <1>1, <1>2, <1>3, <1>4, <1>7, <2>1 DEF PlaceTypes
<1>10. /\ {x \in members' : current_room'[x] = r} = S \cup {m}
       /\ \A s \in Rooms : s # r =>
            {x \in members' : current_room'[x] = s} = InRoom(s) \ {m}
  BY <1>1, <1>2 DEF InRoom, PlaceTypes
<1>11. ASSUME NEW s \in Rooms
       PROVE  LET I == {x \in members' : current_room'[x] = s}
              IN  /\ IsList(I, member_list_head'[s], member_list_tail'[s],
                            next_room_member', prev_room_member')
                  /\ num_of_members'[s] = Cardinality(I)
  <2>1. CASE s = r
    <3>1. /\ member_list_head'[s] = AppendedHead(h[r], m) /\ member_list_tail'[s] = m
          /\ num_of_members'[s] = c[r] + 1
      BY <1>1, <1>2, <1>3, <2>1
    <3>2. Cardinality(S \cup {m}) = c[r] + 1
      <4>1. IsFiniteSet(S) /\ c[r] = Cardinality(S) /\ m \notin S
        BY <1>2, <1>3
      <4> HIDE DEF S
      <4> QED  BY <4>1, FS_AddElement
    <3> HIDE DEF S
    <3> QED  BY <1>7, <1>10, <2>1, <3>1, <3>2
  <2>2. CASE s # r
    <3>1. /\ member_list_head'[s] = h[s] /\ member_list_tail'[s] = t[s]
          /\ num_of_members'[s] = c[s]
      BY <1>1, <1>2, <1>3, <2>2
    <3>2. \A x \in InRoom(s) \ {m} : x \in Members /\ x \notin S \cup {m}
      BY <1>2, <2>2 DEF InRoom
    <3>3. NULL \notin InRoom(s) \ {m}
      BY <3>2
    <3>4. IsList(InRoom(s) \ {m}, h[s], t[s], next_room_member', prev_room_member')
      <4>1. IsList(InRoom(s) \ {m}, h[s], t[s], n, p)
        BY <1>3
      <4>2. \A x \in InRoom(s) \ {m} : next_room_member'[x] = n[x] /\ prev_room_member'[x] = p[x]
        BY <1>8, <3>2
      <4> QED  BY <3>3, <4>1, <4>2, ListFrame
    <3> QED  BY <1>3, <1>10, <2>2, <3>1, <3>4
  <2> QED  BY <2>1, <2>2
<1>12. RoomMembersOK'
  BY <1>11 DEF RoomMembersOK, InRoom
<1>13. /\ NoDanglingRoom'
       /\ \A x \in Members \ members' : current_room'[x] = NULL
  BY <1>1, <1>2 DEF IInv, PlaceInv, PlaceTypes, NoDanglingRoom
<1>14. \A x \in Members : current_room'[x] = NULL =>
                          next_room_member'[x] = NULL /\ prev_room_member'[x] = NULL
  <2>1. \A x \in Members : current_room'[x] = NULL => x \notin S \cup {m} /\ current_room[x] = NULL
    BY <1>1, <1>2 DEF PlaceTypes, InRoom
  <2> QED  BY <1>3, <1>8, <2>1
<1>15. PlaceInv'
  BY <1>9, <1>12, <1>13, <1>14 DEF PlaceInv
<1>16. MemberInv'
  BY <1>2, MemberFrame DEF IInv, MemberInv, MemberTypes
<1>17. RoomInv'
  BY <1>1, <1>2, RoomFrame DEF IInv, RoomInv, RoomTypes
<1>18. CursorInv'
  BY <1>2, CursorFrame DEF IInv, CursorInv, ControlTypes
<1> QED  BY <1>15, <1>16, <1>17, <1>18 DEF IInv

-----------------------------------------------------------------------------
(* The theorem. *)

LEMMA InitInv == Init => IInv
<1> SUFFICES ASSUME Init PROVE IInv
  OBVIOUS
<1> USE NullIsNoObject, LimitIsNat, LimitAssumption, FS_EmptySet
<1>1. MemberInv
  BY EmptyList DEF Init, MemberInv, MemberTypes, MemberListOK, MembersDiffer
<1>2. PlaceInv
  <2>1. \A r \in Rooms : InRoom(r) = {}
    BY DEF Init, InRoom
  <2>2. RoomMembersOK
    BY <2>1, EmptyList DEF Init, RoomMembersOK
  <2> QED  BY <2>2 DEF Init, PlaceInv, PlaceTypes, NoDanglingRoom
<1>3. RoomInv
  BY EmptyList DEF Init, RoomInv, RoomTypes, RoomListOK, RoomTailOK, RoomsDiffer, IsList
<1>4. CursorInv
  BY DEF Init, CursorInv, ControlTypes, CursorsOK, CursorsIdle, PC
<1> QED  BY <1>1, <1>2, <1>3, <1>4 DEF IInv

\* A handler that changes a member's quiet flag, the reply, or nothing.
LEMMA QuietStep ==
  ASSUME IInv, pc = "select", quiet_flag' \in [Members -> {0, 1}],
         UNCHANGED <<pc, cursorVars, memberVars, memListVars, placeVars, roomVars, empty_flag>>
  PROVE  IInv'
<1>1. empty_flag' \in [Rooms -> {0, 1}] /\ rooms \subseteq rooms' /\ UNCHANGED members /\ pc' = "select"
  BY DEF IInv, RoomInv, RoomTypes, roomVars, memberVars
<1>2. MemberInv'
  BY MemberFrame DEF IInv
<1>3. PlaceInv'
  BY <1>1, PlaceFrame DEF IInv
<1>4. RoomInv'
  BY <1>1, RoomFrame DEF IInv
<1>5. CursorInv'
  BY <1>1, CursorFrame DEF IInv, CursorInv, ControlTypes
<1> QED  BY <1>2, <1>3, <1>4, <1>5 DEF IInv

\* A handler that creates a room.
LEMMA CreateStep ==
  ASSUME IInv, NEW name \in RoomNames, RoomCreated(name),
         quiet_flag' \in [Members -> {0, 1}], pc \in {"init", "select"}, pc' = pc
  PROVE  IInv'
<1>1. UNCHANGED <<mt, rt, memberVars, memListVars, placeVars, empty_flag>>
  BY DEF RoomCreated
<1>2. RoomInv' /\ rooms \subseteq rooms'
  BY RoomCreatedStep
<1>3. MemberInv'
  BY <1>1, MemberFrame DEF IInv
<1>4. PlaceInv'
  BY <1>1, <1>2, PlaceFrame DEF IInv, memberVars
<1>5. CursorInv'
  BY <1>1, CursorFrame DEF IInv, CursorInv, ControlTypes, cursorVars
<1> QED  BY <1>2, <1>3, <1>4, <1>5 DEF IInv

LEMMA HeardFlag ==
  ASSUME IInv, NEW m \in Members, NEW id \in Ids, HeardFrom(m, id)
  PROVE  quiet_flag' \in [Members -> {0, 1}] /\ pc = "select"
BY DEF IInv, MemberInv, MemberTypes, HeardFrom

\* Every request of a member.
LEMMA RequestStep ==
  ASSUME IInv, NEW m \in Members, NEW id \in Ids, MemberRequest(m, id)
  PROVE  IInv'
<1>1. CASE \/ KeepAlive(m, id) \/ ListRooms(m, id) \/ ChatMessage(m, id)
           \/ \E name \in RoomNames : \/ ListMembers(m, id, name)
                                      \/ SwitchRefused(m, id, name)
  <2>1. HeardFrom(m, id)
    BY <1>1 DEF KeepAlive, ListRooms, ChatMessage, ListMembers, SwitchRefused
  <2>2. UNCHANGED <<pc, cursorVars, memberVars, memListVars, placeVars, roomVars, empty_flag>>
    BY <1>1 DEF KeepAlive, ListRooms, ChatMessage, ListMembers, SwitchRefused
  <2> QED  BY <2>1, <2>2, HeardFlag, QuietStep
<1>2. ASSUME NEW name \in RoomNames, CreateRoom(m, id, name)
      PROVE  IInv'
  <2>1. quiet_flag' \in [Members -> {0, 1}] /\ pc = "select"
    BY <1>2, HeardFlag DEF CreateRoom
  <2>2. CASE RoomCreated(name) /\ pc' = pc
    BY <2>1, <2>2, CreateStep
  <2>3. CASE UNCHANGED <<pc, cursorVars, memberVars, memListVars, placeVars, roomVars,
                         empty_flag>>
    BY <2>1, <2>3, QuietStep
  <2>4. CASE ServerDies
    <3>1. /\ pc' = "down" /\ UNCHANGED <<mt, rt>>
          /\ UNCHANGED <<memberVars, memListVars, placeVars, roomVars, empty_flag>>
      BY <2>4 DEF ServerDies
    <3>2. /\ empty_flag' \in [Rooms -> {0, 1}] /\ rooms \subseteq rooms'
          /\ UNCHANGED members
      BY <3>1 DEF IInv, RoomInv, RoomTypes, roomVars, memberVars
    <3>3. MemberInv'
      BY <2>1, <3>1, MemberFrame DEF IInv
    <3>4. PlaceInv'
      BY <3>1, <3>2, PlaceFrame DEF IInv
    <3>5. RoomInv'
      BY <3>1, <3>2, RoomFrame DEF IInv
    <3>6. CursorInv'
      BY <2>1, <3>1, CursorFrame DEF IInv, cursorVars, PC
    <3> QED  BY <3>3, <3>4, <3>5, <3>6 DEF IInv
  <2> QED  BY <1>2, <2>2, <2>3, <2>4 DEF CreateRoom
<1>3. ASSUME NEW name \in RoomNames, SwitchRoom(m, id, name)
      PROVE  IInv'
  BY <1>3, SwitchRoomStep
<1>4. CASE Quit(m, id)
  <2>1. /\ m \in members /\ remove_member(m) /\ pc = "select"
        /\ UNCHANGED <<pc, cursorVars, roomVars, empty_flag>>
    BY <1>4, SearchesFind DEF Quit, find_member_with_id
  <2>2. MemberInv' /\ PlaceInv'
    BY <2>1, remove_memberStep DEF roomVars
  <2>3. RoomInv'
    BY <2>1, RoomFrame DEF IInv, RoomInv, RoomTypes
  <2>4. CursorInv'
    BY <2>1, CursorFrame DEF IInv, CursorInv, ControlTypes
  <2> QED  BY <2>2, <2>3, <2>4 DEF IInv
<1> QED  BY <1>1, <1>2, <1>3, <1>4 DEF MemberRequest

\* Every step of a sweep.
LEMMA SweepStepInv ==
  ASSUME IInv, SweepStep
  PROVE  IInv'
<1> USE NullIsNoObject
<1>1. CASE MarkQuiet
  <2>1. /\ pc = "sweepMembers" /\ pc' = pc /\ mt # NULL /\ mt' = next_member[mt] /\ rt' = rt
        /\ quiet_flag' = [quiet_flag EXCEPT ![mt] = quiet_flag[mt] + 1] /\ quiet_flag[mt] = 0
        /\ UNCHANGED <<memberVars, memListVars, placeVars, roomVars, empty_flag>>
    BY <1>1 DEF MarkQuiet, NextMember
  <2>2. mt \in members /\ mt \in Members
    BY <2>1 DEF IInv, CursorInv, CursorsOK, ControlTypes
  <2>3. quiet_flag' \in [Members -> {0, 1}] /\ empty_flag' \in [Rooms -> {0, 1}]
        /\ members' = members /\ rooms' = rooms
    BY <2>1, <2>2 DEF IInv, MemberInv, MemberTypes, RoomInv, RoomTypes, memberVars, roomVars
  <2>4. MemberInv' /\ PlaceInv' /\ RoomInv'
    BY <2>1, <2>3, MemberFrame, PlaceFrame, RoomFrame DEF IInv
  <2>5. next_member[mt] \in members \cup {NULL} /\ members \subseteq Members
    BY <2>2 DEF IInv, MemberInv, MemberTypes, MemberListOK, IsList, IsChain
  <2>6. CursorInv'
    BY <2>1, <2>3, <2>5 DEF IInv, CursorInv, ControlTypes, CursorsOK, CursorsIdle
  <2> QED  BY <2>4, <2>6 DEF IInv
<1>2. CASE SweepMember
  <2>1. /\ pc = "sweepMembers" /\ pc' = pc /\ mt # NULL /\ mt' = next_member[mt] /\ rt' = rt
        /\ remove_member(mt) /\ UNCHANGED <<roomVars, empty_flag>>
    BY <1>2 DEF SweepMember, NextMember
  <2>2. mt \in members /\ mt \in Members
    BY <2>1 DEF IInv, CursorInv, CursorsOK, ControlTypes
  <2>3. MemberInv' /\ PlaceInv' /\ members' = members \ {mt}
    BY <2>1, <2>2, remove_memberStep DEF roomVars
  <2>4. RoomInv' /\ rooms' = rooms
    BY <2>1, RoomFrame DEF IInv, RoomInv, RoomTypes, roomVars
  <2>5. /\ next_member[mt] \in members \cup {NULL} /\ next_member[mt] # mt
        /\ members \subseteq Members
    BY <2>2, ChainHasNoLoop DEF IInv, MemberInv, MemberTypes, MemberListOK, IsList, IsChain
  <2>6. CursorInv'
    BY <2>1, <2>3, <2>4, <2>5 DEF IInv, CursorInv, ControlTypes, CursorsOK, CursorsIdle
  <2> QED  BY <2>3, <2>4, <2>6 DEF IInv
<1>3. CASE MembersSwept \/ SweepDone
  <2>1. UNCHANGED <<memberVars, quiet_flag, memListVars, placeVars, roomVars, empty_flag>>
    BY <1>3 DEF MembersSwept, SweepDone
  <2>2. /\ quiet_flag' \in [Members -> {0, 1}] /\ empty_flag' \in [Rooms -> {0, 1}]
        /\ members' = members /\ rooms' = rooms
    BY <2>1 DEF IInv, MemberInv, MemberTypes, RoomInv, RoomTypes, memberVars, roomVars
  <2>3. MemberInv' /\ PlaceInv' /\ RoomInv'
    BY <2>1, <2>2, MemberFrame, PlaceFrame, RoomFrame DEF IInv
  <2>4. room_list_head \in rooms \cup {NULL} /\ rooms \subseteq Rooms
    BY DEF IInv, RoomInv, RoomTypes, RoomListOK, IsChain
  <2>5. CursorInv'
    BY <1>3, <2>2, <2>4
    DEF MembersSwept, SweepDone, IInv, CursorInv, ControlTypes, CursorsOK, CursorsIdle, PC
  <2> QED  BY <2>3, <2>5 DEF IInv
<1>4. CASE SkipRoom \/ MarkEmpty
  <2>1. /\ pc = "sweepRooms" /\ pc' = pc /\ rt # NULL /\ rt' = next_room[rt] /\ mt' = mt
        /\ UNCHANGED <<memberVars, quiet_flag, memListVars, placeVars, roomVars>>
    BY <1>4 DEF SkipRoom, MarkEmpty, NextRoom
  <2>2. rt \in rooms /\ rt \in Rooms
    BY <2>1 DEF IInv, CursorInv, CursorsOK, ControlTypes
  <2>3. empty_flag' = empty_flag
        \/ (empty_flag[rt] = 0 /\ empty_flag' = [empty_flag EXCEPT ![rt] = empty_flag[rt] + 1])
    BY <1>4 DEF SkipRoom, MarkEmpty
  <2>4. quiet_flag' \in [Members -> {0, 1}] /\ empty_flag' \in [Rooms -> {0, 1}]
        /\ members' = members /\ rooms' = rooms
    BY <2>1, <2>2, <2>3
    DEF IInv, MemberInv, MemberTypes, RoomInv, RoomTypes, memberVars, roomVars
  <2>5. MemberInv' /\ PlaceInv' /\ RoomInv'
    BY <2>1, <2>4, MemberFrame, PlaceFrame, RoomFrame DEF IInv
  <2>6. next_room[rt] \in rooms \cup {NULL} /\ rooms \subseteq Rooms
    BY <2>2 DEF IInv, RoomInv, RoomTypes, RoomListOK, IsChain
  <2>7. CursorInv'
    BY <2>1, <2>4, <2>6 DEF IInv, CursorInv, ControlTypes, CursorsOK, CursorsIdle
  <2> QED  BY <2>5, <2>7 DEF IInv
<1>5. CASE SweepRoom
  <2>1. /\ pc = "sweepRooms" /\ pc' = pc /\ rt # NULL /\ rt' = next_room[rt] /\ mt' = mt
        /\ UNCHANGED <<memberVars, quiet_flag, memListVars, placeVars>>
        /\ num_of_members[rt] = 0 /\ remove_room(rt)
        /\ total_num_of_rooms' = total_num_of_rooms - 1
        /\ empty_flag' = [empty_flag EXCEPT ![rt] = 0]
    BY <1>5 DEF SweepRoom, NextRoom
  <2>2. rt \in rooms /\ rt \in Rooms
    BY <2>1 DEF IInv, CursorInv, CursorsOK, ControlTypes
  <2>3. RoomInv' /\ rooms' = rooms \ {rt}
    BY <2>1, <2>2, remove_roomStep
  <2>4. MemberInv' /\ members' = members
    BY <2>1, MemberFrame DEF IInv, MemberInv, MemberTypes, memberVars
  <2>5. \A m \in members : current_room[m] # rt
    <3>1. IsFiniteSet(InRoom(rt)) /\ Cardinality(InRoom(rt)) = 0
      BY <2>1, <2>2, FS_Subset DEF IInv, MemberInv, PlaceInv, RoomMembersOK, InRoom
    <3>2. InRoom(rt) = {}
      BY <3>1, FS_EmptySet
    <3> QED  BY <3>2 DEF InRoom
  <2>6. PlaceInv'
    BY <2>1, <2>3, <2>4, <2>5
    DEF IInv, PlaceInv, PlaceTypes, RoomMembersOK, InRoom, NoDanglingRoom, placeVars
  <2>7. /\ next_room[rt] \in rooms \cup {NULL} /\ next_room[rt] # rt
        /\ rooms \subseteq Rooms
    BY <2>2, ChainHasNoLoop DEF IInv, RoomInv, RoomTypes, RoomListOK, IsChain
  <2>8. CursorInv'
    BY <2>1, <2>3, <2>4, <2>7 DEF IInv, CursorInv, ControlTypes, CursorsOK, CursorsIdle
  <2> QED  BY <2>3, <2>4, <2>6, <2>8 DEF IInv
<1> QED  BY <1>1, <1>2, <1>3, <1>4, <1>5 DEF SweepStep

LEMMA NextInv == IInv /\ [Next]_vars => IInv'
<1> SUFFICES ASSUME IInv, [Next]_vars PROVE IInv'
  OBVIOUS
<1> USE NullIsNoObject
<1>1. ASSUME NEW name \in RoomNames, LoadRoom(name) PROVE IInv'
  BY <1>1, CreateStep DEF LoadRoom, IInv, MemberInv, MemberTypes
<1>2. CASE StartLoop
  <2>1. /\ quiet_flag' \in [Members -> {0, 1}] /\ empty_flag' \in [Rooms -> {0, 1}]
        /\ members' = members /\ rooms' = rooms
        /\ UNCHANGED <<cursorVars, memberVars, memListVars, placeVars, roomVars>>
        /\ pc = "init" /\ pc' = "select"
    BY <1>2
    DEF StartLoop, IInv, MemberInv, MemberTypes, RoomInv, RoomTypes, memberVars, roomVars
  <2>2. MemberInv' /\ PlaceInv' /\ RoomInv'
    BY <2>1, MemberFrame, PlaceFrame, RoomFrame DEF IInv
  <2>3. CursorInv'
    BY <2>1, CursorFrame DEF IInv, PC
  <2> QED  BY <2>2, <2>3 DEF IInv
<1>3. ASSUME NEW name \in Names, Register(name) PROVE IInv'
  BY <1>3, RegisterStep
<1>4. CASE \/ \E name \in Names : RegisterRefused(name)
           \/ \E type \in MemberRequests : UnknownSender(type)
           \/ Ignored
  <2>1. /\ pc = "select" /\ quiet_flag' = quiet_flag
        /\ UNCHANGED <<pc, cursorVars, memberVars, memListVars, placeVars, roomVars,
                       empty_flag>>
    BY <1>4 DEF RegisterRefused, UnknownSender, Ignored
  <2> QED  BY <2>1, QuietStep DEF IInv, MemberInv, MemberTypes
<1>5. ASSUME NEW m \in Members, NEW id \in Ids, MemberRequest(m, id) PROVE IInv'
  BY <1>5, RequestStep
<1>6. CASE SweepTimeout
  <2>1. /\ quiet_flag' \in [Members -> {0, 1}] /\ empty_flag' \in [Rooms -> {0, 1}]
        /\ members' = members /\ rooms' = rooms
        /\ UNCHANGED <<memberVars, memListVars, placeVars, roomVars>>
        /\ pc = "select" /\ pc' = "sweepMembers" /\ mt' = mem_list_head /\ rt' = rt
    BY <1>6
    DEF SweepTimeout, IInv, MemberInv, MemberTypes, RoomInv, RoomTypes, memberVars, roomVars
  <2>2. MemberInv' /\ PlaceInv' /\ RoomInv'
    BY <2>1, MemberFrame, PlaceFrame, RoomFrame DEF IInv
  <2>3. mem_list_head \in members \cup {NULL} /\ members \subseteq Members
    BY DEF IInv, MemberInv, MemberTypes, MemberListOK, IsList, IsChain
  <2>4. CursorInv'
    BY <2>1, <2>3 DEF IInv, CursorInv, ControlTypes, CursorsOK, CursorsIdle, PC
  <2> QED  BY <2>2, <2>4 DEF IInv
<1>7. CASE SweepStep
  BY <1>7, SweepStepInv
<1>8. CASE UNCHANGED vars
  <2>1. /\ quiet_flag' \in [Members -> {0, 1}] /\ empty_flag' \in [Rooms -> {0, 1}]
        /\ members' = members /\ rooms' = rooms
        /\ UNCHANGED <<pc, cursorVars, memberVars, memListVars, placeVars, roomVars>>
    BY <1>8
    DEF vars, IInv, MemberInv, MemberTypes, RoomInv, RoomTypes, memberVars, roomVars
  <2>2. MemberInv' /\ PlaceInv' /\ RoomInv'
    BY <2>1, MemberFrame, PlaceFrame, RoomFrame DEF IInv
  <2>3. CursorInv'
    BY <2>1 DEF IInv, CursorInv, ControlTypes, CursorsOK, CursorsIdle, cursorVars
  <2> QED  BY <2>2, <2>3 DEF IInv
<1> QED  BY <1>1, <1>2, <1>3, <1>4, <1>5, <1>6, <1>7, <1>8 DEF Next, Down

LEMMA SpecInv == Spec => []IInv
BY InitInv, NextInv, PTL DEF Spec

\* Every variable keeps its type and every count its limit.
THEOREM TypeCorrect == Spec => []TypeOK
<1>1. IInv => TypeOK
  BY DEF IInv, MemberInv, PlaceInv, RoomInv, CursorInv, TypeOK
<1> QED  BY <1>1, SpecInv, PTL

\* The member list holds exactly the registered members, whatever was appended
\* and unlinked, and during a sweep too (process_register_request, remove_member).
THEOREM MemberListCorrect == Spec => []MemberListOK
<1>1. IInv => MemberListOK
  BY DEF IInv, MemberInv
<1> QED  BY <1>1, SpecInv, PTL

\* Every room's list holds exactly the members that are in it, and its count is
\* their number (process_switch_room_request, remove_member).
THEOREM RoomMembersCorrect == Spec => []RoomMembersOK
<1>1. IInv => RoomMembersOK
  BY DEF IInv, PlaceInv
<1> QED  BY <1>1, SpecInv, PTL

\* The room list holds exactly the rooms (create_room, remove_room).
THEOREM RoomListCorrect == Spec => []RoomListOK
<1>1. IInv => RoomListOK
  BY DEF IInv, RoomInv
<1> QED  BY <1>1, SpecInv, PTL

\* The pointer to the last room is good or NULL, whatever the sweep removed before
\* (remove_room, create_room).
THEOREM RoomTailCorrect == Spec => []RoomTailOK
<1>1. IInv => RoomTailOK
  BY DEF IInv, RoomInv
<1> QED  BY <1>1, SpecInv, PTL

\* No member is in a room that has been freed (the second loop of server_main.c).
THEOREM NoDanglingRoomCorrect == Spec => []NoDanglingRoom
<1>1. IInv => NoDanglingRoom
  BY DEF IInv, PlaceInv
<1> QED  BY <1>1, SpecInv, PTL

\* The sweep's cursors never point to a freed object (the two loops of server_main.c).
THEOREM CursorsCorrect == Spec => []CursorsOK
<1>1. IInv => CursorsOK
  BY DEF IInv, CursorInv
<1> QED  BY <1>1, SpecInv, PTL

\* Searches by id, by member name or by a room name shorter than MAX_ROOM_NAME_LEN
\* have one answer, also while longer names lose their terminators and are given to
\* a second room (find_member_with_id, process_register_request, create_room).
THEOREM SearchesUnambiguous == Spec => []SearchesAgree
<1>1. IInv => SearchesAgree
  BY DEF IInv, MemberInv, RoomInv, SearchesAgree
<1> QED  BY <1>1, SpecInv, PTL

-----------------------------------------------------------------------------
(* ChatServer implements ChatService.  Beside IInv the argument needs what the  *)
(* two flags say: a room marked as empty is empty (EmptyFlagged), and the       *)
(* members that a running sweep has passed are marked as quiet (QuietBehind).   *)
(*                                                                            *)
(* A request maps to the request of the service with the same name; the first  *)
(* step of a sweep maps to the service's sweep, all its others to no step.     *)

EmptyFlagged == \A r \in Rooms : empty_flag[r] # 0 => r \in rooms /\ InRoom(r) = {}

QuietBehind ==
  /\ pc = "sweepMembers" => \A m \in members \ Walk(mt, next_member) : quiet_flag[m] # 0
  /\ pc = "sweepRooms" => \A m \in members : quiet_flag[m] # 0

RInv == IInv /\ EmptyFlagged /\ QuietBehind

-----------------------------------------------------------------------------
(* What a step of the sweep does to what lies ahead of its cursor. *)

\* The cursor moves on by one member, whether or not that one is freed.
LEMMA MemberAhead ==
  ASSUME IInv, NextMember, UNCHANGED memListVars \/ remove_member(mt)
  PROVE  /\ mt \in members
         /\ Walk(mt', next_member') = Walk(mt, next_member) \ {mt}
         /\ mt \in Walk(mt, next_member) /\ Walk(mt, next_member) \subseteq members
<1> USE NullIsNoObject
<1>1. /\ members \in SUBSET Members /\ mt \in members /\ mt \in Members
      /\ next_member \in [Members -> Members \cup {NULL}]
      /\ prev_member \in [Members -> Members \cup {NULL}]
      /\ IsList(members, mem_list_head, mem_list_tail, next_member, prev_member)
      /\ IsChain(members, mem_list_head, next_member)
      /\ mt' = next_member[mt]
  BY DEF NextMember, IInv, MemberInv, MemberTypes, MemberListOK, CursorInv, CursorsOK, IsList
<1>2. /\ Walk(mt, next_member) = {mt} \cup Walk(next_member[mt], next_member)
      /\ mt \notin Walk(next_member[mt], next_member)
      /\ Walk(mt, next_member) \subseteq members
  BY <1>1, WalkUnfolds, WalkNeverReturns, WalkStaysInChain
<1>3. CASE UNCHANGED memListVars
  BY <1>1, <1>2, <1>3 DEF memListVars
<1>4. CASE remove_member(mt)
  <2> DEFINE n == [UnlinkedNext(next_member, prev_member, mt) EXCEPT ![mt] = NULL]
  <2>1. next_member' = n
    BY <1>4 DEF remove_member
  <2>2. n \in [Members -> Members \cup {NULL}]
    BY <1>1 DEF UnlinkedNext
  <2>3. ASSUME NEW a \in Members, a # mt, next_member[a] # mt PROVE n[a] = next_member[a]
    <3>1. prev_member[mt] # NULL => next_member[prev_member[mt]] = mt
      BY <1>1 DEF IsList
    <3> QED  BY <1>1, <2>3, <3>1 DEF UnlinkedNext
  <2>4. Walk(next_member[mt], n) = Walk(next_member[mt], next_member)
    <3> HIDE DEF n
    <3> QED  BY <1>1, <2>2, <2>3, WalkBehindUnlinked
  <2> QED  BY <1>1, <1>2, <2>1, <2>4
<1> QED  BY <1>3, <1>4

\* Likewise for rooms.
LEMMA RoomAhead ==
  ASSUME IInv, NextRoom, UNCHANGED next_room \/ remove_room(rt), IInv'
  PROVE  /\ rt \in rooms
         /\ Walk(rt', next_room') = Walk(rt, next_room) \ {rt}
         /\ rt \in Walk(rt, next_room) /\ Walk(rt, next_room) \subseteq rooms
<1> USE NullIsNoObject
<1>1. /\ rooms \in SUBSET Rooms /\ rt \in rooms /\ rt \in Rooms
      /\ next_room \in [Rooms -> Rooms \cup {NULL}]
      /\ IsChain(rooms, room_list_head, next_room)
      /\ rt' = next_room[rt]
  BY DEF NextRoom, IInv, RoomInv, RoomTypes, RoomListOK, CursorInv, CursorsOK
<1>2. /\ Walk(rt, next_room) = {rt} \cup Walk(next_room[rt], next_room)
      /\ rt \notin Walk(next_room[rt], next_room)
      /\ Walk(rt, next_room) \subseteq rooms
  BY <1>1, WalkUnfolds, WalkNeverReturns, WalkStaysInChain
<1>3. CASE UNCHANGED next_room
  BY <1>1, <1>2, <1>3
<1>4. CASE remove_room(rt)
  <2>1. next_room' \in [Rooms -> Rooms \cup {NULL}]
    BY DEF IInv, RoomInv, RoomTypes
  <2>2. \A a \in Rooms : a # rt /\ next_room[a] # rt => next_room'[a] = next_room[a]
    BY <1>1, <1>4 DEF remove_room
  <2>3. Walk(next_room[rt], next_room') = Walk(next_room[rt], next_room)
    BY <1>1, <2>1, <2>2, WalkBehindUnlinked
  <2> QED  BY <1>1, <1>2, <2>3
<1> QED  BY <1>3, <1>4

\* Nothing lies ahead of a cursor at the end, everything ahead of one at the head.
LEMMA AheadOfEnds ==
  ASSUME IInv
  PROVE  /\ Walk(NULL, next_member) = {} /\ Walk(NULL, next_room) = {}
         /\ Walk(mem_list_head, next_member) = members
         /\ Walk(room_list_head, next_room) = rooms
<1>1. /\ next_member \in [Members -> Members \cup {NULL}]
      /\ next_room \in [Rooms -> Rooms \cup {NULL}]
  BY DEF IInv, MemberInv, MemberTypes, RoomInv, RoomTypes
<1> QED  BY <1>1, WalkFromNull, SearchesFind DEF MemberList, RoomList

\* A count of 0 is that of a room nobody is in.
LEMMA CountZero ==
  ASSUME IInv, NEW r \in Rooms
  PROVE  num_of_members[r] = 0 <=> InRoom(r) = {}
<1>1. IsFiniteSet(InRoom(r)) /\ num_of_members[r] = Cardinality(InRoom(r))
  BY FS_Subset DEF IInv, MemberInv, PlaceInv, RoomMembersOK, InRoom
<1> QED  BY <1>1, FS_EmptySet

-----------------------------------------------------------------------------
(* The flags. *)

\* No flag is raised, no marked room is freed and nobody enters one.
LEMMA EmptyFrame ==
  ASSUME EmptyFlagged,
         \A r \in Rooms : empty_flag'[r] # 0 =>
           empty_flag[r] # 0 /\ (r \in rooms => r \in rooms') /\ InRoom(r)' \subseteq InRoom(r)
  PROVE  EmptyFlagged'
BY DEF EmptyFlagged

LEMMA EmptyUnchanged ==
  ASSUME EmptyFlagged, UNCHANGED <<members, current_room, empty_flag>>, rooms \subseteq rooms'
  PROVE  EmptyFlagged'
BY EmptyFrame DEF InRoom

LEMMA EmptyAfterRemoval ==
  ASSUME EmptyFlagged, IInv, NEW m, remove_member(m), UNCHANGED <<rooms, empty_flag>>
  PROVE  EmptyFlagged'
<1>1. \A x \in members' : x \in members /\ current_room'[x] = current_room[x]
  BY DEF remove_member, IInv, PlaceInv, PlaceTypes, MemberInv, MemberTypes
<1> QED  BY <1>1, EmptyFrame DEF InRoom

\* A request raises no flag.
LEMMA EmptyRequest ==
  ASSUME RInv, NEW m \in Members, NEW id \in Ids, MemberRequest(m, id)
  PROVE  EmptyFlagged' /\ pc' \in {"select", "down"}
<1>1. IInv /\ EmptyFlagged
  BY DEF RInv
<1>2. CASE \/ KeepAlive(m, id) \/ ListRooms(m, id) \/ ChatMessage(m, id)
           \/ \E name \in RoomNames : ListMembers(m, id, name) \/ SwitchRefused(m, id, name)
  <2>1. pc = "select" /\ UNCHANGED <<pc, members, current_room, empty_flag, rooms>>
    BY <1>2
    DEF KeepAlive, ListRooms, ChatMessage, ListMembers, SwitchRefused, HeardFrom, memberVars,
        placeVars, roomVars
  <2> QED  BY <1>1, <2>1, EmptyUnchanged
<1>3. CASE Quit(m, id)
  <2>1. remove_member(m) /\ pc' = "select" /\ UNCHANGED <<rooms, empty_flag>>
    BY <1>3 DEF Quit, roomVars
  <2> QED  BY <1>1, <2>1, EmptyAfterRemoval
<1>4. ASSUME NEW name \in RoomNames, CreateRoom(m, id, name)
      PROVE  EmptyFlagged' /\ pc' \in {"select", "down"}
  <2>1. /\ UNCHANGED <<members, current_room, empty_flag>> /\ rooms \subseteq rooms'
        /\ pc' \in {"select", "down"}
    BY <1>4 DEF CreateRoom, RoomCreated, ServerDies, HeardFrom, memberVars, placeVars, roomVars
  <2> QED  BY <1>1, <2>1, EmptyUnchanged
<1>5. ASSUME NEW name \in RoomNames, SwitchRoom(m, id, name)
      PROVE  EmptyFlagged' /\ pc' \in {"select", "down"}
  <2>1. /\ pc = "select" /\ pc' = pc /\ rooms' = rooms /\ members' = members
    BY <1>5 DEF SwitchRoom, HeardFrom, memberVars, roomVars
  <2>2. PICK r \in FirstNamed(name) : /\ current_room' = [current_room EXCEPT ![m] = r]
                                      /\ empty_flag' = [empty_flag EXCEPT ![r] = 0]
    BY <1>5 DEF SwitchRoom
  <2>3. current_room \in [Members -> Rooms \cup {NULL}] /\ empty_flag \in [Rooms -> {0, 1}]
        /\ members \subseteq Members
    BY <1>1 DEF IInv, PlaceInv, PlaceTypes, RoomInv, RoomTypes, MemberInv, MemberTypes
  <2>4. ASSUME NEW s \in Rooms, empty_flag'[s] # 0
        PROVE  s # r /\ empty_flag[s] # 0 /\ InRoom(s)' \subseteq InRoom(s)
    <3>1. s # r /\ empty_flag[s] # 0
      BY <2>2, <2>3, <2>4
    <3>2. \A x \in members : current_room'[x] = s => current_room[x] = s
      BY <2>2, <2>3, <3>1
    <3> QED  BY <2>1, <3>1, <3>2 DEF InRoom
  <2> QED  BY <1>1, <2>1, <2>4, EmptyFrame
<1> QED  BY <1>2, <1>3, <1>4, <1>5 DEF MemberRequest

\* A sweep marks what it passes.
LEMMA FlagsSwept ==
  ASSUME RInv, SweepStep, IInv'
  PROVE  EmptyFlagged' /\ QuietBehind'
<1> USE NullIsNoObject
<1>1. IInv /\ EmptyFlagged /\ QuietBehind
  BY DEF RInv
<1>2. /\ members \subseteq Members /\ quiet_flag \in [Members -> {0, 1}]
      /\ empty_flag \in [Rooms -> {0, 1}] /\ rooms \subseteq Rooms
  BY <1>1 DEF IInv, MemberInv, MemberTypes, RoomInv, RoomTypes
<1>3. CASE MarkQuiet
  <2>1. /\ NextMember /\ UNCHANGED memListVars /\ pc = "sweepMembers" /\ pc' = pc
        /\ quiet_flag' = [quiet_flag EXCEPT ![mt] = quiet_flag[mt] + 1] /\ quiet_flag[mt] = 0
        /\ UNCHANGED <<members, current_room, empty_flag, rooms>>
    BY <1>3 DEF MarkQuiet, NextMember, memberVars, placeVars, roomVars
  <2>2. /\ mt \in members /\ mt \in Members
        /\ Walk(mt', next_member') = Walk(mt, next_member) \ {mt}
    BY <1>1, <1>2, <2>1, MemberAhead
  <2>3. \A m \in members : m = mt \/ quiet_flag[m] # 0 => quiet_flag'[m] # 0
    BY <1>2, <2>1, <2>2
  <2>4. \A m \in members' \ Walk(mt', next_member') : quiet_flag'[m] # 0
    BY <1>1, <2>1, <2>2, <2>3 DEF QuietBehind
  <2> QED  BY <1>1, <2>1, <2>4, EmptyUnchanged DEF QuietBehind
<1>4. CASE SweepMember
  <2>1. /\ NextMember /\ remove_member(mt) /\ pc = "sweepMembers" /\ pc' = pc
        /\ UNCHANGED <<rooms, empty_flag>> /\ members' = members \ {mt}
        /\ quiet_flag' = [quiet_flag EXCEPT ![mt] = 0]
    BY <1>4 DEF SweepMember, NextMember, roomVars, remove_member
  <2>2. Walk(mt', next_member') = Walk(mt, next_member) \ {mt}
    BY <1>1, <2>1, MemberAhead
  <2>3. \A m \in members' \ Walk(mt', next_member') : quiet_flag'[m] # 0
    BY <1>1, <1>2, <2>1, <2>2 DEF QuietBehind
  <2> QED  BY <1>1, <2>1, <2>3, EmptyAfterRemoval DEF QuietBehind
<1>5. CASE MembersSwept
  <2>1. /\ pc = "sweepMembers" /\ mt = NULL /\ pc' = "sweepRooms"
        /\ UNCHANGED <<members, quiet_flag, current_room, rooms, empty_flag>>
    BY <1>5 DEF MembersSwept, memberVars, placeVars, roomVars
  <2>2. \A m \in members : quiet_flag[m] # 0
    BY <1>1, <2>1, AheadOfEnds DEF QuietBehind
  <2> QED  BY <1>1, <2>1, <2>2, EmptyUnchanged DEF QuietBehind
<1>6. CASE SkipRoom \/ MarkEmpty \/ SweepRoom
  <2>1. /\ NextRoom /\ pc = "sweepRooms" /\ pc' = pc /\ rt # NULL
        /\ UNCHANGED <<members, quiet_flag, current_room>>
    BY <1>6 DEF SkipRoom, MarkEmpty, SweepRoom, NextRoom, memberVars, placeVars
  <2>2. QuietBehind'
    BY <1>1, <2>1 DEF QuietBehind
  <2>3. rt \in rooms /\ rt \in Rooms
    BY <1>1, <1>2, <2>1 DEF IInv, CursorInv, CursorsOK
  <2>4. \A r \in Rooms : InRoom(r)' = InRoom(r)
    BY <2>1 DEF InRoom
  <2>5. CASE SkipRoom
    BY <1>1, <2>1, <2>2, <2>5, EmptyUnchanged DEF SkipRoom, roomVars
  <2>6. CASE MarkEmpty
    <3>1. InRoom(rt) = {}
      BY <1>1, <2>3, <2>6, CountZero DEF MarkEmpty
    <3>2. rooms' = rooms /\ \A r \in Rooms : r # rt => empty_flag'[r] = empty_flag[r]
      BY <1>2, <2>6 DEF MarkEmpty, roomVars
    <3> QED  BY <1>1, <2>2, <2>3, <2>4, <3>1, <3>2 DEF EmptyFlagged
  <2>7. CASE SweepRoom
    <3>1. rooms' = rooms \ {rt} /\ empty_flag' = [empty_flag EXCEPT ![rt] = 0]
      BY <2>7 DEF SweepRoom, remove_room
    <3> QED  BY <1>1, <1>2, <2>2, <2>4, <3>1 DEF EmptyFlagged
  <2> QED  BY <1>6, <2>5, <2>6, <2>7
<1>7. CASE SweepDone
  <2>1. pc' = "select" /\ UNCHANGED <<members, current_room, rooms, empty_flag>>
    BY <1>7 DEF SweepDone, memberVars, placeVars, roomVars
  <2> QED  BY <1>1, <2>1, EmptyUnchanged DEF QuietBehind
<1> QED  BY <1>3, <1>4, <1>5, <1>6, <1>7 DEF SweepStep

\* Every step keeps the invariant.
LEMMA RInvNext == RInv /\ [Next]_vars => RInv'
<1> SUFFICES ASSUME RInv, [Next]_vars PROVE RInv'
  OBVIOUS
<1> USE NullIsNoObject
<1>1. IInv /\ EmptyFlagged /\ QuietBehind /\ IInv'
  BY NextInv DEF RInv
<1> SUFFICES EmptyFlagged' /\ QuietBehind'
  BY <1>1 DEF RInv
<1>2. ASSUME NEW name \in RoomNames, LoadRoom(name) PROVE EmptyFlagged' /\ QuietBehind'
  <2>1. /\ UNCHANGED <<members, current_room, empty_flag>> /\ rooms \subseteq rooms'
        /\ pc' = "init"
    BY <1>2 DEF LoadRoom, RoomCreated, memberVars, placeVars
  <2> QED  BY <1>1, <2>1, EmptyUnchanged DEF QuietBehind
<1>3. ASSUME NEW name \in Names, Register(name) PROVE EmptyFlagged' /\ QuietBehind'
  <2>1. PICK m \in Members \ members : members' = members \cup {m}
    BY <1>3 DEF Register
  <2>2. pc' = "select" /\ UNCHANGED <<current_room, empty_flag, rooms>>
    BY <1>3 DEF Register, placeVars, roomVars
  <2>3. \A r \in Rooms : InRoom(r)' = InRoom(r)
    BY <1>1, <2>1, <2>2 DEF InRoom, IInv, PlaceInv
  <2> QED  BY <1>1, <2>2, <2>3, EmptyFrame DEF QuietBehind
<1>4. CASE \/ StartLoop \/ Ignored
           \/ \E name \in Names : RegisterRefused(name)
           \/ \E type \in MemberRequests : UnknownSender(type)
  <2>1. pc' = "select" /\ UNCHANGED <<members, current_room, empty_flag, rooms>>
    BY <1>4
    DEF StartLoop, Ignored, RegisterRefused, UnknownSender, memberVars, placeVars, roomVars
  <2> QED  BY <1>1, <2>1, EmptyUnchanged DEF QuietBehind
<1>5. ASSUME NEW m \in Members, NEW id \in Ids, MemberRequest(m, id)
      PROVE  EmptyFlagged' /\ QuietBehind'
  BY <1>5, EmptyRequest DEF QuietBehind
<1>6. CASE SweepTimeout
  <2>1. /\ pc' = "sweepMembers" /\ mt' = mem_list_head /\ next_member' = next_member
        /\ UNCHANGED <<members, current_room, empty_flag, rooms>>
    BY <1>6 DEF SweepTimeout, memberVars, memListVars, placeVars, roomVars
  <2>2. Walk(mt', next_member') = members'
    BY <1>1, <2>1, AheadOfEnds
  <2> QED  BY <1>1, <2>1, <2>2, EmptyUnchanged DEF QuietBehind
<1>7. CASE SweepStep
  BY <1>1, <1>7, FlagsSwept
<1>8. CASE UNCHANGED vars
  <2>1. UNCHANGED <<pc, mt, members, quiet_flag, next_member, current_room, empty_flag, rooms>>
    BY <1>8 DEF vars, memberVars, memListVars, placeVars, roomVars, cursorVars
  <2> QED  BY <1>1, <2>1, EmptyUnchanged DEF QuietBehind
<1> QED  BY <1>1, <1>2, <1>3, <1>4, <1>5, <1>6, <1>7, <1>8 DEF Next, Down

LEMMA RInvInit == Init => RInv
BY InitInv DEF RInv, Init, EmptyFlagged, QuietBehind

-----------------------------------------------------------------------------
(* The service's variables, seen from the server's. *)

\* Distinct values are as many as the objects that have them.
LEMMA DistinctValues ==
  ASSUME NEW f, NEW S, IsFiniteSet(S), \A x, y \in S : f[x] = f[y] => x = y
  PROVE  /\ IsFiniteSet({f[x] : x \in S})
         /\ Cardinality({f[x] : x \in S}) = Cardinality(S)
<1> DEFINE T == {f[x] : x \in S}
           g == [x \in S |-> f[x]]
<1>1. g \in Injection(S, T) /\ g \in Surjection(S, T)
  BY DEF Injection, Surjection, IsInjective
<1>2. ExistsBijection(S, T)
  BY <1>1 DEF ExistsBijection, Bijection
<1>3. IsFiniteSet(T) /\ Cardinality(T) = Cardinality(S)
  <2> HIDE DEF T
  <2> QED  BY <1>2, FS_Bijection
<1> QED  BY <1>3

\* Names and rooms by id are those of the staying member with that id.
Describes ==
  /\ Staying \subseteq members
  /\ NameById \in [Ids -> Names \cup {NULL}] /\ RoomById \in [Ids -> Rooms \cup {NULL}]
  /\ \A m \in Staying : /\ member_id[m] \in Ids
                        /\ NameById[member_id[m]] = member_name[m] /\ member_name[m] # NULL
                        /\ RoomById[member_id[m]] = current_room[m]
  /\ \A i \in Ids : (\A m \in Staying : member_id[m] # i) =>
                      NameById[i] = NULL /\ RoomById[i] = NULL

LEMMA ByIdValue ==
  ASSUME IInv, NEW f
  PROVE  /\ ById(f) = [i \in Ids |-> ById(f)[i]]
         /\ \A m \in Staying : member_id[m] \in Ids /\ ById(f)[member_id[m]] = f[m]
         /\ \A i \in Ids : (\A m \in Staying : member_id[m] # i) => ById(f)[i] = NULL
<1>1. Staying \subseteq members
  BY DEF Staying
<1>2. /\ members \subseteq Members /\ member_id \in [Members -> Ids \cup {NULL}]
      /\ \A m \in members : member_id[m] # NULL
      /\ \A m, n \in members : member_id[m] = member_id[n] => m = n
  BY DEF IInv, MemberInv, MemberTypes, MembersDiffer
<1>3. ASSUME NEW m \in Staying
      PROVE  member_id[m] \in Ids /\ ById(f)[member_id[m]] = f[m]
  <2>1. member_id[m] \in Ids
    BY <1>1, <1>2
  <2>2. (CHOOSE x \in Staying : member_id[x] = member_id[m]) = m
    BY <1>1, <1>2
  <2>3. ById(f)[member_id[m]] = f[CHOOSE x \in Staying : member_id[x] = member_id[m]]
    BY <2>1 DEF ById
  <2> QED  BY <2>1, <2>2, <2>3
<1>4. ASSUME NEW i \in Ids, \A m \in Staying : member_id[m] # i PROVE ById(f)[i] = NULL
  BY <1>4 DEF ById
<1>5. ById(f) = [i \in Ids |-> ById(f)[i]]
  BY DEF ById
<1> QED  BY <1>3, <1>4, <1>5

LEMMA Described == IInv => Describes
<1> SUFFICES ASSUME IInv PROVE Describes
  OBVIOUS
<1>1. /\ Staying \subseteq members /\ members \subseteq Members
      /\ member_name \in [Members -> Names \cup {NULL}]
      /\ \A m \in members : member_name[m] # NULL
  BY DEF Staying, IInv, MemberInv, MemberTypes, MembersDiffer
<1>2. \A m \in Members : current_room[m] \in Rooms \cup {NULL}
  BY DEF IInv, PlaceInv, PlaceTypes
<1>3. /\ NameById = [i \in Ids |-> NameById[i]]
      /\ \A m \in Staying : member_id[m] \in Ids /\ NameById[member_id[m]] = member_name[m]
      /\ \A i \in Ids : (\A m \in Staying : member_id[m] # i) => NameById[i] = NULL
  BY ByIdValue DEF NameById
<1>4. /\ RoomById = [i \in Ids |-> RoomById[i]]
      /\ \A m \in Staying : RoomById[member_id[m]] = current_room[m]
      /\ \A i \in Ids : (\A m \in Staying : member_id[m] # i) => RoomById[i] = NULL
  BY ByIdValue DEF RoomById
<1>5. \A i \in Ids : NameById[i] \in Names \cup {NULL} /\ RoomById[i] \in Rooms \cup {NULL}
  <2> SUFFICES ASSUME NEW i \in Ids
               PROVE  NameById[i] \in Names \cup {NULL} /\ RoomById[i] \in Rooms \cup {NULL}
    OBVIOUS
  <2>1. CASE \A m \in Staying : member_id[m] # i
    BY <1>3, <1>4, <2>1
  <2>2. ASSUME NEW m \in Staying, member_id[m] = i
        PROVE  NameById[i] \in Names \cup {NULL} /\ RoomById[i] \in Rooms \cup {NULL}
    BY <1>1, <1>2, <1>3, <1>4, <2>2
  <2> QED  BY <2>1, <2>2
<1>6. NameById \in [Ids -> Names \cup {NULL}] /\ RoomById \in [Ids -> Rooms \cup {NULL}]
  BY <1>3, <1>4, <1>5
<1> QED  BY <1>1, <1>3, <1>4, <1>6 DEF Describes

\* Nothing staying changes its id, name or room: neither do the service's.
LEMMA SameNames ==
  ASSUME Describes, Describes', Staying' = Staying,
         \A m \in Staying : /\ member_id'[m] = member_id[m]
                            /\ member_name'[m] = member_name[m]
                            /\ current_room'[m] = current_room[m]
  PROVE  NameById' = NameById /\ RoomById' = RoomById
<1>1. ASSUME NEW i \in Ids PROVE NameById'[i] = NameById[i] /\ RoomById'[i] = RoomById[i]
  <2>1. CASE \A m \in Staying : member_id[m] # i
    BY <2>1 DEF Describes
  <2>2. ASSUME NEW m \in Staying, member_id[m] = i
        PROVE  NameById'[i] = NameById[i] /\ RoomById'[i] = RoomById[i]
    BY <2>2 DEF Describes
  <2> QED  BY <2>1, <2>2
<1> QED  BY <1>1 DEF Describes

\* Between requests nothing is due to be swept.
AtRest == pc \in {"init", "select", "down"}
RestView ==
  /\ Staying = members /\ KeptRooms = rooms
  /\ Titles = [r \in Rooms |-> IF r \in rooms THEN room_name[r] ELSE NULL]
  /\ IdleRooms = {r \in rooms : empty_flag[r] # 0}
  /\ HeardIds = {member_id[m] : m \in {x \in members : quiet_flag[x] = 0}}

LEMMA RestViewOf == AtRest => RestView
BY DEF AtRest, RestView, Staying, Doomed, KeptRooms, IdleRooms, Titles, Unswept, HeardIds

\* The ids online, and those in a room.
LEMMA WhoIsOnline ==
  ASSUME Describes
  PROVE  Service!Online = {member_id[m] : m \in Staying}
<1>1. \A i \in Ids : NameById[i] # NULL => \E m \in Staying : member_id[m] = i
  BY DEF Describes
<1>2. \A m \in Staying : member_id[m] \in Ids /\ NameById[member_id[m]] # NULL
  BY DEF Describes
<1> QED  BY <1>1, <1>2 DEF Service!Online

LEMMA WhoIsWhere ==
  ASSUME IInv, AtRest, NEW r \in rooms
  PROVE  /\ Service!Occupants(r) = {member_id[m] : m \in InRoom(r)}
         /\ Cardinality(Service!Occupants(r)) = num_of_members[r]
<1>1. Describes /\ RestView
  BY Described, RestViewOf
<1>2. /\ Staying = members /\ Service!Online = {member_id[m] : m \in members}
      /\ \A m \in members : RoomById[member_id[m]] = current_room[m]
  BY <1>1, WhoIsOnline DEF RestView, Describes
<1>5. Service!Occupants(r) = {member_id[m] : m \in InRoom(r)}
  BY <1>2 DEF Service!Occupants, InRoom
<1>6. IsFiniteSet(InRoom(r)) /\ \A m, n \in InRoom(r) : member_id[m] = member_id[n] => m = n
  BY FS_Subset DEF IInv, MemberInv, MembersDiffer, InRoom
<1>7. num_of_members[r] = Cardinality(InRoom(r))
  BY DEF IInv, PlaceInv, RoomInv, RoomTypes, RoomMembersOK
<1>8. Cardinality({member_id[m] : m \in InRoom(r)}) = Cardinality(InRoom(r))
  BY <1>6, DistinctValues
<1> QED  BY <1>5, <1>7, <1>8

\* The totals are those of the ids online and of the rooms.
LEMMA Totals ==
  ASSUME IInv, AtRest
  PROVE  /\ Cardinality(Service!Online) = total_num_of_members
         /\ Cardinality(KeptRooms) = total_num_of_rooms
<1>1. Describes /\ RestView
  BY Described, RestViewOf
<1>2. /\ IsFiniteSet(members) /\ total_num_of_members = Cardinality(members)
      /\ \A m, n \in members : member_id[m] = member_id[n] => m = n
  BY DEF IInv, MemberInv, MemberListOK, MembersDiffer
<1>3. total_num_of_rooms = Cardinality(rooms)
  BY DEF IInv, RoomInv, RoomListOK
<1>4. Service!Online = {member_id[m] : m \in members}
  BY <1>1, WhoIsOnline DEF RestView
<1>5. KeptRooms = rooms
  BY <1>1 DEF RestView
<1>6. Cardinality({member_id[m] : m \in members}) = Cardinality(members)
  BY <1>2, DistinctValues
<1> QED  BY <1>2, <1>3, <1>4, <1>5, <1>6

\* The service counts as the server does.
LEMMA SameCardinality == \A S : Service!Cardinality(S) = Cardinality(S)
BY DEF Service!Cardinality, Cardinality

\* What the service sends is what the server sends.
LEMMA SameReplies ==
  /\ Service!NoReply = NoReply
  /\ \A t, i, d : Service!Reply(t, i, d) = Reply(t, i, d)
  /\ Service!CHAT = CHAT
  /\ Service!REGISTER_SUCC = REGISTER_SUCC /\ Service!REGISTER_FAIL = REGISTER_FAIL
  /\ Service!ROOM_LIST_SUCC = ROOM_LIST_SUCC /\ Service!ROOM_LIST_FAIL = ROOM_LIST_FAIL
  /\ Service!MEMBER_LIST_SUCC = MEMBER_LIST_SUCC /\ Service!MEMBER_LIST_FAIL = MEMBER_LIST_FAIL
  /\ Service!SWITCH_ROOM_SUCC = SWITCH_ROOM_SUCC /\ Service!SWITCH_ROOM_FAIL = SWITCH_ROOM_FAIL
  /\ Service!CREATE_ROOM_SUCC = CREATE_ROOM_SUCC /\ Service!CREATE_ROOM_FAIL = CREATE_ROOM_FAIL
  /\ Service!MemberRequests = MemberRequests
BY DEF Service!NoReply, NoReply, Service!Reply, Reply, Service!CHAT, CHAT,
  Service!REGISTER_SUCC, REGISTER_SUCC, Service!REGISTER_FAIL, REGISTER_FAIL,
  Service!ROOM_LIST_SUCC, ROOM_LIST_SUCC, Service!ROOM_LIST_FAIL, ROOM_LIST_FAIL,
  Service!MEMBER_LIST_SUCC, MEMBER_LIST_SUCC, Service!MEMBER_LIST_FAIL, MEMBER_LIST_FAIL,
  Service!SWITCH_ROOM_SUCC, SWITCH_ROOM_SUCC, Service!SWITCH_ROOM_FAIL, SWITCH_ROOM_FAIL,
  Service!CREATE_ROOM_SUCC, CREATE_ROOM_SUCC, Service!CREATE_ROOM_FAIL, CREATE_ROOM_FAIL,
  Service!MemberRequests, MemberRequests, Service!ROOM_LIST_REQUEST, ROOM_LIST_REQUEST,
  Service!QUIT_REQUEST, QUIT_REQUEST

\* A walk through a room's list meets exactly those who are in it.
LEMMA RoomWalk ==
  ASSUME IInv, NEW r \in Rooms
  PROVE  RoomMembers(r) = InRoom(r)
<1>1. /\ InRoom(r) \in SUBSET Members
      /\ next_room_member \in [Members -> Members \cup {NULL}]
      /\ IsChain(InRoom(r), member_list_head[r], next_room_member)
  BY DEF IInv, MemberInv, MemberTypes, PlaceInv, PlaceTypes, RoomMembersOK, IsList, InRoom
<1> QED  BY <1>1, WalkVisitsChain DEF RoomMembers

-----------------------------------------------------------------------------
(* Requests of members. *)

\* The member found is online, under its name and in its room.
LEMMA Found ==
  ASSUME IInv, pc = "select", NEW id \in Ids, NEW m \in find_member_with_id(id)
  PROVE  /\ m \in members /\ m \in Members /\ member_id[m] = id
         /\ \A x \in members : member_id[x] = id => x = m
         /\ id \in Service!Online /\ Phase = "up" /\ AtRest /\ RestView /\ Describes
         /\ NameById[id] = member_name[m] /\ RoomById[id] = current_room[m]
<1>1. m \in members /\ member_id[m] = id /\ members \subseteq Members
  BY SearchesFind DEF find_member_with_id, IInv, MemberInv, MemberTypes
<1>2. \A x \in members : member_id[x] = id => x = m
  BY <1>1 DEF IInv, MemberInv, MembersDiffer
<1>3. AtRest /\ RestView /\ Describes
  BY RestViewOf, Described DEF AtRest
<1>4. m \in Staying
  BY <1>1, <1>3 DEF RestView
<1>5. id \in Service!Online
  BY <1>1, <1>3, <1>4, WhoIsOnline
<1>6. NameById[id] = member_name[m] /\ RoomById[id] = current_room[m]
  BY <1>1, <1>3, <1>4 DEF Describes
<1> QED  BY <1>1, <1>2, <1>3, <1>5, <1>6 DEF Phase

\* A member whose request is handled has been heard from.
LEMMA HeardIdsGrow ==
  ASSUME IInv, NEW id \in Ids, NEW m \in Members, HeardFrom(m, id), AtRest',
         UNCHANGED <<members, member_id>>
  PROVE  Service!Hear(id)
<1>1. /\ pc = "select" /\ m \in find_member_with_id(id)
      /\ quiet_flag' = [quiet_flag EXCEPT ![m] = 0]
  BY DEF HeardFrom
<1>2. /\ m \in members /\ member_id[m] = id /\ RestView /\ Phase = "up" /\ id \in Service!Online
  BY <1>1, Found
<1>3. RestView'
  BY RestViewOf, PTL
<1>4. quiet_flag \in [Members -> {0, 1}] /\ members \subseteq Members
  BY DEF IInv, MemberInv, MemberTypes
<1>5. {x \in members : quiet_flag'[x] = 0} = {x \in members : quiet_flag[x] = 0} \cup {m}
  BY <1>1, <1>2, <1>4
<1>6. HeardIds' = HeardIds \cup {id}
  BY <1>2, <1>3, <1>5 DEF RestView
<1> QED  BY <1>2, <1>6 DEF Service!Hear

\* Members and rooms that do not change look the same to the service.
LEMMA SameView ==
  ASSUME IInv, IInv', AtRest, AtRest',
         UNCHANGED <<members, member_id, member_name, current_room, rooms, room_name, empty_flag>>
  PROVE  UNCHANGED <<NameById, RoomById, KeptRooms, Titles, IdleRooms>>
<1>1. Describes /\ RestView
  BY Described, RestViewOf
<1>2. Describes' /\ RestView'
  BY Described, RestViewOf, PTL
<1>3. Staying' = Staying /\ KeptRooms' = KeptRooms /\ Titles' = Titles /\ IdleRooms' = IdleRooms
  BY <1>1, <1>2 DEF RestView
<1>4. NameById' = NameById /\ RoomById' = RoomById
  BY <1>1, <1>2, <1>3, SameNames
<1> QED  BY <1>3, <1>4

\* A request that is answered from what there is: nothing but the flag changes.
LEMMA AnsweredView ==
  ASSUME IInv, IInv', NEW id \in Ids, NEW m \in Members, HeardFrom(m, id),
         UNCHANGED <<pc, memberVars, placeVars, roomVars, empty_flag>>
  PROVE  Service!Hear(id) /\ UNCHANGED <<Phase, NameById, RoomById, KeptRooms, Titles, IdleRooms>>
<1>1. /\ pc = "select" /\ pc' = pc
      /\ UNCHANGED <<members, member_id, member_name, current_room, rooms, room_name, empty_flag>>
  BY DEF HeardFrom, memberVars, placeVars, roomVars
<1>2. AtRest /\ AtRest'
  BY <1>1 DEF AtRest
<1>3. Phase' = Phase
  BY <1>1 DEF Phase
<1> QED  BY <1>1, <1>2, <1>3, HeardIdsGrow, SameView

LEMMA AnsweredStep ==
  ASSUME IInv, IInv', NEW id \in Ids, NEW m \in Members,
         KeepAlive(m, id) \/ ListRooms(m, id) \/ ChatMessage(m, id)
  PROVE  Service!Hear(id) /\ (Service!KeepAlive(id) \/ Service!ListRooms(id) \/ Service!Chat(id))
<1> USE NullIsNoObject
<1>1. HeardFrom(m, id) /\ UNCHANGED <<pc, memberVars, placeVars, roomVars, empty_flag>>
  BY DEF KeepAlive, ListRooms, ChatMessage
<1>2. Service!Hear(id) /\ UNCHANGED <<Phase, NameById, RoomById, KeptRooms, Titles, IdleRooms>>
  BY <1>1, AnsweredView
<1>3. /\ m \in members /\ AtRest /\ RestView /\ RoomById[id] = current_room[m]
      /\ RoomList = rooms /\ KeptRooms = rooms
  BY <1>1, Found, SearchesFind DEF HeardFrom, RestView
<1>4. CASE KeepAlive(m, id)
  <2>1. reply' = NoReply
    BY <1>4 DEF KeepAlive, Silent
  <2> QED  BY <1>2, <2>1, SameReplies DEF Service!KeepAlive
<1>5. CASE ListRooms(m, id)
  <2> DEFINE garbled == {r \in rooms : ~ Readable(r)}
             Listed(r) == IF r \in garbled THEN NULL ELSE Titles[r]
             Answer == Reply(ROOM_LIST_SUCC, id,
                             {<<Listed(r), Service!Cardinality(Service!Occupants(r))>> : r \in rooms})
  <2>1. reply' = IF total_num_of_rooms = 0 THEN Reply(ROOM_LIST_FAIL, id, {})
                 ELSE Reply(ROOM_LIST_SUCC, id, {<<NameRead(r), num_of_members[r]>> : r \in rooms})
    BY <1>3, <1>5 DEF ListRooms
  <2>2. total_num_of_rooms = 0 <=> rooms = {}
    BY FS_EmptySet DEF IInv, RoomInv, RoomListOK
  <2>3. \A r \in rooms : r \in Rooms /\ Titles[r] = room_name[r]
    BY <1>3 DEF RestView, IInv, RoomInv, RoomTypes
  <2>4. \A r \in rooms : Listed(r) = NameRead(r)
    BY <2>3 DEF NameRead
  <2>5. \A r \in rooms : Service!Cardinality(Service!Occupants(r)) = num_of_members[r]
    BY <1>3, WhoIsWhere, SameCardinality
  <2>6. garbled \in SUBSET {r \in rooms : Titles[r] \in FullNames}
    BY <2>3 DEF Readable
  <2>7. \/ rooms = {} /\ reply' = Reply(ROOM_LIST_FAIL, id, {})
        \/ rooms # {} /\ reply' = Answer
    <3> HIDE DEF Listed
    <3>1. {<<NameRead(r), num_of_members[r]>> : r \in rooms}
            = {<<Listed(r), Service!Cardinality(Service!Occupants(r))>> : r \in rooms}
      BY <2>4, <2>5
    <3> QED  BY <2>1, <2>2, <3>1
  <2>8. Service!ListRooms(id)
    <3> HIDE DEF garbled
    <3> QED  BY <1>2, <1>3, <2>6, <2>7, SameReplies DEF Service!ListRooms
  <2> QED  BY <1>2, <2>8
<1>6. CASE ChatMessage(m, id)
  <2>1. CASE current_room[m] = NULL
    <3>1. reply' = NoReply
      BY <1>6, <2>1 DEF ChatMessage, Silent
    <3> QED  BY <1>2, <1>3, <2>1, <3>1, SameReplies DEF Service!Chat
  <2>2. CASE current_room[m] # NULL
    <3> DEFINE r == current_room[m]
    <3>1. r \in rooms /\ r \in Rooms
      BY <1>3, <2>2 DEF IInv, PlaceInv, NoDanglingRoom, RoomInv, RoomTypes
    <3>2. RoomMembers(r) = InRoom(r)
      BY <3>1, RoomWalk
    <3>3. PICK to \in SUBSET InRoom(r) : reply' = Reply(CHAT, id, {member_id[x] : x \in to})
      BY <1>6, <2>2, <3>2 DEF ChatMessage, Recipients
    <3>4. {member_id[x] : x \in to} \in SUBSET Service!Occupants(RoomById[id])
      BY <1>3, <3>1, WhoIsWhere
    <3> QED  BY <1>2, <1>3, <2>2, <3>3, <3>4, SameReplies DEF Service!Chat
  <2> QED  BY <2>1, <2>2
<1> QED  BY <1>4, <1>5, <1>6

\* A search for a name stops at a room the service has under the name, or at none
\* if the service has none or the name is a full one.
LEMMA NamedRooms ==
  ASSUME IInv, AtRest, NEW n
  PROVE  /\ FirstNamed(n) \subseteq RoomsNamed(n) /\ RoomsNamed(n) \subseteq Service!Named(n)
         /\ RoomsNamed(n) \subseteq Service!Found(n) /\ RoomsNamed(n) \subseteq rooms
         /\ RoomsNamed(n) = {} => NULL \in Service!Found(n)
<1>1. /\ RoomsNamed(n) = {r \in rooms : room_name[r] = n /\ Readable(r)}
      /\ FirstNamed(n) \subseteq RoomsNamed(n)
  BY SearchesFind DEF RoomsNamed, FirstNamed
<1>2. Service!Named(n) = {r \in rooms : room_name[r] = n}
  BY RestViewOf DEF RestView, Service!Named, IInv, RoomInv, RoomTypes
<1>3. n \notin FullNames => RoomsNamed(n) = Service!Named(n)
  BY <1>1, <1>2 DEF Readable
<1> QED  BY <1>1, <1>2, <1>3 DEF Service!Found

LEMMA ListMembersStep ==
  ASSUME IInv, IInv', NEW id \in Ids, NEW m \in Members, NEW n \in RoomNames,
         ListMembers(m, id, n)
  PROVE  Service!Hear(id) /\ Service!ListMembers(id, n)
<1>1. HeardFrom(m, id) /\ UNCHANGED <<pc, memberVars, placeVars, roomVars, empty_flag>>
  BY DEF ListMembers
<1>2. Service!Hear(id) /\ UNCHANGED <<Phase, NameById, RoomById, KeptRooms, Titles, IdleRooms>>
  BY <1>1, AnsweredView
<1>3. AtRest /\ RestView /\ Describes
  BY <1>1, Found DEF HeardFrom
<1>4. /\ FirstNamed(n) \subseteq RoomsNamed(n) /\ RoomsNamed(n) \subseteq rooms
      /\ RoomsNamed(n) \subseteq Service!Found(n)
      /\ RoomsNamed(n) = {} => NULL \in Service!Found(n)
  BY <1>3, NamedRooms
<1>5. ASSUME NEW r \in FirstNamed(n)
      PROVE  /\ r # NULL /\ r \in Service!Found(n)
             /\ member_list_head[r] = NULL <=> Service!Occupants(r) = {}
             /\ {NameById[j] : j \in Service!Occupants(r)} = {member_name[x] : x \in RoomMembers(r)}
  <2>1. r \in rooms /\ r \in Rooms
    BY <1>4 DEF IInv, RoomInv, RoomTypes
  <2>2. member_list_head[r] = NULL <=> InRoom(r) = {}
    BY <2>1 DEF IInv, PlaceInv, RoomMembersOK, IsList, IsChain
  <2>3. Service!Occupants(r) = {member_id[x] : x \in InRoom(r)}
    BY <1>3, <2>1, WhoIsWhere
  <2>4. \A x \in InRoom(r) : NameById[member_id[x]] = member_name[x]
    BY <1>3 DEF RestView, Describes, InRoom
  <2>5. {NameById[j] : j \in {member_id[x] : x \in InRoom(r)}} = {member_name[x] : x \in InRoom(r)}
    BY <2>4
  <2>6. RoomMembers(r) = InRoom(r)
    BY <2>1, RoomWalk
  <2> QED  BY <1>4, <2>1, <2>2, <2>3, <2>5, <2>6, NullIsNoObject
<1> DEFINE Answer(h) == IF h # NULL /\ Service!Occupants(h) # {}
                        THEN Reply(MEMBER_LIST_SUCC, id, {NameById[j] : j \in Service!Occupants(h)})
                        ELSE Reply(MEMBER_LIST_FAIL, id, {})
<1>6. \E h \in Service!Found(n) : reply' = Answer(h)
  <2>1. ASSUME NEW r \in FirstNamed(n), member_list_head[r] # NULL,
               reply' = Reply(MEMBER_LIST_SUCC, id, {member_name[x] : x \in RoomMembers(r)})
        PROVE  \E h \in Service!Found(n) : reply' = Answer(h)
    BY <1>5, <2>1
  <2>2. ASSUME NEW r \in FirstNamed(n), member_list_head[r] = NULL,
               reply' = Reply(MEMBER_LIST_FAIL, id, {})
        PROVE  \E h \in Service!Found(n) : reply' = Answer(h)
    BY <1>5, <2>2
  <2>3. CASE RoomsNamed(n) = {} /\ reply' = Reply(MEMBER_LIST_FAIL, id, {})
    BY <1>4, <2>3
  <2> QED  BY <2>1, <2>2, <2>3 DEF ListMembers
<1> QED  BY <1>2, <1>6, SameReplies DEF Service!ListMembers

\* Members and what is known of them do not change while rooms are added.
LEMMA SameMembers ==
  ASSUME IInv, IInv', AtRest, AtRest',
         UNCHANGED <<members, member_id, member_name, current_room>>
  PROVE  UNCHANGED <<NameById, RoomById>>
<1>1. Describes /\ RestView
  BY Described, RestViewOf
<1>2. Describes' /\ RestView'
  BY Described, RestViewOf, PTL
<1>3. Staying' = Staying
  BY <1>1, <1>2 DEF RestView
<1> QED  BY <1>1, <1>2, <1>3, SameNames

\* The tests of create_room are tests the service allows.
LEMMA Refusals ==
  ASSUME IInv, AtRest, NEW n
  PROVE  /\ ~ RoomRefused(n) => Service!Creatable(n)
         /\ RoomRefused(n) => \/ n \in LongNames \/ Service!Named(n) # {}
                              \/ Service!Cardinality(KeptRooms) = MAX_NUM_OF_ROOMS
<1>1. Service!Cardinality(KeptRooms) = total_num_of_rooms
  BY Totals, SameCardinality
<1>2. total_num_of_rooms \in 0 .. MAX_NUM_OF_ROOMS /\ MAX_NUM_OF_ROOMS \in Nat
  BY LimitAssumption DEF IInv, RoomInv, RoomTypes
<1>3. total_num_of_rooms = MAX_NUM_OF_ROOMS <=> ~ (Service!Cardinality(KeptRooms) < MAX_NUM_OF_ROOMS)
  BY <1>1, <1>2
<1>4. /\ RoomsNamed(n) \subseteq Service!Named(n)
      /\ RoomsNamed(n) = {} => NULL \in Service!Found(n)
  BY NamedRooms
<1> QED  BY <1>1, <1>3, <1>4 DEF RoomRefused, Service!Creatable

\* A new room is a new handle with its name, and is not marked.
LEMMA NewRoomView ==
  ASSUME RInv, IInv', AtRest, AtRest', NEW n \in RoomNames, RoomCreated(n)
  PROVE  Service!Creates(n) /\ UNCHANGED <<NameById, RoomById, IdleRooms>>
<1>1. IInv /\ EmptyFlagged
  BY DEF RInv
<1>2. PICK r \in Rooms \ rooms : /\ rooms' = rooms \cup {r}
                                 /\ room_name' = [room_name EXCEPT ![r] = n]
  BY DEF RoomCreated
<1>3. /\ ~ RoomRefused(n)
      /\ UNCHANGED <<members, member_id, member_name, current_room, empty_flag>>
  BY DEF RoomCreated, memberVars, placeVars
<1>4. room_name \in [Rooms -> RoomNames \cup {NULL}] /\ rooms \subseteq Rooms
  BY <1>1 DEF IInv, RoomInv, RoomTypes
<1>5. empty_flag[r] = 0
  BY <1>1, <1>2 DEF EmptyFlagged
<1>6. UNCHANGED <<NameById, RoomById>>
  BY <1>1, <1>3, SameMembers
<1>7. RestView /\ RestView'
  BY RestViewOf, PTL
<1>8. KeptRooms = rooms /\ KeptRooms' = KeptRooms \cup {r}
  BY <1>2, <1>7 DEF RestView
<1>9. Titles' = [Titles EXCEPT ![r] = n]
  <2>1. /\ Titles = [s \in Rooms |-> IF s \in rooms THEN room_name[s] ELSE NULL]
        /\ Titles' = [s \in Rooms |-> IF s \in rooms' THEN room_name'[s] ELSE NULL]
    BY <1>7 DEF RestView
  <2> QED  BY <1>2, <1>4, <2>1
<1>10. {x \in rooms' : empty_flag'[x] # 0} = {x \in rooms : empty_flag[x] # 0}
  BY <1>2, <1>3, <1>5
<1>11. IdleRooms' = IdleRooms
  BY <1>7, <1>10 DEF RestView
<1>12. Service!Creates(n)
  BY <1>1, <1>2, <1>3, <1>8, <1>9, Refusals DEF Service!Creates
<1> QED  BY <1>6, <1>11, <1>12

LEMMA CreateRoomStep ==
  ASSUME RInv, IInv', NEW id \in Ids, NEW m \in Members, NEW n \in RoomNames,
         CreateRoom(m, id, n)
  PROVE  /\ Service!Hear(id)
         /\ Service!CreateRoom(id, n) \/ Service!CreateRefused(id, n) \/ Service!CreateDies(id, n)
<1>1. IInv /\ HeardFrom(m, id) /\ pc = "select" /\ m \in find_member_with_id(id)
  BY DEF CreateRoom, HeardFrom, RInv
<1>2. AtRest
  BY <1>1, Found
<1>3. CASE RoomCreated(n) /\ reply' = Reply(CREATE_ROOM_SUCC, id, {}) /\ pc' = pc
  <2>1. AtRest' /\ Phase' = Phase /\ UNCHANGED <<members, member_id>>
    BY <1>1, <1>3 DEF AtRest, Phase, RoomCreated, memberVars
  <2>2. Service!Hear(id)
    BY <1>1, <2>1, HeardIdsGrow
  <2>3. Service!Creates(n) /\ UNCHANGED <<NameById, RoomById, IdleRooms>>
    BY <1>2, <1>3, <2>1, NewRoomView
  <2> QED  BY <1>3, <2>1, <2>2, <2>3, SameReplies DEF Service!CreateRoom
<1>4. CASE RoomRefused(n) /\ reply' = Reply(CREATE_ROOM_FAIL, id, {})
           /\ UNCHANGED <<pc, memberVars, placeVars, roomVars, empty_flag>>
  <2>1. Service!Hear(id) /\ UNCHANGED <<Phase, NameById, RoomById, KeptRooms, Titles, IdleRooms>>
    BY <1>1, <1>4, AnsweredView
  <2> QED  BY <1>1, <1>2, <1>4, <2>1, Refusals, SameReplies DEF Service!CreateRefused
<1>5. CASE ~ RoomRefused(n) /\ Silent /\ ServerDies
  <2>1. /\ AtRest' /\ Phase' = "down"
        /\ UNCHANGED <<members, member_id, member_name, current_room, rooms, room_name, empty_flag>>
    BY <1>5 DEF AtRest, Phase, ServerDies, memberVars, placeVars, roomVars
  <2>2. Service!Hear(id)
    BY <1>1, <2>1, HeardIdsGrow
  <2>3. UNCHANGED <<NameById, RoomById, KeptRooms, Titles, IdleRooms>>
    BY <1>1, <1>2, <2>1, SameView
  <2> QED  BY <1>1, <1>2, <1>5, <2>1, <2>2, <2>3, Refusals, SameReplies
           DEF Service!CreateDies, Silent
<1> QED  BY <1>3, <1>4, <1>5 DEF CreateRoom

\* The tests of process_switch_room_request are the service's.
LEMMA Entry ==
  ASSUME IInv, NEW id \in Ids, NEW m \in Members, HeardFrom(m, id), NEW r \in rooms
  PROVE  Service!Enterable(id, r) <=>
           num_of_members[r] # MAX_NUM_OF_MEMBERS_PER_ROOM /\ current_room[m] # r
<1>1. AtRest /\ RoomById[id] = current_room[m]
  BY Found DEF HeardFrom
<1>2. r \in Rooms /\ r # NULL
  BY NullIsNoObject DEF IInv, RoomInv, RoomTypes
<1>3. num_of_members[r] \in 0 .. MAX_NUM_OF_MEMBERS_PER_ROOM /\ MAX_NUM_OF_MEMBERS_PER_ROOM \in Nat
  BY <1>2, LimitAssumption DEF IInv, PlaceInv, PlaceTypes
<1>4. Service!Cardinality(Service!Occupants(r)) = num_of_members[r]
  BY <1>1, WhoIsWhere, SameCardinality
<1>5. num_of_members[r] # MAX_NUM_OF_MEMBERS_PER_ROOM
        <=> Service!Cardinality(Service!Occupants(r)) < MAX_NUM_OF_MEMBERS_PER_ROOM
  BY <1>3, <1>4
<1> QED  BY <1>1, <1>2, <1>5 DEF Service!Enterable

LEMMA SwitchRefusedStep ==
  ASSUME IInv, IInv', NEW id \in Ids, NEW m \in Members, NEW n \in RoomNames,
         SwitchRefused(m, id, n)
  PROVE  Service!Hear(id) /\ Service!SwitchRefused(id, n)
<1>1. /\ HeardFrom(m, id) /\ UNCHANGED <<pc, memberVars, placeVars, roomVars, empty_flag>>
      /\ reply' = Reply(SWITCH_ROOM_FAIL, id, {})
      /\ \/ RoomsNamed(n) = {}
         \/ \E r \in FirstNamed(n) :
              num_of_members[r] = MAX_NUM_OF_MEMBERS_PER_ROOM \/ current_room[m] = r
  BY DEF SwitchRefused
<1>2. Service!Hear(id) /\ UNCHANGED <<Phase, NameById, RoomById, KeptRooms, Titles, IdleRooms>>
  BY <1>1, AnsweredView
<1>3. /\ FirstNamed(n) \subseteq rooms /\ FirstNamed(n) \subseteq Service!Found(n)
      /\ RoomsNamed(n) = {} => NULL \in Service!Found(n)
  BY <1>1, Found, NamedRooms DEF HeardFrom
<1>4. ~ Service!Enterable(id, NULL)
  BY DEF Service!Enterable
<1>5. \E h \in Service!Found(n) : ~ Service!Enterable(id, h)
  BY <1>1, <1>3, <1>4, Entry
<1> QED  BY <1>1, <1>2, <1>5, SameReplies DEF Service!SwitchRefused

LEMMA SwitchRoomMoves ==
  ASSUME IInv, IInv', NEW id \in Ids, NEW m \in Members, NEW n \in RoomNames,
         SwitchRoom(m, id, n)
  PROVE  Service!Hear(id) /\ Service!SwitchRoom(id, n)
<1> USE NullIsNoObject
<1>1. /\ HeardFrom(m, id) /\ pc = "select" /\ pc' = pc /\ m \in find_member_with_id(id)
      /\ UNCHANGED <<members, member_id, member_name, rooms, room_name>>
      /\ reply' = Reply(SWITCH_ROOM_SUCC, id, {})
  BY DEF SwitchRoom, HeardFrom, memberVars, roomVars
<1>2. PICK r \in FirstNamed(n) : /\ num_of_members[r] # MAX_NUM_OF_MEMBERS_PER_ROOM
                                 /\ current_room[m] # r
                                 /\ current_room' = [current_room EXCEPT ![m] = r]
                                 /\ empty_flag' = [empty_flag EXCEPT ![r] = 0]
  BY DEF SwitchRoom
<1>3. /\ m \in members /\ AtRest /\ RestView /\ Describes /\ member_id[m] = id
      /\ \A x \in members : member_id[x] = id => x = m
  BY <1>1, Found
<1>4. AtRest' /\ Phase' = Phase
  BY <1>1 DEF AtRest, Phase
<1>5. RestView' /\ Describes'
  BY <1>4, RestViewOf, Described, PTL
<1>6. r \in rooms /\ r \in Service!Found(n)
  BY <1>2, <1>3, NamedRooms
<1>7. /\ current_room \in [Members -> Rooms \cup {NULL}] /\ empty_flag \in [Rooms -> {0, 1}]
      /\ members \subseteq Members /\ rooms \subseteq Rooms
  BY DEF IInv, PlaceInv, PlaceTypes, RoomInv, RoomTypes, MemberInv, MemberTypes
<1>8. Service!Enterable(id, r)
  BY <1>1, <1>2, <1>6, Entry
<1>9. Service!Hear(id)
  BY <1>1, <1>4, HeardIdsGrow
<1>10. KeptRooms' = KeptRooms /\ Titles' = Titles
  BY <1>1, <1>3, <1>5 DEF RestView
<1>11. IdleRooms' = IdleRooms \ {r}
  <2>1. {x \in rooms : empty_flag'[x] # 0} = {x \in rooms : empty_flag[x] # 0} \ {r}
    BY <1>2, <1>6, <1>7
  <2> QED  BY <1>1, <1>3, <1>5, <2>1 DEF RestView
<1>12. NameById' = NameById /\ RoomById' = [RoomById EXCEPT ![id] = r]
  <2>1. Staying = members /\ Staying' = members
    BY <1>1, <1>3, <1>5 DEF RestView
  <2>2. /\ current_room'[m] = r
        /\ \A x \in members : x # m => current_room'[x] = current_room[x]
    BY <1>2, <1>3, <1>7
  <2>3. ASSUME NEW i \in Ids
        PROVE  NameById'[i] = NameById[i] /\ RoomById'[i] = IF i = id THEN r ELSE RoomById[i]
    <3>1. CASE \A x \in members : member_id[x] # i
      BY <1>1, <1>3, <1>5, <2>1, <3>1 DEF Describes
    <3>2. ASSUME NEW x \in members, member_id[x] = i
          PROVE  NameById'[i] = NameById[i] /\ RoomById'[i] = IF i = id THEN r ELSE RoomById[i]
      BY <1>1, <1>3, <1>5, <2>1, <2>2, <3>2 DEF Describes
    <3> QED  BY <3>1, <3>2
  <2> QED  BY <1>3, <1>5, <2>3 DEF Describes
<1> QED  BY <1>1, <1>4, <1>6, <1>8, <1>9, <1>10, <1>11, <1>12, SameReplies
         DEF Service!SwitchRoom

LEMMA QuitStep ==
  ASSUME IInv, IInv', NEW id \in Ids, NEW m \in Members, Quit(m, id)
  PROVE  Service!Quit(id)
<1>1. /\ pc = "select" /\ pc' = pc /\ m \in find_member_with_id(id)
      /\ UNCHANGED <<rooms, room_name, empty_flag>> /\ reply' = NoReply
      /\ members' = members \ {m}
      /\ member_id' = [member_id EXCEPT ![m] = NULL]
      /\ member_name' = [member_name EXCEPT ![m] = NULL]
      /\ quiet_flag' = [quiet_flag EXCEPT ![m] = 0]
      /\ current_room' = [current_room EXCEPT ![m] = NULL]
  BY DEF Quit, roomVars, Silent, remove_member
<1>2. /\ m \in members /\ AtRest /\ RestView /\ Describes /\ member_id[m] = id
      /\ \A x \in members : member_id[x] = id => x = m
      /\ id \in Service!Online /\ Phase = "up"
  BY <1>1, Found
<1>3. AtRest' /\ Phase' = Phase
  BY <1>1 DEF AtRest, Phase
<1>4. RestView' /\ Describes'
  BY <1>3, RestViewOf, Described, PTL
<1>5. \A x \in members' : /\ x \in members /\ member_id[x] # id
                          /\ member_id'[x] = member_id[x] /\ member_name'[x] = member_name[x]
                          /\ quiet_flag'[x] = quiet_flag[x]
                          /\ current_room'[x] = current_room[x]
  <2>1. /\ member_id \in [Members -> Ids \cup {NULL}] /\ members \subseteq Members
        /\ member_name \in [Members -> Names \cup {NULL}] /\ quiet_flag \in [Members -> {0, 1}]
        /\ current_room \in [Members -> Rooms \cup {NULL}]
    BY DEF IInv, PlaceInv, PlaceTypes, MemberInv, MemberTypes
  <2> QED  BY <1>1, <1>2, <2>1
<1>6. KeptRooms' = KeptRooms /\ Titles' = Titles /\ IdleRooms' = IdleRooms
  BY <1>1, <1>2, <1>4 DEF RestView
<1>7. HeardIds' = HeardIds \ {id}
  <2>1. {x \in members' : quiet_flag'[x] = 0} = {x \in members : quiet_flag[x] = 0} \ {m}
    BY <1>1, <1>5
  <2> QED  BY <1>1, <1>2, <1>4, <1>5, <2>1 DEF RestView
<1>8. /\ NameById' = [NameById EXCEPT ![id] = NULL]
      /\ RoomById' = [RoomById EXCEPT ![id] = NULL]
  <2>1. Staying = members /\ Staying' = members'
    BY <1>2, <1>4 DEF RestView
  <2>2. ASSUME NEW i \in Ids
        PROVE  /\ NameById'[i] = IF i = id THEN NULL ELSE NameById[i]
               /\ RoomById'[i] = IF i = id THEN NULL ELSE RoomById[i]
    <3>1. CASE \A x \in members : member_id[x] # i
      BY <1>2, <1>4, <1>5, <2>1, <3>1 DEF Describes
    <3>2. CASE i = id
      BY <1>4, <1>5, <2>1, <3>2 DEF Describes
    <3>3. ASSUME NEW x \in members, member_id[x] = i, i # id
          PROVE  NameById'[i] = NameById[i] /\ RoomById'[i] = RoomById[i]
      <4>1. x \in members'
        BY <1>1, <1>2, <3>3
      <4> QED  BY <1>2, <1>4, <1>5, <2>1, <3>3, <4>1 DEF Describes
    <3> QED  BY <3>1, <3>2, <3>3
  <2> QED  BY <1>2, <1>4, <2>2 DEF Describes
<1> QED  BY <1>1, <1>2, <1>3, <1>6, <1>7, <1>8, SameReplies DEF Service!Quit

-----------------------------------------------------------------------------
(* Registrations, unknown senders and the start. *)

\* The tests of process_register_request are the service's.
LEMMA RegistrationTests ==
  ASSUME IInv, AtRest, NEW n \in Names
  PROVE  /\ ServerFull <=> Service!Full
         /\ (\E m \in MemberList : member_name[m] = n) <=> Service!Taken(n)
<1>1. Describes /\ RestView
  BY Described, RestViewOf
<1>2. ServerFull <=> Service!Full
  BY Totals, SameCardinality DEF ServerFull, MAX_NUM_OF_MEMBERS, Service!Full
<1>3. /\ Service!Online = {member_id[m] : m \in members} /\ MemberList = members
      /\ \A m \in members : NameById[member_id[m]] = member_name[m]
  BY <1>1, WhoIsOnline, SearchesFind DEF RestView, Describes
<1>4. (\E m \in MemberList : member_name[m] = n) <=> Service!Taken(n)
  BY <1>3 DEF Service!Taken
<1> QED  BY <1>2, <1>4

LEMMA RegisterNew ==
  ASSUME IInv, IInv', NEW n \in Names, Register(n)
  PROVE  Service!Register(n)
<1> USE NullIsNoObject
<1>1. /\ pc = "select" /\ pc' = pc /\ UNCHANGED <<current_room, rooms, room_name, empty_flag>>
      /\ ~ ServerFull /\ \A m \in MemberList : member_name[m] # n
  BY DEF Register, placeVars, roomVars
<1>2. PICK m \in Members \ members, id \in FreeIds :
        /\ members' = members \cup {m}
        /\ member_id' = [member_id EXCEPT ![m] = id]
        /\ member_name' = [member_name EXCEPT ![m] = n]
        /\ quiet_flag' = [quiet_flag EXCEPT ![m] = 0]
        /\ reply' = Reply(REGISTER_SUCC, id, {})
  BY DEF Register
<1>3. AtRest /\ AtRest' /\ Phase = "up" /\ Phase' = Phase
  BY <1>1 DEF AtRest, Phase
<1>4. RestView /\ Describes /\ ~ Service!Full /\ ~ Service!Taken(n)
  BY <1>1, <1>3, RestViewOf, Described, RegistrationTests
<1>5. RestView' /\ Describes'
  BY <1>3, RestViewOf, Described, PTL
<1>6. /\ Staying = members /\ Staying' = members'
      /\ Service!Online = {member_id[x] : x \in members} /\ MemberList = members
  BY <1>4, <1>5, WhoIsOnline, SearchesFind DEF RestView
<1>7. id \in Ids \ Service!Online
  BY <1>6 DEF FreeIds
<1>8. /\ \A x \in members : /\ member_id'[x] = member_id[x] /\ member_name'[x] = member_name[x]
                            /\ quiet_flag'[x] = quiet_flag[x] /\ member_id[x] # id
                            /\ current_room'[x] = current_room[x]
      /\ member_id'[m] = id /\ member_name'[m] = n /\ quiet_flag'[m] = 0
      /\ current_room'[m] = NULL
  <2>1. /\ member_id \in [Members -> Ids \cup {NULL}] /\ members \subseteq Members
        /\ member_name \in [Members -> Names \cup {NULL}] /\ quiet_flag \in [Members -> {0, 1}]
        /\ current_room[m] = NULL
    BY <1>2 DEF IInv, PlaceInv, MemberInv, MemberTypes
  <2> QED  BY <1>1, <1>2, <1>6, <1>7, <2>1
<1>9. KeptRooms' = KeptRooms /\ Titles' = Titles /\ IdleRooms' = IdleRooms
  BY <1>1, <1>4, <1>5 DEF RestView
<1>10. HeardIds' = HeardIds \cup {id}
  <2>1. {x \in members' : quiet_flag'[x] = 0} = {x \in members : quiet_flag[x] = 0} \cup {m}
    BY <1>2, <1>8
  <2> QED  BY <1>4, <1>5, <1>8, <2>1 DEF RestView
<1>11. NameById' = [NameById EXCEPT ![id] = n] /\ RoomById' = RoomById
  <2>1. ASSUME NEW i \in Ids
        PROVE  NameById'[i] = (IF i = id THEN n ELSE NameById[i]) /\ RoomById'[i] = RoomById[i]
    <3>1. CASE i = id
      <4>1. m \in members' /\ \A x \in members : member_id[x] # id
        BY <1>2, <1>8
      <4> QED  BY <1>4, <1>5, <1>6, <1>8, <3>1, <4>1 DEF Describes
    <3>2. CASE i # id /\ \A x \in members : member_id[x] # i
      <4>1. \A x \in members' : member_id'[x] # i
        BY <1>2, <1>8, <3>2
      <4> QED  BY <1>4, <1>5, <1>6, <3>2, <4>1 DEF Describes
    <3>3. ASSUME NEW x \in members, member_id[x] = i, i # id
          PROVE  NameById'[i] = NameById[i] /\ RoomById'[i] = RoomById[i]
      <4>1. x \in members'
        BY <1>2
      <4> QED  BY <1>4, <1>5, <1>6, <1>8, <3>3, <4>1 DEF Describes
    <3> QED  BY <3>1, <3>2, <3>3
  <2> QED  BY <1>4, <1>5, <2>1 DEF Describes
<1> QED  BY <1>2, <1>3, <1>4, <1>7, <1>9, <1>10, <1>11, SameReplies DEF Service!Register

\* What is neither a member's request nor a registration that succeeds.
LEMMA OtherStep ==
  ASSUME IInv, IInv',
         \/ \E n \in Names : RegisterRefused(n)
         \/ \E type \in MemberRequests : UnknownSender(type)
         \/ Ignored
         \/ StartLoop
  PROVE  Service!Next
<1>1. /\ UNCHANGED <<members, member_id, member_name, quiet_flag, current_room, rooms, room_name,
                     empty_flag>>
      /\ pc \in {"init", "select"} /\ pc' = "select"
  BY DEF RegisterRefused, UnknownSender, Ignored, StartLoop, memberVars, placeVars, roomVars
<1>2. AtRest /\ AtRest' /\ Phase' = "up"
  BY <1>1 DEF AtRest, Phase
<1>3. RestView /\ Describes /\ RestView'
  BY <1>2, RestViewOf, Described, PTL
<1>4. HeardIds' = HeardIds
  BY <1>1, <1>3 DEF RestView
<1>5. UNCHANGED <<NameById, RoomById, HeardIds, KeptRooms, Titles, IdleRooms>>
  BY <1>1, <1>2, <1>4, SameView
<1>6. ASSUME NEW n \in Names, RegisterRefused(n) PROVE Service!Next
  <2>1. /\ Phase = "up" /\ (ServerFull \/ \E m \in MemberList : member_name[m] = n)
        /\ reply' = Reply(REGISTER_FAIL, 0, IF ServerFull THEN {} ELSE {n})
    BY <1>6 DEF RegisterRefused, Phase
  <2>2. /\ ServerFull <=> Service!Full
        /\ (\E m \in MemberList : member_name[m] = n) <=> Service!Taken(n)
    BY <1>2, RegistrationTests
  <2>3. Service!Full \/ Service!Taken(n)
    BY <2>1, <2>2
  <2>4. reply' = Service!Reply(Service!REGISTER_FAIL, 0, IF Service!Full THEN {} ELSE {n})
    <3>1. (IF ServerFull THEN {} ELSE {n}) = IF Service!Full THEN {} ELSE {n}
      BY <2>2
    <3> QED  BY <2>1, <3>1, SameReplies
  <2>5. Service!RegisterRefused(n)
    BY <1>2, <1>5, <2>1, <2>3, <2>4 DEF Service!RegisterRefused
  <2> QED  BY <2>5 DEF Service!Next
<1>7. ASSUME NEW type \in MemberRequests, UnknownSender(type)
      PROVE  Service!Next
  <2>1. Phase = "up" /\ reply' = Reply(type + 2, 0, {})
    BY <1>7 DEF UnknownSender, Phase
  <2> PICK id \in Ids : find_member_with_id(id) = {}
    BY <1>7 DEF UnknownSender
  <2>2. id \notin Service!Online
    BY <1>3, WhoIsOnline, SearchesFind DEF find_member_with_id, RestView
  <2>3. Service!Unknown(type, id)
    BY <1>2, <1>5, <2>1, <2>2, SameReplies DEF Service!Unknown
  <2>4. type \in Service!MemberRequests
    BY SameReplies
  <2> QED  BY <2>3, <2>4 DEF Service!Next
<1>8. CASE Ignored
  <2>1. Phase = "up" /\ reply' = NoReply
    BY <1>8 DEF Ignored, Silent, Phase
  <2> QED  BY <1>2, <1>5, <2>1, SameReplies DEF Service!Ignored, Service!Next
<1>9. CASE StartLoop
  <2>1. Phase = "init" /\ reply' = reply
    BY <1>9 DEF StartLoop, Phase
  <2> QED  BY <1>2, <1>5, <2>1 DEF Service!Start, Service!Next
<1> QED  BY <1>6, <1>7, <1>8, <1>9

LEMMA LoadRoomStep ==
  ASSUME RInv, IInv', NEW n \in RoomNames, LoadRoom(n)
  PROVE  Service!LoadRoom(n)
<1>1. /\ pc = "init" /\ pc' = pc /\ RoomCreated(n) /\ UNCHANGED <<quiet_flag, reply>>
      /\ IInv /\ UNCHANGED <<members, member_id>>
  BY DEF LoadRoom, RInv, RoomCreated, memberVars
<1>2. AtRest /\ AtRest' /\ Phase = "init" /\ Phase' = Phase
  BY <1>1 DEF AtRest, Phase
<1>3. RestView /\ RestView'
  BY <1>2, RestViewOf, PTL
<1>4. HeardIds' = HeardIds
  BY <1>1, <1>3 DEF RestView
<1>5. Service!Creates(n) /\ UNCHANGED <<NameById, RoomById, IdleRooms>>
  BY <1>1, <1>2, NewRoomView
<1> QED  BY <1>1, <1>2, <1>4, <1>5 DEF Service!LoadRoom

-----------------------------------------------------------------------------
(* The sweep. *)

\* A room marked as empty has nobody left to desert it.
LEMMA SweepTimeoutStep ==
  ASSUME RInv, IInv', SweepTimeout
  PROVE  Service!Sweep
<1> USE NullIsNoObject
<1>1. /\ pc = "select" /\ pc' = "sweepMembers" /\ mt' = mem_list_head /\ reply' = NoReply
      /\ UNCHANGED <<members, member_id, member_name, quiet_flag, current_room, next_member,
                     rooms, room_name, empty_flag>>
      /\ IInv /\ EmptyFlagged
  BY DEF SweepTimeout, RInv, memberVars, placeVars, roomVars, memListVars, Silent
<1>2. AtRest /\ Phase = "up" /\ Phase' = Phase
  BY <1>1 DEF AtRest, Phase
<1>3. RestView /\ Describes
  BY <1>1, <1>2, RestViewOf, Described
<1>4. Describes'
  BY Described, PTL
<1> DEFINE stay == {m \in members : quiet_flag[m] = 0}
           left == {r \in rooms : \A m \in stay : current_room[m] # r}
<1>5. Staying' = stay
  <2>1. Walk(mt', next_member') = members
    BY <1>1, AheadOfEnds
  <2> QED  BY <1>1, <2>1 DEF Staying, Doomed
<1>6. /\ Staying = members /\ HeardIds = {member_id[m] : m \in stay}
  BY <1>3 DEF RestView
<1>7. HeardIds' = {}
  BY <1>1 DEF HeardIds
<1>8. /\ \A m, x \in members : member_id[m] = member_id[x] => m = x
      /\ members \subseteq Members /\ rooms \subseteq Rooms
  BY <1>1 DEF IInv, MemberInv, MemberTypes, MembersDiffer, RoomInv, RoomTypes
<1>9. /\ NameById' = [i \in Ids |-> IF i \in HeardIds THEN NameById[i] ELSE NULL]
      /\ RoomById' = [i \in Ids |-> IF i \in HeardIds THEN RoomById[i] ELSE NULL]
  <2>1. ASSUME NEW i \in Ids
        PROVE  /\ NameById'[i] = IF i \in HeardIds THEN NameById[i] ELSE NULL
               /\ RoomById'[i] = IF i \in HeardIds THEN RoomById[i] ELSE NULL
    <3>1. CASE \A m \in stay : member_id[m] # i
      <4>1. i \notin HeardIds /\ \A m \in Staying' : member_id'[m] # i
        BY <1>1, <1>5, <1>6, <3>1
      <4> QED  BY <1>4, <4>1 DEF Describes
    <3>2. ASSUME NEW m \in stay, member_id[m] = i
          PROVE  /\ i \in HeardIds
                 /\ NameById'[i] = NameById[i] /\ RoomById'[i] = RoomById[i]
      <4>1. m \in Staying /\ m \in Staying' /\ m \in members /\ i \in HeardIds
        BY <1>5, <1>6, <3>2
      <4> HIDE DEF stay
      <4>2. NameById[i] = member_name[m] /\ RoomById[i] = current_room[m]
        BY <1>3, <3>2, <4>1 DEF Describes
      <4>3. NameById'[i] = member_name'[m] /\ RoomById'[i] = current_room'[m]
        BY <1>1, <1>4, <3>2, <4>1 DEF Describes
      <4> QED  BY <1>1, <4>1, <4>2, <4>3
    <3> QED  BY <3>1, <3>2
  <2> QED  BY <1>4, <2>1 DEF Describes
<1>10. /\ KeptRooms' = {r \in rooms : ~ (r \in left /\ empty_flag[r] # 0)}
       /\ IdleRooms' = {r \in left : empty_flag[r] = 0}
  <2>1. Unswept' = rooms /\ Deserted' = left
    BY <1>1, <1>5 DEF Unswept, Deserted
  <2>2. \A r \in rooms : empty_flag[r] # 0 => r \in left
    BY <1>1, <1>8 DEF EmptyFlagged, InRoom
  <2>3. KeptRooms' = {r \in rooms : ~ (r \in left /\ empty_flag[r] # 0)}
    BY <1>1, <2>1 DEF KeptRooms
  <2>4. IdleRooms' = {r \in KeptRooms' : empty_flag[r] # 0 \/ r \in left}
    BY <1>1, <2>1 DEF IdleRooms
  <2> QED  BY <2>2, <2>3, <2>4
<1> DEFINE deserted == {r \in KeptRooms : Service!Occupants(r) \cap HeardIds = {}}
<1>11. deserted = left /\ KeptRooms = rooms
  <2>1. KeptRooms = rooms
    BY <1>3 DEF RestView
  <2>2. ASSUME NEW r \in rooms
        PROVE  Service!Occupants(r) \cap HeardIds = {} <=> r \in left
    <3>1. Service!Occupants(r) = {member_id[m] : m \in InRoom(r)}
      BY <1>1, <1>2, WhoIsWhere
    <3>2. {member_id[m] : m \in InRoom(r)} \cap {member_id[m] : m \in stay} = {} <=> r \in left
      BY <1>8 DEF InRoom
    <3> QED  BY <1>6, <3>1, <3>2
  <2> HIDE DEF left
  <2>3. left \subseteq rooms
    BY DEF left
  <2> QED  BY <2>1, <2>2, <2>3
<1>12. /\ KeptRooms' = KeptRooms \ (deserted \cap IdleRooms)
       /\ IdleRooms' = deserted \ IdleRooms
  <2> HIDE DEF deserted, left
  <2>1. IdleRooms = {r \in rooms : empty_flag[r] # 0}
    BY <1>3 DEF RestView
  <2>2. left \subseteq rooms
    BY DEF left
  <2> QED  BY <1>10, <1>11, <2>1, <2>2
<1>13. Titles' = [r \in Rooms |-> IF r \in KeptRooms' THEN Titles[r] ELSE NULL]
  <2>1. \A r \in KeptRooms' : r \in rooms /\ Titles[r] = room_name[r]
    BY <1>3, <1>8, <1>10 DEF RestView
  <2>2. Titles' = [r \in Rooms |-> IF r \in KeptRooms' THEN room_name[r] ELSE NULL]
    BY <1>1 DEF Titles
  <2> QED  BY <2>1, <2>2
<1>14. Service!HeardAfter = {}
  BY DEF Service!HeardAfter
<1> QED  BY <1>1, <1>2, <1>7, <1>9, <1>12, <1>13, <1>14, SameReplies DEF Service!Sweep

\* What the sweep leaves alone.
LEMMA SameWhileSweeping ==
  ASSUME IInv, IInv', Staying' = Staying, KeptRooms' = KeptRooms, IdleRooms' = IdleRooms,
         \A m \in Staying : /\ member_id'[m] = member_id[m] /\ member_name'[m] = member_name[m]
                            /\ current_room'[m] = current_room[m],
         \A r \in KeptRooms : room_name'[r] = room_name[r],
         HeardIds' = HeardIds, Phase' = Phase, reply' = reply
  PROVE  UNCHANGED Service!svars
<1>1. Describes /\ Describes'
  BY Described, PTL
<1>2. NameById' = NameById /\ RoomById' = RoomById
  BY <1>1, SameNames
<1>3. Titles' = Titles
  BY DEF Titles
<1> QED  BY <1>2, <1>3 DEF Service!svars

\* A member that leaves was counted as gone since the sweep began.
LEMMA MemberSweepStep ==
  ASSUME RInv, IInv', MarkQuiet \/ SweepMember
  PROVE  UNCHANGED Service!svars
<1> USE NullIsNoObject
<1>1. /\ IInv /\ pc = "sweepMembers" /\ pc' = pc /\ NextMember
      /\ UNCHANGED <<rooms, room_name, empty_flag, reply>>
      /\ UNCHANGED memListVars \/ remove_member(mt)
  BY DEF RInv, MarkQuiet, SweepMember, NextMember, roomVars
<1>2. /\ mt \in members /\ mt \in Walk(mt, next_member)
      /\ Walk(mt, next_member) \subseteq members
      /\ Walk(mt', next_member') = Walk(mt, next_member) \ {mt}
  BY <1>1, MemberAhead
<1>3. /\ members \subseteq Members /\ quiet_flag \in [Members -> {0, 1}]
      /\ member_id \in [Members -> Ids \cup {NULL}]
      /\ member_name \in [Members -> Names \cup {NULL}]
      /\ current_room \in [Members -> Rooms \cup {NULL}]
  BY <1>1 DEF IInv, MemberInv, MemberTypes, PlaceInv, PlaceTypes
<1>4. /\ \A m \in members : m # mt =>
           /\ quiet_flag'[m] = quiet_flag[m] /\ member_id'[m] = member_id[m]
           /\ member_name'[m] = member_name[m] /\ current_room'[m] = current_room[m]
      /\ \/ /\ quiet_flag[mt] = 0 /\ members' = members
            /\ UNCHANGED <<member_id, member_name, current_room>>
         \/ quiet_flag[mt] # 0 /\ members' = members \ {mt}
  <2>1. CASE MarkQuiet
    BY <1>2, <1>3, <2>1 DEF MarkQuiet, memberVars, placeVars
  <2>2. CASE SweepMember
    BY <1>2, <1>3, <2>2 DEF SweepMember, remove_member
  <2> QED  BY <2>1, <2>2
<1>5. /\ Staying = {m \in members : m \in Walk(mt, next_member) => quiet_flag[m] = 0}
      /\ Staying' = {m \in members' : m \in Walk(mt', next_member') => quiet_flag'[m] = 0}
  BY <1>1 DEF Staying, Doomed
<1>6. Staying' = Staying
  BY <1>2, <1>4, <1>5
<1>7. \A m \in Staying : /\ member_id'[m] = member_id[m] /\ member_name'[m] = member_name[m]
                         /\ current_room'[m] = current_room[m]
  BY <1>2, <1>4, <1>5
<1>8. Deserted' = Deserted /\ Unswept' = Unswept
  BY <1>1, <1>6, <1>7 DEF Deserted, Unswept
<1>9. KeptRooms' = KeptRooms
  BY <1>1, <1>8 DEF KeptRooms
<1>10. IdleRooms' = IdleRooms
  BY <1>1, <1>8, <1>9 DEF IdleRooms
<1>11. HeardIds' = HeardIds /\ Phase' = Phase
  BY <1>1 DEF HeardIds, Phase
<1> QED  BY <1>1, <1>6, <1>7, <1>9, <1>10, <1>11, SameWhileSweeping

\* A room that is freed was counted as gone, one that is marked as marked.
LEMMA RoomSweepStep ==
  ASSUME RInv, IInv', SkipRoom \/ MarkEmpty \/ SweepRoom
  PROVE  UNCHANGED Service!svars
<1> USE NullIsNoObject
<1>1. /\ IInv /\ pc = "sweepRooms" /\ pc' = pc /\ NextRoom
      /\ UNCHANGED <<members, member_id, member_name, quiet_flag, current_room, reply>>
      /\ UNCHANGED next_room \/ remove_room(rt)
  BY DEF RInv, SkipRoom, MarkEmpty, SweepRoom, NextRoom, memberVars, placeVars, roomVars
<1>2. /\ rt \in rooms /\ rt \in Walk(rt, next_room) /\ Walk(rt, next_room) \subseteq rooms
      /\ Walk(rt', next_room') = Walk(rt, next_room) \ {rt}
  BY <1>1, RoomAhead
<1>3. /\ rooms \subseteq Rooms /\ empty_flag \in [Rooms -> {0, 1}]
      /\ room_name \in [Rooms -> RoomNames \cup {NULL}]
  BY <1>1 DEF IInv, RoomInv, RoomTypes
<1>4. /\ Staying = members /\ Staying' = members
      /\ Unswept = Walk(rt, next_room) /\ Unswept' = Unswept \ {rt}
  BY <1>1, <1>2 DEF Staying, Doomed, Unswept
<1>5. /\ Deserted = {r \in rooms : InRoom(r) = {}}
      /\ Deserted' = {r \in rooms' : InRoom(r) = {}}
  BY <1>1, <1>4 DEF Deserted, InRoom
<1>6. num_of_members[rt] = 0 <=> InRoom(rt) = {}
  BY <1>1, <1>2, <1>3, CountZero
<1>7. /\ \A r \in rooms : r # rt => r \in rooms' /\ room_name'[r] = room_name[r]
                                    /\ empty_flag'[r] = empty_flag[r]
      /\ \/ /\ InRoom(rt) # {} /\ UNCHANGED <<rooms, room_name, empty_flag>>
         \/ /\ InRoom(rt) = {} /\ empty_flag[rt] = 0 /\ UNCHANGED <<rooms, room_name>>
            /\ empty_flag'[rt] # 0
         \/ InRoom(rt) = {} /\ empty_flag[rt] # 0 /\ rooms' = rooms \ {rt}
  <2>1. CASE SkipRoom
    BY <1>6, <2>1 DEF SkipRoom, roomVars
  <2>2. CASE MarkEmpty
    BY <1>2, <1>3, <1>6, <2>2 DEF MarkEmpty, roomVars
  <2>3. CASE SweepRoom
    BY <1>2, <1>3, <1>6, <2>3 DEF SweepRoom, remove_room
  <2> QED  BY <2>1, <2>2, <2>3
<1>8. rooms' \subseteq rooms
  BY <1>7
<1>9. KeptRooms' = KeptRooms
  BY <1>2, <1>4, <1>5, <1>7, <1>8 DEF KeptRooms
<1>10. IdleRooms' = IdleRooms
  <2>1. /\ IdleRooms = {r \in KeptRooms : empty_flag[r] # 0 \/ (r \in Unswept /\ r \in Deserted)}
        /\ IdleRooms' = {r \in KeptRooms : empty_flag'[r] # 0 \/ (r \in Unswept' /\ r \in Deserted')}
    BY <1>9 DEF IdleRooms
  <2>2. KeptRooms \subseteq rooms /\ (rt \in KeptRooms => rt \in rooms')
    BY <1>2, <1>4, <1>5, <1>7 DEF KeptRooms
  <2>3. ASSUME NEW r \in KeptRooms
        PROVE  empty_flag[r] # 0 \/ (r \in Unswept /\ r \in Deserted)
                 <=> empty_flag'[r] # 0 \/ (r \in Unswept' /\ r \in Deserted')
    BY <1>2, <1>4, <1>5, <1>7, <1>8, <2>2
  <2> QED  BY <2>1, <2>3
<1>11. \A r \in KeptRooms : room_name'[r] = room_name[r]
  BY <1>2, <1>4, <1>5, <1>7 DEF KeptRooms
<1>12. HeardIds' = HeardIds /\ Phase' = Phase
  BY <1>1 DEF HeardIds, Phase
<1> QED  BY <1>1, <1>4, <1>9, <1>10, <1>11, <1>12, SameWhileSweeping

\* Between the two loops, and at the end, nothing is left to sweep.
LEMMA LoopEndStep ==
  ASSUME RInv, IInv', MembersSwept \/ SweepDone
  PROVE  UNCHANGED Service!svars
<1> USE NullIsNoObject
<1>1. /\ IInv /\ QuietBehind
      /\ UNCHANGED <<members, member_id, member_name, quiet_flag, current_room, next_room,
                     rooms, room_name, empty_flag, reply>>
  BY DEF RInv, MembersSwept, SweepDone, memberVars, placeVars, roomVars
<1>2. CASE MembersSwept
  <2>1. /\ pc = "sweepMembers" /\ mt = NULL /\ pc' = "sweepRooms" /\ rt' = room_list_head
    BY <1>2 DEF MembersSwept
  <2>2. Staying = members /\ Staying' = members
    BY <1>1, <2>1, AheadOfEnds DEF Staying, Doomed
  <2>3. Unswept = rooms /\ Unswept' = rooms
    BY <1>1, <2>1, AheadOfEnds DEF Unswept
  <2>4. Deserted' = Deserted
    BY <1>1, <2>2 DEF Deserted
  <2>5. KeptRooms' = KeptRooms
    BY <1>1, <2>3, <2>4 DEF KeptRooms
  <2>6. IdleRooms' = IdleRooms
    BY <1>1, <2>3, <2>4, <2>5 DEF IdleRooms
  <2>7. HeardIds' = HeardIds /\ Phase' = Phase
    BY <2>1 DEF HeardIds, Phase
  <2> QED  BY <1>1, <2>2, <2>5, <2>6, <2>7, SameWhileSweeping
<1>3. CASE SweepDone
  <2>1. pc = "sweepRooms" /\ rt = NULL /\ pc' = "select"
    BY <1>3 DEF SweepDone
  <2>2. Staying = members /\ Staying' = members
    BY <1>1, <2>1 DEF Staying, Doomed
  <2>3. Unswept = {} /\ Unswept' = {}
    BY <1>1, <2>1, AheadOfEnds DEF Unswept
  <2>4. KeptRooms' = KeptRooms
    BY <1>1, <2>3 DEF KeptRooms
  <2>5. IdleRooms' = IdleRooms
    BY <1>1, <2>3, <2>4 DEF IdleRooms
  <2>6. HeardIds = {} /\ HeardIds' = {}
    BY <1>1, <2>1 DEF HeardIds, QuietBehind
  <2>7. Phase' = Phase
    BY <2>1 DEF Phase
  <2> QED  BY <1>1, <2>2, <2>4, <2>5, <2>6, <2>7, SameWhileSweeping
<1> QED  BY <1>2, <1>3

-----------------------------------------------------------------------------
LEMMA InitImplements == Init => Service!Init
<1> SUFFICES ASSUME Init PROVE Service!Init
  OBVIOUS
<1>1. /\ pc = "init" /\ members = {} /\ rooms = {} /\ reply = NoReply
  BY DEF Init
<1>2. AtRest /\ Phase = "init"
  BY <1>1 DEF AtRest, Phase
<1>3. RestView /\ Describes
  BY <1>2, RestViewOf, InitInv, Described
<1>4. /\ NameById = [i \in Ids |-> NULL] /\ RoomById = [i \in Ids |-> NULL]
      /\ HeardIds = {} /\ KeptRooms = {} /\ IdleRooms = {}
      /\ Titles = [r \in Rooms |-> NULL]
  BY <1>1, <1>3 DEF RestView, Describes
<1> QED  BY <1>1, <1>2, <1>4, SameReplies DEF Service!Init

\* Every request is a request of the service.
LEMMA RequestImplements ==
  ASSUME RInv, IInv', NEW m \in Members, NEW id \in Ids, MemberRequest(m, id)
  PROVE  Service!Next
<1>1. IInv
  BY DEF RInv
<1>2. CASE KeepAlive(m, id) \/ ListRooms(m, id) \/ ChatMessage(m, id)
  BY <1>1, <1>2, AnsweredStep DEF Service!Request, Service!Next
<1>3. CASE Quit(m, id)
  BY <1>1, <1>3, QuitStep DEF Service!Next
<1>4. ASSUME NEW n \in RoomNames, ListMembers(m, id, n) PROVE Service!Next
  BY <1>1, <1>4, ListMembersStep DEF Service!Request, Service!Next
<1>5. ASSUME NEW n \in RoomNames, CreateRoom(m, id, n) PROVE Service!Next
  BY <1>5, CreateRoomStep DEF Service!Request, Service!Next
<1>6. ASSUME NEW n \in RoomNames, SwitchRoom(m, id, n) PROVE Service!Next
  BY <1>1, <1>6, SwitchRoomMoves DEF Service!Request, Service!Next
<1>7. ASSUME NEW n \in RoomNames, SwitchRefused(m, id, n) PROVE Service!Next
  BY <1>1, <1>7, SwitchRefusedStep DEF Service!Request, Service!Next
<1> QED  BY <1>2, <1>3, <1>4, <1>5, <1>6, <1>7 DEF MemberRequest

\* Every step of the server is a step of the service, or none.
LEMMA StepImplements == RInv /\ RInv' /\ [Next]_vars => [Service!Next]_(Service!svars)
<1> SUFFICES ASSUME RInv, RInv', [Next]_vars PROVE Service!Next \/ UNCHANGED Service!svars
  OBVIOUS
<1>1. IInv /\ IInv'
  BY DEF RInv
<1>2. ASSUME NEW n \in RoomNames, LoadRoom(n) PROVE Service!Next
  BY <1>1, <1>2, LoadRoomStep DEF Service!Next
<1>3. ASSUME NEW n \in Names, Register(n) PROVE Service!Next
  BY <1>1, <1>3, RegisterNew DEF Service!Next
<1>4. CASE \/ \E n \in Names : RegisterRefused(n)
           \/ \E type \in MemberRequests : UnknownSender(type)
           \/ Ignored \/ StartLoop
  BY <1>1, <1>4, OtherStep
<1>5. ASSUME NEW m \in Members, NEW id \in Ids, MemberRequest(m, id) PROVE Service!Next
  BY <1>1, <1>5, RequestImplements
<1>6. CASE SweepTimeout
  BY <1>1, <1>6, SweepTimeoutStep DEF Service!Next
<1>7. CASE SweepStep
  BY <1>1, <1>7, MemberSweepStep, RoomSweepStep, LoopEndStep DEF SweepStep
<1>8. CASE UNCHANGED vars
  <2>1. UNCHANGED <<pc, mt, rt, members, member_id, member_name, quiet_flag, next_member,
                    current_room, rooms, room_name, empty_flag, next_room, reply>>
    BY <1>8 DEF vars, memberVars, memListVars, placeVars, roomVars, cursorVars
  <2>2. Staying' = Staying
    BY <2>1 DEF Staying, Doomed
  <2>3. Unswept' = Unswept /\ Deserted' = Deserted
    BY <2>1, <2>2 DEF Unswept, Deserted
  <2>4. KeptRooms' = KeptRooms
    BY <2>1, <2>3 DEF KeptRooms
  <2>5. IdleRooms' = IdleRooms
    BY <2>1, <2>3, <2>4 DEF IdleRooms
  <2>6. HeardIds' = HeardIds /\ Phase' = Phase
    BY <2>1 DEF HeardIds, Phase
  <2> QED  BY <1>1, <2>1, <2>2, <2>4, <2>5, <2>6, SameWhileSweeping
<1> QED  BY <1>2, <1>3, <1>4, <1>5, <1>6, <1>7, <1>8 DEF Next, Down

\* The chat server, with its linked lists, its flags and a sweep that frees
\* nodes of the lists it walks, does nothing its clients could tell from the
\* service: the answers, the relayed messages and who is swept are the same,
\* for any number of members, rooms, ids and names and any two limits.
THEOREM Refinement == Spec => ImplementsService
<1>1. Init => RInv
  BY RInvInit
<1>2. RInv /\ [Next]_vars => RInv'
  BY RInvNext
<1>3. Init => Service!Init
  BY InitImplements
<1>4. RInv /\ RInv' /\ [Next]_vars => [Service!Next]_(Service!svars)
  BY StepImplements
<1> QED  BY <1>1, <1>2, <1>3, <1>4, PTL DEF Spec, ImplementsService, Service!Spec
=============================================================================
