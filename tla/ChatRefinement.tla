---------------------------- MODULE ChatRefinement ----------------------------
(***************************************************************************)
(* ChatServer implements ChatService.  The server's sweep takes many steps;  *)
(* the service's happens at the first of them, so while it runs the members  *)
(* and rooms still to be removed already count as gone and the rooms still   *)
(* to be marked as marked.                                                   *)
(***************************************************************************)
EXTENDS ChatServer

\* Members the running sweep will remove, and those that stay.
Doomed ==
  IF pc = "sweepMembers" THEN {m \in Walk(mt, next_member) : quiet_flag[m] # 0} ELSE {}
Staying == members \ Doomed

\* Rooms the running sweep has yet to look at.
Unswept ==
  CASE pc = "sweepMembers" -> rooms
    [] pc = "sweepRooms"   -> Walk(rt, next_room)
    [] OTHER               -> {}
Deserted == {r \in rooms : \A m \in Staying : current_room[m] # r}
KeptRooms == {r \in rooms : ~ (empty_flag[r] # 0 /\ r \in Unswept /\ r \in Deserted)}
IdleRooms == {r \in KeptRooms : empty_flag[r] # 0 \/ (r \in Unswept /\ r \in Deserted)}

\* The field f of the staying member with each id.
ById(f) ==
  [i \in Ids |-> IF \E m \in Staying : member_id[m] = i
                 THEN f[CHOOSE m \in Staying : member_id[m] = i] ELSE NULL]

\* The variables of the service.
Phase == CASE pc = "init" -> "init" [] pc = "down" -> "down" [] OTHER -> "up"
NameById == ById(member_name)
RoomById == ById(current_room)
HeardIds ==
  IF pc \in {"sweepMembers", "sweepRooms"} THEN {}
  ELSE {member_id[m] : m \in {x \in members : quiet_flag[x] = 0}}
Titles == [r \in Rooms |-> IF r \in KeptRooms THEN room_name[r] ELSE NULL]

Service == INSTANCE ChatService WITH
  phase <- Phase, name <- NameById, room <- RoomById,
  heard <- HeardIds, rooms <- KeptRooms, title <- Titles, idle <- IdleRooms

\* Every reply, every relayed message, every registration and every removal is
\* one the service promises: in particular a sweep of the linked lists removes
\* all and only the members silent for a whole interval, "sweep members that are
\* there for more than 1 sweep interval without messages" (server_main.c:142).
ImplementsService == Service!Spec
=============================================================================
