------------------------------- MODULE ChatDefs -------------------------------
(***************************************************************************)
(* The message types of the chat protocol (A3/defs.h) and what the server's  *)
(* handlers send.  Of the texts of failures only that of a name in use is    *)
(* kept, as the name: it is the only one the client looks at.                *)
(***************************************************************************)
EXTENDS Naturals

CHAT                == 0       \* a message relayed over UDP has no type
REGISTER_REQUEST    == 1
REGISTER_SUCC       == 2
REGISTER_FAIL       == 3
ROOM_LIST_REQUEST   == 4
ROOM_LIST_SUCC      == 5
ROOM_LIST_FAIL      == 6
MEMBER_LIST_REQUEST == 7
MEMBER_LIST_SUCC    == 8
MEMBER_LIST_FAIL    == 9
SWITCH_ROOM_REQUEST == 10
SWITCH_ROOM_SUCC    == 11
SWITCH_ROOM_FAIL    == 12
CREATE_ROOM_REQUEST == 13
CREATE_ROOM_SUCC    == 14
CREATE_ROOM_FAIL    == 15
MEMBER_KEEP_ALIVE   == 16
QUIT_REQUEST        == 17

\* The types for which the server looks up the id of the sender: the range is all
\* it tests, so the types of its own answers are among them.
MemberRequests == ROOM_LIST_REQUEST .. QUIT_REQUEST

\* id: the member addressed, or the sender of a relayed message; 0 if none.
\* data: the rooms, names or ids the message lists or is relayed to.
Reply(type, id, data) == [type |-> type, id |-> id, data |-> data]

NoReply == Reply(CHAT, 0, {})
=============================================================================
