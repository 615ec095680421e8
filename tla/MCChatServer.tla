----------------------------- MODULE MCChatServer -----------------------------
(* Instances of ChatServer for TLC: the interchangeable values. *)
EXTENDS ChatServer, TLC

Symmetry ==
  Permutations(Members) \cup Permutations(Rooms \ Zeroed) \cup Permutations(Zeroed)
  \cup Permutations(Ids) \cup Permutations(Names)
  \cup Permutations(RoomNames \ (LongNames \cup FullNames))
=============================================================================
