--------------------------- MODULE MCChatRefinement ---------------------------
(* Instances of ChatRefinement for TLC: the interchangeable values. *)
EXTENDS ChatRefinement, TLC

Symmetry ==
  Permutations(Members) \cup Permutations(Rooms \ Zeroed) \cup Permutations(Zeroed)
  \cup Permutations(Ids) \cup Permutations(Names)
  \cup Permutations(RoomNames \ (LongNames \cup FullNames))

\* What tells states apart: no step depends on what was sent before it, only
\* properties of the step that sends it do.
AllButReply ==
  <<pc, cursorVars, memberVars, quiet_flag, memListVars, placeVars, roomVars, empty_flag>>
=============================================================================
