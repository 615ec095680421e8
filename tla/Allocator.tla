------------------------------- MODULE Allocator -------------------------------
(***************************************************************************)
(* What an allocator of A2 promises the program (mm_malloc and mm_free): the  *)
(* bytes handed out lie in its memory and are the program's own until it      *)
(* frees them.  It is checked as a property of the modules that implement it. *)
(***************************************************************************)
EXTENDS Integers

CONSTANTS
  Segment,          \* addresses of the memory the allocator manages
  Requests          \* lengths the program asks for

VARIABLE live       \* blocks the program holds: address, length asked for

Overlap(x, y) == x.at < y.at + y.len /\ y.at < x.at + x.len

\* mm_malloc gives x, at any free place; or NULL, which changes nothing.
Malloc(x) ==
  /\ x.len \in Requests
  /\ x.at \in Segment /\ x.at + x.len - 1 \in Segment
  /\ \A y \in live : ~ Overlap(x, y)
  /\ live' = live \cup {x}

Free(x) == live' = live \ {x}

Init == live = {}

Next == (\E x \in live' : Malloc(x)) \/ (\E x \in live : Free(x))

Spec == Init /\ [][Next]_live
=============================================================================
