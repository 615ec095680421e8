--------------------------- MODULE MCControlSessions ---------------------------
(* Instances of ControlSessions for TLC: clients are interchangeable. *)
EXTENDS ControlSessions, TLC

Symmetry == Permutations(Clients)
=============================================================================
