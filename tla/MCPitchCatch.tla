---------------------------- MODULE MCPitchCatch ----------------------------
(***************************************************************************)
(* Instance of PitchCatch for TLC: two pitches, so one can wait in the     *)
(* backlog for the child of the other.                                     *)
(***************************************************************************)
EXTENDS PitchCatch

CONSTANTS p1, p2
=============================================================================
