-------------------------- MODULE MCPositionControl --------------------------
(***************************************************************************)
(* PositionControl for TLC: every position within the mechanical ends may  *)
(* have been taught; five rounds are enough for the longest move, a round  *)
(* in which the zoom is late and one that is lost to a mixed reading.      *)
(***************************************************************************)
EXTENDS PositionControl
AnyTarget == [Axes -> Angles]
=============================================================================
