---------------------------- MODULE MCZoomControl ----------------------------
(***************************************************************************)
(* ZoomControl for TLC: both references, two positions between them and    *)
(* one beyond the range.                                                   *)
(***************************************************************************)
EXTENDS ZoomControl
AllPositions == 0..MaxByte
=============================================================================
