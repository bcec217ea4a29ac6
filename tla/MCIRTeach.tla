------------------------------ MODULE MCIRTeach ------------------------------
(***************************************************************************)
(* IRTeach for TLC: frames that leave slots empty, that fill all but one,  *)
(* that fill all of them, and that do not fit.                             *)
(***************************************************************************)
EXTENDS IRTeach
MCFrames == {1, 2, 4, 5, 6, 7}
=============================================================================
