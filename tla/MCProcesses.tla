----------------------------- MODULE MCProcesses -----------------------------
(***************************************************************************)
(* Processes for TLC.  Processes and directories are interchangeable.      *)
(***************************************************************************)
EXTENDS Processes, TLC
Symmetry == Permutations(Procs) \cup Permutations(Dirs)
=============================================================================
