--------------------------- MODULE MCInstanceLock ---------------------------
(***************************************************************************)
(* InstanceLock for TLC.  Processes and directories are interchangeable;   *)
(* there are inodes for a new file whatever the processes have open.       *)
(***************************************************************************)
EXTENDS InstanceLock, TLC
Symmetry == Permutations(Procs) \cup Permutations(Dirs)
=============================================================================
