------------------------ MODULE MCCommandInterpreter ------------------------
(***************************************************************************)
(* CommandInterpreter for TLC: all commands in any order, with all         *)
(* sequences taught, or with one of the beamer's or the switch's missing.  *)
(***************************************************************************)
EXTENDS CommandInterpreter
AllSeqs == Sequences0
MCTaught == {AllSeqs, AllSeqs \ {5}, AllSeqs \ {0}}
MCAllTaught == {AllSeqs}
=============================================================================
