---------------------------- MODULE MCAudioWrite ----------------------------
(* AudioWrite for TLC: short commands, every way to split them.            *)
EXTENDS AudioWrite
=============================================================================
