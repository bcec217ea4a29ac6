--------------------------- MODULE MCAudioProfile ---------------------------
(***************************************************************************)
(* AudioProfile for TLC.  AudioProfile.cfg: two channels, so that the      *)
(* answer of the wrong one can arrive, and two profiles, so that a wrong   *)
(* one can become active.  AudioFade.cfg: one channel with a volume range  *)
(* that is long compared to the jumps two lost commands allow.             *)
(***************************************************************************)
EXTENDS AudioProfile
=============================================================================
