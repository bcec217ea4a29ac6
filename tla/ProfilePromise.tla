--------------------------- MODULE ProfilePromise ---------------------------
(***************************************************************************)
(* What a caller of AC_Profile may rely on, with no word about commands,   *)
(* answers, retries or timeouts: the mixer is changed one channel at a     *)
(* time while the call works; the profile becomes the active one in the    *)
(* instant the call reports it verified, and at that instant and from then *)
(* on the mixer has its volumes; a refused call leaves the active profile  *)
(* alone, while the mixer may still be on its way.                         *)
(***************************************************************************)
CONSTANTS Channels, Volume

VARIABLES wanted, profile, mixer, active, outcome

vars == <<wanted, profile, mixer, active, outcome>>

Init ==
    /\ wanted \in [Channels -> Volume]
    /\ mixer \in [Channels -> Volume]
    /\ outcome = "working"

Move ==
    /\ outcome # "verified"
    /\ \E c \in Channels, v \in Volume : mixer' = [mixer EXCEPT ![c] = v]
    /\ UNCHANGED <<wanted, profile, active, outcome>>

Verify ==
    /\ outcome = "working"
    /\ mixer = wanted
    /\ active' = profile
    /\ outcome' = "verified"
    /\ UNCHANGED <<wanted, profile, mixer>>

Refuse ==
    /\ outcome = "working"
    /\ outcome' = "refused"
    /\ UNCHANGED <<wanted, profile, mixer, active>>

Next == Move \/ Verify \/ Refuse

Spec == Init /\ [][Next]_vars
=============================================================================
