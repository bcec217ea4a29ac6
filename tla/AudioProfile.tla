---------------------------- MODULE AudioProfile ----------------------------
(***************************************************************************)
(* AC_Profile of AudioControl.c: drive an audio mixer to a stored profile  *)
(* over a serial line, read it back, and accept the profile only when the  *)
(* read-back equals the request.                                           *)
(*                                                                         *)
(* The program and the mixer share two FIFO byte streams.  Commands travel *)
(* in cmds, answers wait in rx (the kernel's input buffer).  The line may  *)
(* lose a command or garble an answer (counted in lost), and it may delay  *)
(* either by any amount: a delay is the mixer not having served cmds yet.  *)
(* A read given up while its answer is still on the way makes late TRUE.   *)
(***************************************************************************)
EXTENDS Integers, Sequences

CONSTANTS
    NumChannels,   \* mixer channels, 4 in the code
    MaxVolume,     \* loudest volume, 63 in the code
    NumProfiles,   \* rows of audioProfiles, 10 in the code
    MaxLost        \* bound on lost or garbled messages of one run

ASSUME ChannelsAssumption == NumChannels \in Nat \ {0}
ASSUME VolumeAssumption   == MaxVolume \in Nat \ {0}
ASSUME ProfilesAssumption == NumProfiles \in Nat \ {0}
ASSUME LostAssumption     == MaxLost \in Nat

AC_SUCCESS               == 0
AC_COM_FAILED            == 31
AC_TX_FAILED             == 32
AC_RX_FAILED             == 33
AC_OUT_OF_RANGE          == 37
AC_RX_TIMEOUT            == 38
AC_INVALID_RESPONSE      == 39
AC_PROFILE_VERIFY_FAILED == 40

Codes == {AC_SUCCESS, AC_COM_FAILED, AC_TX_FAILED, AC_RX_FAILED, AC_OUT_OF_RANGE,
          AC_RX_TIMEOUT, AC_INVALID_RESPONSE, AC_PROFILE_VERIFY_FAILED}

\* Definitions named X_y, here and in the other modules, are faulty variants of
\* the definition X that the properties are tried on.
AC_PROFILE_MAX_ATTEMPTS_one == 1

AC_VOLUME_MAX_ATTEMPTS  == 2
AC_PROFILE_MAX_ATTEMPTS == 2

Channels == 1..NumChannels
Volumes  == 0..MaxVolume
Profile  == [Channels -> Volumes]

\* What travels on the line.  A garbled answer belongs to no channel.
Get(c)    == [op |-> "get", ch |-> c, vol |-> 0]
Set(c, v) == [op |-> "set", ch |-> c, vol |-> v]
Commands  == [op : {"get", "set"}, ch : Channels, vol : Volumes]
Answers   == [ch : 0..NumChannels, vol : Volumes]
Garbled   == [ch |-> 0, vol |-> 0]

VARIABLES
    pc,                  \* where AC_Profile is
    index,               \* its argument
    stored,              \* audioProfiles[index], bytes that may be implausible
    phase,               \* READ_BEFORE or READ_AFTER of the current attempt
    channel,             \* channel being read, or next one of the fade round
    try,                 \* attempt of AC_GetVolumeChannel
    attempt,             \* attempt of AC_Profile
    volumeRequest,
    volumeState,
    volumeSteps,
    faded,               \* profileFade of the current round of AC_Control
    activeAudioProfile,
    result,
    cmds,                \* commands on their way to the mixer
    rx,                  \* answers in the input buffer
    mixer,               \* volume the mixer really has on every channel
    lost,                \* messages the line lost or garbled so far
    late                 \* some wait was given up although nothing was lost

request == <<index, stored>>
control == <<pc, phase, channel, try, attempt, result>>
volumes == <<volumeRequest, volumeState, volumeSteps, faded, activeAudioProfile>>
line    == <<cmds, rx, mixer, lost>>
vars    == <<request, control, volumes, line, late>>

-----------------------------------------------------------------------------
(* The pure parts: plausibility, parsing, matching, deciding.              *)

\* AC_Request replaces a stored byte above 63 by silence.
Plausible_unchecked(v) == v
Plausible(v) == IF v > MaxVolume THEN 0 ELSE v
RequestedProfile == [c \in Channels |-> Plausible(stored[c])]

\* AC_ParseVolumeResponse: one whole answer, of the channel that was asked.
\* An answer has nine bytes and the buffer ten, so two of them never pass for one.
Parses_anyChannel(input, c) == Len(input) = 1 /\ Head(input).ch # 0
Parses(input, c) == Len(input) = 1 /\ Head(input).ch = c

\* AC_ProfileValuesMatch compares all channels.
Matches_butLast(wanted, actual) ==
    \A c \in 1..(NumChannels - 1) : wanted[c] = actual[c]
Matches(wanted, actual) == \A c \in Channels : wanted[c] = actual[c]

\* AC_GetProfileDecision after two successful reads.
ProfileDecision(matched, n) ==
    CASE matched                                   -> "success"
      [] ~matched /\ n < AC_PROFILE_MAX_ATTEMPTS   -> "retry"
      [] ~matched /\ n >= AC_PROFILE_MAX_ATTEMPTS  -> "fail"

\* One volume step of AC_Control, and the request it leaves behind: the branch
\* that gives up on a boundary adopts the volume as the new request.
Falls(v, goal) == v > goal /\ v > 0
Rises(v, goal) == v < goal /\ v < MaxVolume
StepToward_jump(v, goal) == goal
StepToward(v, goal) ==
    CASE Falls(v, goal) -> v - 1
      [] Rises(v, goal) -> v + 1
      [] OTHER          -> v
GoalAfter(v, goal) == IF Falls(v, goal) \/ Rises(v, goal) THEN goal ELSE v

-----------------------------------------------------------------------------
Init ==
    /\ pc = "start"
    /\ index \in 0..NumProfiles
    /\ stored \in [Channels -> 0..(MaxVolume + 1)]
    /\ phase = "before"
    /\ channel = 1 /\ try = 1 /\ attempt = 1
    /\ volumeRequest = [c \in Channels |-> 0]
    /\ volumeState = [c \in Channels |-> 0]
    /\ volumeSteps = [c \in Channels |-> 0]
    /\ faded = FALSE
    /\ activeAudioProfile \in 0..(NumProfiles - 1)
    /\ result = AC_SUCCESS
    /\ cmds = <<>> /\ rx = <<>>
    /\ mixer \in Profile
    /\ lost = 0 /\ late = FALSE

\* Every exit of AC_Profile goes through profile_done, which closes the port.
Finish(code) ==
    /\ pc' = "done"
    /\ result' = code
    /\ UNCHANGED <<phase, channel, try, attempt>>

\* AC_Request refuses an unknown profile, before the port is looked at.
RefuseIndex ==
    /\ pc = "start" /\ index >= NumProfiles
    /\ Finish(AC_OUT_OF_RANGE)
    /\ UNCHANGED <<request, volumes, line, late>>

\* The port could not be opened or locked; the request is already taken over.
PortUnavailable ==
    /\ pc = "start" /\ index < NumProfiles
    /\ volumeRequest' = RequestedProfile
    /\ Finish(AC_COM_FAILED)
    /\ UNCHANGED <<request, volumeState, volumeSteps, faded, activeAudioProfile,
                   line, late>>

\* A known profile on an open port.
BeginProfile ==
    /\ pc = "start" /\ index < NumProfiles
    /\ volumeRequest' = RequestedProfile
    /\ pc' = "query"
    /\ UNCHANGED <<request, phase, channel, try, attempt, result, volumeState,
                   volumeSteps, faded, activeAudioProfile, line, late>>

-----------------------------------------------------------------------------
(* AC_GetVolume and AC_GetVolumeChannel                                    *)

\* Each attempt first drops what is in the input buffer, then asks.
Flushed_notAtAll(input) == input
Flushed(input) == <<>>

SendQuery ==
    /\ pc = "query"
    /\ rx' = Flushed(rx)
    /\ cmds' = Append(cmds, Get(channel))
    /\ pc' = "await"
    /\ UNCHANGED <<request, phase, channel, try, attempt, result, volumes,
                   mixer, lost, late>>

\* tcflush fails, or write fails after the flush: no retry for either.
QueryFails ==
    /\ pc = "query"
    /\ \/ Finish(AC_RX_FAILED) /\ UNCHANGED rx
       \/ Finish(AC_TX_FAILED) /\ rx' = Flushed(rx)
    /\ UNCHANGED <<request, volumes, cmds, mixer, lost, late>>

\* What follows the last channel of a read: the fade starts from what was
\* read before it, the comparison uses what was read after it.
AfterLastChannel ==
    \/ /\ phase = "before"
       /\ pc' = "control"
       /\ volumeSteps' = volumeState'
       /\ faded' = FALSE
    \/ /\ phase = "after"
       /\ pc' = "verify"
       /\ UNCHANGED <<volumeSteps, faded>>

ReceiveVolume ==
    /\ pc = "await" /\ Parses(rx, channel)
    /\ volumeState' = [volumeState EXCEPT ![channel] = Head(rx).vol]
    /\ rx' = <<>>
    /\ try' = 1
    /\ \/ /\ channel < NumChannels
          /\ channel' = channel + 1
          /\ pc' = "query"
          /\ UNCHANGED <<volumeSteps, faded>>
       \/ /\ channel = NumChannels
          /\ channel' = 1
          /\ AfterLastChannel
    /\ UNCHANGED <<request, phase, attempt, result, volumeRequest,
                   activeAudioProfile, cmds, mixer, lost, late>>

\* A failed attempt is repeated while the limit allows it; then its code is
\* the result of the whole profile.
RetryOrFinish_forever(code) ==
    /\ pc' = "query"
    /\ UNCHANGED <<phase, channel, try, attempt, result>>
RetryOrFinish(code) ==
    \/ /\ try < AC_VOLUME_MAX_ATTEMPTS
       /\ try' = try + 1
       /\ pc' = "query"
       /\ UNCHANGED <<phase, channel, attempt, result>>
    \/ /\ try >= AC_VOLUME_MAX_ATTEMPTS
       /\ Finish(code)

\* Something arrived, but not one answer of the channel asked for.
RejectResponse ==
    /\ pc = "await" /\ rx # <<>> /\ ~Parses(rx, channel)
    /\ RetryOrFinish(AC_INVALID_RESPONSE)
    /\ late' = (late \/ cmds # <<>>)
    /\ UNCHANGED <<request, volumes, line>>

\* A second without a byte.  If the question is still on its way to the mixer
\* nothing was lost, and its answer will come after all.
ReadTimeout ==
    /\ pc = "await" /\ rx = <<>>
    /\ RetryOrFinish(AC_RX_TIMEOUT)
    /\ late' = (late \/ cmds # <<>>)
    /\ UNCHANGED <<request, volumes, line>>

\* read(2) fails: reported at once, without a retry.
ReadError ==
    /\ pc = "await"
    /\ Finish(AC_RX_FAILED)
    /\ UNCHANGED <<request, volumes, line, late>>

-----------------------------------------------------------------------------
(* AC_Control: rounds over the channels, one step per channel and round    *)

Differing == {c \in channel..NumChannels : volumeSteps[c] # volumeRequest[c]}

FadeStep ==
    /\ pc = "control"
    /\ \E c \in Differing :
          /\ \A d \in Differing : c <= d
          /\ LET v == StepToward(volumeSteps[c], volumeRequest[c])
             IN  /\ volumeSteps' = [volumeSteps EXCEPT ![c] = v]
                 /\ \/ /\ cmds' = Append(cmds, Set(c, v))
                       /\ channel' = c + 1
                       /\ UNCHANGED <<pc, phase, try, attempt, result>>
                    \/ /\ Finish(AC_TX_FAILED)
                       /\ UNCHANGED cmds
          /\ volumeRequest' = [volumeRequest EXCEPT
                ![c] = GoalAfter(volumeSteps[c], volumeRequest[c])]
    /\ faded' = TRUE
    /\ UNCHANGED <<request, volumeState, activeAudioProfile, rx, mixer, lost, late>>

\* The end of a round: another one if this one stepped, else the settled
\* mixer is read again.
EndRound ==
    /\ pc = "control" /\ Differing = {}
    /\ channel' = 1
    /\ faded' = FALSE
    /\ \/ faded /\ UNCHANGED <<pc, phase>>
       \/ ~faded /\ pc' = "query" /\ phase' = "after"
    /\ UNCHANGED <<request, try, attempt, result, volumeRequest, volumeState,
                   volumeSteps, activeAudioProfile, line, late>>

\* Twenty seconds are over at the end of a round.
FadeTimeout ==
    /\ pc = "control" /\ Differing = {}
    /\ Finish(AC_RX_TIMEOUT)
    /\ late' = TRUE
    /\ UNCHANGED <<request, volumes, line>>

-----------------------------------------------------------------------------
(* The decision                                                            *)

Accept ==
    /\ activeAudioProfile' = index
    /\ Finish(AC_SUCCESS)

Retry ==
    /\ pc' = "query"
    /\ phase' = "before"
    /\ attempt' = attempt + 1
    /\ UNCHANGED <<channel, try, result, activeAudioProfile>>

Verify ==
    /\ pc = "verify"
    /\ LET decision == ProfileDecision(Matches(RequestedProfile, volumeState), attempt)
       IN  \/ decision = "success" /\ Accept
           \/ decision = "retry"   /\ Retry
           \/ /\ decision = "fail"
              /\ Finish(AC_PROFILE_VERIFY_FAILED)
              /\ UNCHANGED activeAudioProfile
    /\ UNCHANGED <<request, volumeRequest, volumeState, volumeSteps, faded, line, late>>

-----------------------------------------------------------------------------
(* The mixer and the line                                                  *)

\* Bytes for a closed port are dropped.
Deliver(answer) == rx' = IF pc = "done" THEN rx ELSE Append(rx, answer)

MixerAnswers ==
    /\ cmds # <<>> /\ Head(cmds).op = "get"
    /\ Deliver([ch |-> Head(cmds).ch, vol |-> mixer[Head(cmds).ch]])
    /\ cmds' = Tail(cmds)
    /\ UNCHANGED <<request, control, volumes, mixer, lost, late>>

MixerSets ==
    /\ cmds # <<>> /\ Head(cmds).op = "set"
    /\ mixer' = [mixer EXCEPT ![Head(cmds).ch] = Head(cmds).vol]
    /\ cmds' = Tail(cmds)
    /\ UNCHANGED <<request, control, volumes, rx, lost, late>>

LoseCommand ==
    /\ cmds # <<>> /\ lost < MaxLost
    /\ cmds' = Tail(cmds)
    /\ lost' = lost + 1
    /\ UNCHANGED <<request, control, volumes, rx, mixer, late>>

GarbleAnswer ==
    /\ cmds # <<>> /\ Head(cmds).op = "get" /\ lost < MaxLost
    /\ Deliver(Garbled)
    /\ cmds' = Tail(cmds)
    /\ lost' = lost + 1
    /\ UNCHANGED <<request, control, volumes, mixer, late>>

-----------------------------------------------------------------------------
Program ==
    \/ RefuseIndex \/ PortUnavailable \/ BeginProfile
    \/ SendQuery \/ QueryFails
    \/ ReceiveVolume \/ RejectResponse \/ ReadTimeout \/ ReadError
    \/ FadeStep \/ EndRound \/ FadeTimeout
    \/ Verify

Environment == MixerAnswers \/ MixerSets \/ LoseCommand \/ GarbleAnswer

Next == Program \/ Environment

Spec == Init /\ [][Next]_vars

\* Every wait of the program has a timeout, so it always has a step to take
\* and nothing keeps it from taking it.  Nothing is asked of the mixer.
FairSpec == Spec /\ WF_vars(Program)

-----------------------------------------------------------------------------
(* Properties                                                              *)

TypeOK ==
    /\ pc \in {"start", "query", "await", "control", "verify", "done"}
    /\ index \in 0..NumProfiles
    /\ pc \notin {"start", "done"} => index < NumProfiles
    /\ stored \in [Channels -> 0..(MaxVolume + 1)]
    /\ phase \in {"before", "after"}
    /\ pc = "start" => channel = 1
    /\ channel \in 1..(NumChannels + 1)
    /\ pc \in {"start", "query", "await", "verify"} => channel \in Channels
    /\ try \in 1..AC_VOLUME_MAX_ATTEMPTS
    /\ attempt \in 1..AC_PROFILE_MAX_ATTEMPTS
    /\ volumeRequest \in Profile
    /\ volumeState \in Profile
    /\ volumeSteps \in Profile
    /\ faded \in BOOLEAN
    /\ activeAudioProfile \in 0..(NumProfiles - 1)
    /\ result \in Codes
    /\ cmds \in Seq(Commands)
    /\ rx \in Seq(Answers)
    /\ mixer \in Profile
    /\ lost \in 0..MaxLost
    /\ late \in BOOLEAN

\* When AC_Profile reports success the mixer has the requested volumes, however
\* late answers arrive and whatever the line lost: the read-back that accepts a
\* profile is not a leftover of an earlier question.
VerifiedMeansSet ==
    pc = "done" /\ result = AC_SUCCESS => mixer = RequestedProfile

\* The same for a run in which no wait was given up too early, and what makes
\* it true then: a question is the last command on the line and its answer the
\* only one, so a volume that was read is the mixer's and nothing is left on
\* the line that would change it.
VerifiedOnTime == ~late => VerifiedMeansSet

NoGetUnlessAwaited ==
    pc # "done" => \A k \in 1..Len(cmds) : cmds[k].op = "get" =>
        pc = "await" /\ rx = <<>> /\ k = Len(cmds) /\ cmds[k].ch = channel

AnswerIsCurrent ==
    pc = "await" /\ rx # <<>> =>
        /\ cmds = <<>> /\ Len(rx) = 1
        /\ rx[1].ch # 0 => rx[1].ch = channel /\ rx[1].vol = mixer[channel]

ReadIsCurrent ==
    pc \in {"query", "await"} /\ channel > 1 =>
        /\ \A k \in 1..Len(cmds) : cmds[k].op = "get"
        /\ \A d \in 1..(channel - 1) : volumeState[d] = mixer[d]

SettledWhenCompared == pc = "verify" => cmds = <<>> /\ volumeState = mixer

SettledWhenVerified ==
    pc = "done" /\ result = AC_SUCCESS => cmds = <<>> /\ mixer = RequestedProfile

OnTimeInv ==
    ~late => /\ NoGetUnlessAwaited
             /\ AnswerIsCurrent
             /\ ReadIsCurrent
             /\ SettledWhenCompared
             /\ SettledWhenVerified

\* One lost command or garbled answer, on a line that is otherwise punctual,
\* is repaired by the retries of AC_GetVolumeChannel and AC_Profile: the only
\* failures left are those of the device and of the argument.
HardErrors == {AC_COM_FAILED, AC_TX_FAILED, AC_RX_FAILED, AC_OUT_OF_RANGE}
LossRepaired ==
    pc = "done" /\ ~late /\ lost <= 1 => result \in HardErrors \cup {AC_SUCCESS}

\* AC_Control fades: on a punctual line a volume only moves toward its request,
\* and never by more than one step plus one for each command that was lost.
Between(low, x, high) == low <= x /\ x <= high
Distance(x, y) == IF x < y THEN y - x ELSE x - y
Toward(from, to, goal) == Between(from, to, goal) \/ Between(goal, to, from)
GentleFade ==
    [][\A c \in Channels : ~late /\ mixer'[c] # mixer[c] =>
          /\ Toward(mixer[c], mixer'[c], RequestedProfile[c])
          /\ Distance(mixer[c], mixer'[c]) <= 1 + lost]_vars

\* AC_Profile always returns.
Termination == <>(pc = "done")

Promise == INSTANCE ProfilePromise WITH
    Volume  <- Volumes,
    wanted  <- RequestedProfile,
    profile <- index,
    active  <- activeAudioProfile,
    outcome <- CASE pc # "done"                          -> "working"
                 [] pc = "done" /\ result = AC_SUCCESS   -> "verified"
                 [] pc = "done" /\ result # AC_SUCCESS   -> "refused"

\* AC_Profile implements its promise.
PromiseKept == Promise!Spec
=============================================================================
