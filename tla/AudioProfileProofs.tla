------------------------- MODULE AudioProfileProofs -------------------------
(***************************************************************************)
(* Proofs about AudioProfile, for any number of channels, volumes and      *)
(* profiles and any number of lost messages: its types; what holds as long *)
(* as no wait is given up too early (OnTimeInv, and with it how a fade     *)
(* goes on, FadeInv, and what a lost message can do, LossInv); what holds  *)
(* however late answers come (FreshInv), and with it the step simulation   *)
(* of ProfilePromise.                                                      *)
(***************************************************************************)
EXTENDS AudioProfile, TLAPS

LEMMA RequestedType == TypeOK => RequestedProfile \in Profile
  BY VolumeAssumption DEF TypeOK, RequestedProfile, Plausible, Profile, Volumes

\* A volume step stays in the range, whatever was requested.
LEMMA StepType ==
  ASSUME NEW v \in Volumes, NEW goal \in Volumes
  PROVE  StepToward(v, goal) \in Volumes /\ GoalAfter(v, goal) \in Volumes
  BY VolumeAssumption DEF StepToward, GoalAfter, Falls, Rises, Volumes

LEMMA InitType == Init => TypeOK
<1> SUFFICES ASSUME Init PROVE TypeOK
  OBVIOUS
<1> USE ChannelsAssumption, VolumeAssumption, ProfilesAssumption, LostAssumption
<1>1. faded \in BOOLEAN /\ late \in BOOLEAN
  BY Zenon DEF Init
<1>2. cmds \in Seq(Commands) /\ rx \in Seq(Answers)
  BY DEF Init
<1>3. [c \in Channels |-> 0] \in Profile
  BY DEF Profile, Volumes
<1>4. result \in Codes
  BY DEF Init, Codes
<1>5. lost \in 0..MaxLost
  BY DEF Init
<1>6. try \in 1..AC_VOLUME_MAX_ATTEMPTS /\ attempt \in 1..AC_PROFILE_MAX_ATTEMPTS
  BY DEF Init, AC_VOLUME_MAX_ATTEMPTS, AC_PROFILE_MAX_ATTEMPTS
<1>7. channel \in Channels /\ channel \in 1..(NumChannels + 1)
  BY DEF Init, Channels
<1>8. QED
  BY <1>1, <1>2, <1>3, <1>4, <1>5, <1>6, <1>7 DEF Init, TypeOK

-----------------------------------------------------------------------------
(* Type correctness, one lemma per group of actions.                       *)

LEMMA FinishType ==
  ASSUME TypeOK, NEW code \in Codes, Finish(code), UNCHANGED <<request, volumes, line>>,
         late' \in BOOLEAN
  PROVE  TypeOK'
  BY DEF TypeOK, Finish, request, volumes, line

LEMMA StartType ==
  ASSUME TypeOK, RefuseIndex \/ PortUnavailable \/ BeginProfile
  PROVE  TypeOK'
<1>1. CASE RefuseIndex
  BY <1>1, FinishType DEF RefuseIndex, Codes, TypeOK
<1>2. CASE PortUnavailable
  BY <1>2, RequestedType DEF PortUnavailable, Finish, Codes, TypeOK, request, line
<1>3. CASE BeginProfile
  BY <1>3, RequestedType DEF BeginProfile, TypeOK, request, line
<1>4. QED
  BY <1>1, <1>2, <1>3

LEMMA QueryType ==
  ASSUME TypeOK, SendQuery \/ QueryFails \/ ReceiveVolume
  PROVE  TypeOK'
<1>1. CASE SendQuery
  <2>1. Get(channel) \in Commands
    BY <1>1, VolumeAssumption DEF SendQuery, TypeOK, Get, Commands, Volumes
  <2>2. cmds' \in Seq(Commands) /\ rx' \in Seq(Answers)
    BY <1>1, <2>1 DEF SendQuery, TypeOK, Flushed
  <2>3. QED
    BY <1>1, <2>2 DEF SendQuery, TypeOK, request, volumes
<1>2. CASE QueryFails
  <2>1. rx' \in Seq(Answers)
    <3>1. rx' = rx \/ rx' = <<>>
      BY <1>2, Zenon DEF QueryFails, Flushed
    <3>2. rx \in Seq(Answers) /\ <<>> \in Seq(Answers)
      BY DEF TypeOK
    <3>3. QED
      BY <3>1, <3>2
  <2>2. QED
    BY <1>2, <2>1 DEF QueryFails, Finish, TypeOK, request, volumes, Codes
<1>3. CASE ReceiveVolume
  <2>1. Head(rx).vol \in Volumes
    <3>1. rx \in Seq(Answers) /\ Len(rx) = 1
      BY <1>3 DEF ReceiveVolume, Parses, TypeOK
    <3>2. Head(rx) \in Answers
      BY <3>1
    <3>3. QED
      BY <3>2 DEF Answers
  <2>2. volumeState' \in Profile
    BY <1>3, <2>1 DEF ReceiveVolume, TypeOK, Profile
  <2>3. volumeSteps' \in Profile /\ faded' \in BOOLEAN
    BY <1>3, <2>2, Zenon DEF ReceiveVolume, AfterLastChannel, TypeOK
  <2>4. /\ channel' \in Channels
        /\ channel' \in 1..(NumChannels + 1)
        /\ pc' \in {"query", "control", "verify"}
    <3>1. \/ channel < NumChannels /\ channel' = channel + 1 /\ pc' = "query"
          \/ channel' = 1 /\ pc' \in {"control", "verify"}
      BY <1>3 DEF ReceiveVolume, AfterLastChannel
    <3>2. channel \in 1..(NumChannels + 1)
      BY DEF TypeOK
    <3>3. QED
      BY <3>1, <3>2, ChannelsAssumption DEF Channels
  <2>5. try' \in 1..AC_VOLUME_MAX_ATTEMPTS
    BY <1>3 DEF ReceiveVolume, AC_VOLUME_MAX_ATTEMPTS
  <2>6. rx' \in Seq(Answers)
    BY <1>3 DEF ReceiveVolume
  <2>7. QED
    BY <1>3, <2>2, <2>3, <2>4, <2>5, <2>6 DEF ReceiveVolume, TypeOK, request
<1>4. QED
  BY <1>1, <1>2, <1>3

LEMMA RetryType ==
  ASSUME TypeOK, NEW code \in Codes, pc = "await", RetryOrFinish(code),
         UNCHANGED <<request, volumes, line>>, late' \in BOOLEAN
  PROVE  TypeOK'
<1>1. CASE Finish(code)
  BY <1>1, FinishType
<1>2. CASE ~Finish(code)
  <2>1. try' \in 1..AC_VOLUME_MAX_ATTEMPTS
    BY <1>2 DEF RetryOrFinish, TypeOK, AC_VOLUME_MAX_ATTEMPTS
  <2>2. QED
    BY <1>2, <2>1 DEF RetryOrFinish, TypeOK, request, volumes, line
<1>3. QED
  BY <1>1, <1>2

LEMMA AwaitType ==
  ASSUME TypeOK, RejectResponse \/ ReadTimeout \/ ReadError
  PROVE  TypeOK'
<1>1. CASE RejectResponse
  <2>1. late' \in BOOLEAN
    BY <1>1, Zenon DEF RejectResponse, TypeOK
  <2>2. QED
    BY <1>1, <2>1, RetryType DEF RejectResponse, Codes
<1>2. CASE ReadTimeout
  <2>1. late' \in BOOLEAN
    BY <1>2, Zenon DEF ReadTimeout, TypeOK
  <2>2. QED
    BY <1>2, <2>1, RetryType DEF ReadTimeout, Codes
<1>3. CASE ReadError
  BY <1>3, FinishType DEF ReadError, Codes, TypeOK
<1>4. QED
  BY <1>1, <1>2, <1>3

LEMMA ControlType ==
  ASSUME TypeOK, FadeStep \/ EndRound \/ FadeTimeout
  PROVE  TypeOK'
<1>1. CASE FadeStep
  <2>1. PICK c \in Differing :
          LET v == StepToward(volumeSteps[c], volumeRequest[c])
          IN  /\ volumeSteps' = [volumeSteps EXCEPT ![c] = v]
              /\ \/ /\ cmds' = Append(cmds, Set(c, v))
                    /\ channel' = c + 1
                    /\ UNCHANGED <<pc, phase, try, attempt, result>>
                 \/ /\ Finish(AC_TX_FAILED)
                    /\ UNCHANGED cmds
              /\ volumeRequest' = [volumeRequest EXCEPT
                    ![c] = GoalAfter(volumeSteps[c], volumeRequest[c])]
    BY <1>1 DEF FadeStep
  <2> DEFINE v == StepToward(volumeSteps[c], volumeRequest[c])
  <2>2. c \in Channels /\ c + 1 \in 1..(NumChannels + 1)
    BY ChannelsAssumption DEF Differing, TypeOK, Channels
  <2>3. v \in Volumes /\ GoalAfter(volumeSteps[c], volumeRequest[c]) \in Volumes
    BY <2>2, StepType DEF TypeOK, Profile
  <2>4. volumeSteps' \in Profile /\ volumeRequest' \in Profile
    BY <2>1, <2>2, <2>3 DEF TypeOK, Profile
  <2>5. Set(c, v) \in Commands
    BY <2>2, <2>3 DEF Set, Commands
  <2> HIDE DEF v
  <2>6. cmds' \in Seq(Commands)
    <3>1. cmds \in Seq(Commands)
      BY DEF TypeOK
    <3>2. cmds' = cmds \/ cmds' = Append(cmds, Set(c, v))
      BY <2>1 DEF v
    <3>3. QED
      BY <2>5, <3>1, <3>2
  <2>7. faded' \in BOOLEAN
    BY <1>1, Zenon DEF FadeStep
  <2>8. /\ channel' \in 1..(NumChannels + 1) /\ pc' \in {"control", "done"}
        /\ result' \in Codes
        /\ UNCHANGED <<phase, try, attempt>>
    BY <1>1, <2>1, <2>2 DEF FadeStep, Finish, TypeOK, Codes
  <2>9. QED
    BY <1>1, <2>4, <2>6, <2>7, <2>8 DEF FadeStep, TypeOK, request
<1>2. CASE EndRound
  <2>1. channel' \in Channels /\ channel' \in 1..(NumChannels + 1)
    BY <1>2, ChannelsAssumption DEF EndRound, Channels
  <2>2. faded' \in BOOLEAN
    BY <1>2, Zenon DEF EndRound
  <2>3. QED
    BY <1>2, <2>1, <2>2 DEF EndRound, TypeOK, request, line
<1>3. CASE FadeTimeout
  <2>1. late' \in BOOLEAN
    BY <1>3, Zenon DEF FadeTimeout
  <2>2. QED
    BY <1>3, <2>1, FinishType DEF FadeTimeout, Codes
<1>4. QED
  BY <1>1, <1>2, <1>3

LEMMA VerifyType == ASSUME TypeOK, Verify PROVE TypeOK'
<1>1. attempt' \in 1..AC_PROFILE_MAX_ATTEMPTS
  BY DEF Verify, Accept, Retry, Finish, ProfileDecision, TypeOK, AC_PROFILE_MAX_ATTEMPTS
<1>2. /\ pc' \in {"query", "done"} /\ channel' = channel
      /\ try' = try /\ phase' \in {"before", "after"} /\ result' \in Codes
  BY DEF Verify, Accept, Retry, Finish, TypeOK, Codes
<1>3. activeAudioProfile' \in 0..(NumProfiles - 1)
  BY ProfilesAssumption DEF Verify, Accept, Retry, TypeOK
<1>4. QED
  BY <1>1, <1>2, <1>3 DEF Verify, TypeOK, request, line

LEMMA EnvironmentType == ASSUME TypeOK, Environment PROVE TypeOK'
<1> USE DEF TypeOK
<1>0. ASSUME cmds # <<>> PROVE Head(cmds) \in Commands /\ Tail(cmds) \in Seq(Commands)
  BY <1>0
<1>1. CASE MixerAnswers
  <2>1. [ch |-> Head(cmds).ch, vol |-> mixer[Head(cmds).ch]] \in Answers
    <3>1. Head(cmds) \in Commands
      BY <1>0, <1>1 DEF MixerAnswers
    <3>2. Head(cmds).ch \in Channels
      BY <3>1 DEF Commands
    <3>3. mixer[Head(cmds).ch] \in Volumes
      BY <3>2 DEF Profile
    <3>4. Head(cmds).ch \in 0..NumChannels
      BY <3>2 DEF Channels
    <3>5. QED
      BY <3>3, <3>4, Zenon DEF Answers
  <2>2. rx' \in Seq(Answers)
    BY <1>1, <2>1 DEF MixerAnswers, Deliver
  <2>3. QED
    BY <1>0, <1>1, <2>2 DEF MixerAnswers, request, control, volumes
<1>2. CASE MixerSets
  <2>1. mixer' \in Profile
    BY <1>0, <1>2 DEF MixerSets, Commands, Profile
  <2>2. QED
    BY <1>0, <1>2, <2>1 DEF MixerSets, request, control, volumes
<1>3. CASE LoseCommand
  BY <1>0, <1>3, LostAssumption DEF LoseCommand, request, control, volumes
<1>4. CASE GarbleAnswer
  <2>1. Garbled \in Answers
    BY ChannelsAssumption, VolumeAssumption DEF Garbled, Answers, Volumes
  <2>2. rx' \in Seq(Answers)
    BY <1>4, <2>1 DEF GarbleAnswer, Deliver
  <2>3. QED
    BY <1>0, <1>4, <2>2, LostAssumption DEF GarbleAnswer, request, control, volumes
<1>5. QED
  BY <1>1, <1>2, <1>3, <1>4 DEF Environment

LEMMA NextType == TypeOK /\ [Next]_vars => TypeOK'
<1> SUFFICES ASSUME TypeOK, [Next]_vars PROVE TypeOK'
  OBVIOUS
<1>1. CASE Program
  BY <1>1, StartType, QueryType, AwaitType, ControlType, VerifyType DEF Program
<1>2. CASE Environment
  BY <1>2, EnvironmentType
<1>3. CASE UNCHANGED vars
  BY <1>3 DEF vars, request, control, volumes, line, TypeOK
<1>4. QED
  BY <1>1, <1>2, <1>3 DEF Next

\* AudioProfile keeps its types: every volume stays in the mixer's range, also
\* when the stored profile is implausible, and the retry counters stay within
\* their limits.
THEOREM TypeCorrect == Spec => []TypeOK
  BY InitType, NextType, PTL DEF Spec

-----------------------------------------------------------------------------
(* On a punctual line a question is the last command and its answer the    *)
(* only one.  Each lemma below shows that a group of actions keeps this.   *)

OnTime ==
  /\ NoGetUnlessAwaited
  /\ AnswerIsCurrent
  /\ ReadIsCurrent
  /\ SettledWhenCompared
  /\ SettledWhenVerified

LEMMA InitOnTime == Init => OnTimeInv
  BY DEF Init, OnTimeInv, NoGetUnlessAwaited, AnswerIsCurrent, ReadIsCurrent,
         SettledWhenCompared, SettledWhenVerified

\* An end that is not a success needs nothing of the line.
LEMMA FinishOnTime ==
  ASSUME NEW code, code # AC_SUCCESS, Finish(code)
  PROVE  OnTime'
  BY DEF Finish, OnTime, NoGetUnlessAwaited, AnswerIsCurrent, ReadIsCurrent,
         SettledWhenCompared, SettledWhenVerified

LEMMA StartOnTime ==
  ASSUME TypeOK, OnTime, RefuseIndex \/ PortUnavailable \/ BeginProfile
  PROVE  OnTime'
<1>1. CASE RefuseIndex
  BY <1>1, FinishOnTime DEF RefuseIndex, AC_OUT_OF_RANGE, AC_SUCCESS
<1>2. CASE PortUnavailable
  BY <1>2, FinishOnTime DEF PortUnavailable, AC_COM_FAILED, AC_SUCCESS
<1>3. CASE BeginProfile
  BY <1>3 DEF TypeOK, BeginProfile, OnTime, NoGetUnlessAwaited, AnswerIsCurrent, ReadIsCurrent,
         SettledWhenCompared, SettledWhenVerified, line
<1>4. QED
  BY <1>1, <1>2, <1>3

LEMMA QueryOnTime ==
  ASSUME TypeOK, OnTime, SendQuery \/ QueryFails
  PROVE  OnTime'
<1>1. CASE SendQuery
  <2> USE <1>1 DEF SendQuery
  <2>1. cmds \in Seq(Commands) /\ Get(channel) \in Commands
    BY VolumeAssumption DEF TypeOK, Get, Commands, Volumes
  <2>2. \A k \in 1..Len(cmds) : cmds[k].op # "get"
    BY DEF OnTime, NoGetUnlessAwaited
  <2>3. /\ Len(cmds') = Len(cmds) + 1
        /\ cmds'[Len(cmds')] = Get(channel)
        /\ \A k \in 1..Len(cmds) : cmds'[k] = cmds[k]
    BY <2>1
  <2>4. NoGetUnlessAwaited'
    BY <2>1, <2>2, <2>3 DEF NoGetUnlessAwaited, Get, Flushed
  <2>5. AnswerIsCurrent'
    BY DEF AnswerIsCurrent, Flushed
  <2>6. ReadIsCurrent'
    BY <2>1, <2>3 DEF OnTime, ReadIsCurrent, Get, volumes
  <2>7. SettledWhenCompared' /\ SettledWhenVerified'
    BY DEF SettledWhenCompared, SettledWhenVerified
  <2>8. QED
    BY <2>4, <2>5, <2>6, <2>7 DEF OnTime
<1>2. CASE QueryFails
  BY <1>2, FinishOnTime DEF QueryFails, AC_RX_FAILED, AC_TX_FAILED, AC_SUCCESS
<1>3. QED
  BY <1>1, <1>2

\* A receive buffer with one answer in it.
LEMMA OneAnswer ==
  ASSUME NEW S, NEW s \in Seq(S), Len(s) = 1 PROVE s # <<>> /\ Head(s) = s[1]
<1>1. s # <<>>
  OBVIOUS
<1>2. Head(s) = s[1]
  BY <1>1
<1>3. QED
  BY <1>1, <1>2

\* A read accepts the only answer, and the mixer's volume with it; the last one
\* leaves an empty line and every volume read.
LEMMA Received ==
  ASSUME TypeOK, OnTime, ReceiveVolume
  PROVE  /\ channel \in Channels /\ rx[1].ch # 0
         /\ cmds = <<>> /\ cmds' = <<>> /\ mixer' = mixer /\ rx' = <<>>
         /\ \A d \in 1..channel : volumeState'[d] = mixer'[d]
         /\ channel = NumChannels => volumeState' = mixer'
<1> USE DEF ReceiveVolume
<1>1. rx # <<>> /\ Head(rx) = rx[1] /\ Head(rx).ch = channel /\ channel \in Channels
  <2>1. rx \in Seq(Answers) /\ Len(rx) = 1 /\ Head(rx).ch = channel
    <3>1. Parses(rx, channel)
      BY Zenon
    <3>2. rx \in Seq(Answers)
      BY DEF TypeOK
    <3>3. QED
      BY <3>1, <3>2, Zenon DEF Parses
  <2>2. channel \in Channels
    BY DEF TypeOK
  <2>3. QED
    BY <2>1, <2>2, OneAnswer, Zenon
<1>2. cmds = <<>> /\ Head(rx).vol = mixer[channel]
  <2>1. AnswerIsCurrent /\ pc = "await"
    BY DEF OnTime
  <2>2. rx[1].ch # 0
    BY <1>1, ChannelsAssumption DEF Channels
  <2>3. QED
    BY <1>1, <2>1, <2>2, Zenon DEF AnswerIsCurrent
<1>3. cmds' = <<>> /\ mixer' = mixer /\ rx' = <<>>
  BY <1>2
<1>4. \A d \in 1..channel : volumeState'[d] = mixer'[d]
  <2>1. \A d \in 1..(channel - 1) : volumeState[d] = mixer[d]
    BY <1>1 DEF OnTime, ReadIsCurrent, Channels
  <2>2. volumeState \in Profile
    BY DEF TypeOK
  <2>3. QED
    BY <1>1, <1>2, <2>1, <2>2 DEF Profile, Channels
<1>5. ASSUME channel = NumChannels PROVE volumeState' = mixer'
  <2>1. volumeState' \in Profile /\ mixer' \in Profile
    BY QueryType DEF TypeOK
  <2>2. \A d \in Channels : volumeState'[d] = mixer'[d]
    BY <1>4, <1>5 DEF Channels
  <2>3. QED
    BY <2>1, <2>2 DEF Profile
<1>6. rx[1].ch # 0
  BY <1>1, ChannelsAssumption DEF Channels
<1>7. QED
  BY <1>1, <1>2, <1>3, <1>4, <1>5, <1>6

LEMMA ReceiveOnTime == ASSUME TypeOK, OnTime, ReceiveVolume PROVE OnTime'
<1> USE DEF ReceiveVolume
<1>1. /\ channel \in Channels /\ cmds' = <<>> /\ mixer' = mixer /\ rx' = <<>>
      /\ \A d \in 1..channel : volumeState'[d] = mixer'[d]
      /\ channel = NumChannels => volumeState' = mixer'
  BY Received
<1>2. CASE channel < NumChannels
  <2>1. channel' = channel + 1 /\ pc' = "query"
    BY <1>1, <1>2, ChannelsAssumption DEF Channels
  <2>2. ReadIsCurrent'
    BY <1>1, <2>1 DEF ReadIsCurrent, Channels
  <2>3. QED
    BY <1>1, <2>1, <2>2 DEF OnTime, NoGetUnlessAwaited, AnswerIsCurrent,
       SettledWhenCompared, SettledWhenVerified
<1>3. CASE channel = NumChannels
  <2>1. pc' \in {"control", "verify"}
    BY <1>3, ChannelsAssumption DEF AfterLastChannel
  <2>2. QED
    BY <1>1, <1>3, <2>1 DEF OnTime, NoGetUnlessAwaited, AnswerIsCurrent, ReadIsCurrent,
       SettledWhenCompared, SettledWhenVerified
<1>4. QED
  BY <1>1, <1>2, <1>3 DEF Channels

\* A wait that is given up leaves nothing on the line, or late becomes TRUE.
LEMMA AwaitOnTime ==
  ASSUME TypeOK, OnTime, RejectResponse \/ ReadTimeout \/ ReadError, ~late'
  PROVE  OnTime'
<1>1. CASE ReadError
  BY <1>1, FinishOnTime DEF ReadError, AC_RX_FAILED, AC_SUCCESS
<1>2. ASSUME NEW code, code # AC_SUCCESS, pc = "await", RetryOrFinish(code), cmds = <<>>,
             UNCHANGED <<volumes, line>>
      PROVE  OnTime'
  <2>1. CASE Finish(code)
    BY <1>2, <2>1, FinishOnTime
  <2>2. CASE ~Finish(code)
    <3>1. pc' = "query" /\ UNCHANGED channel
      BY <1>2, <2>2 DEF RetryOrFinish
    <3>2. cmds' = <<>> /\ mixer' = mixer /\ volumeState' = volumeState
      BY <1>2 DEF volumes, line
    <3>3. QED
      BY <1>2, <3>1, <3>2 DEF OnTime, NoGetUnlessAwaited, AnswerIsCurrent, ReadIsCurrent,
         SettledWhenCompared, SettledWhenVerified
  <2>3. QED
    BY <2>1, <2>2
<1>3. CASE RejectResponse
  <2>1. cmds = <<>>
    BY <1>3, Zenon DEF RejectResponse
  <2>2. AC_INVALID_RESPONSE # AC_SUCCESS
    BY DEF AC_INVALID_RESPONSE, AC_SUCCESS
  <2>3. QED
    BY <1>2, <1>3, <2>1, <2>2 DEF RejectResponse
<1>4. CASE ReadTimeout
  <2>1. cmds = <<>>
    BY <1>4, Zenon DEF ReadTimeout
  <2>2. AC_RX_TIMEOUT # AC_SUCCESS
    BY DEF AC_RX_TIMEOUT, AC_SUCCESS
  <2>3. QED
    BY <1>2, <1>4, <2>1, <2>2 DEF ReadTimeout
<1>5. QED
  BY <1>1, <1>3, <1>4

LEMMA ControlOnTime ==
  ASSUME TypeOK, OnTime, FadeStep \/ EndRound \/ FadeTimeout
  PROVE  OnTime'
<1>1. CASE FadeStep
  <2>1. PICK c \in Differing, v \in Volumes :
          \/ /\ cmds' = Append(cmds, Set(c, v))
             /\ UNCHANGED pc
          \/ Finish(AC_TX_FAILED)
    <3>1. ASSUME NEW c \in Differing
          PROVE  StepToward(volumeSteps[c], volumeRequest[c]) \in Volumes
      BY StepType, ChannelsAssumption DEF Differing, TypeOK, Profile, Channels
    <3>2. QED
      BY <1>1, <3>1 DEF FadeStep
  <2>2. CASE Finish(AC_TX_FAILED)
    BY <2>2, FinishOnTime DEF AC_TX_FAILED, AC_SUCCESS
  <2>3. CASE cmds' = Append(cmds, Set(c, v)) /\ UNCHANGED pc
    <3>1. pc = "control" /\ pc' = "control"
      BY <1>1, <2>3 DEF FadeStep
    <3>2. cmds \in Seq(Commands) /\ \A k \in 1..Len(cmds) : cmds[k].op # "get"
      BY <3>1 DEF TypeOK, OnTime, NoGetUnlessAwaited
    <3>3. \A k \in 1..Len(cmds') : cmds'[k].op # "get"
      <4>1. /\ Len(cmds') = Len(cmds) + 1
            /\ cmds'[Len(cmds')] = Set(c, v)
            /\ \A k \in 1..Len(cmds) : cmds'[k] = cmds[k]
        BY <2>3, <3>2
      <4>2. Set(c, v).op # "get"
        BY DEF Set
      <4>3. QED
        BY <3>2, <4>1, <4>2
    <3>4. QED
      BY <3>1, <3>3 DEF OnTime, NoGetUnlessAwaited, AnswerIsCurrent, ReadIsCurrent,
         SettledWhenCompared, SettledWhenVerified
  <2>4. QED
    BY <2>1, <2>2, <2>3
<1>2. CASE EndRound
  BY <1>2 DEF EndRound, OnTime, NoGetUnlessAwaited, AnswerIsCurrent, ReadIsCurrent,
     SettledWhenCompared, SettledWhenVerified, line
<1>3. CASE FadeTimeout
  BY <1>3, FinishOnTime DEF FadeTimeout, AC_RX_TIMEOUT, AC_SUCCESS
<1>4. QED
  BY <1>1, <1>2, <1>3

\* The decision: only a profile that was read back as requested is accepted.
LEMMA Decides ==
  ASSUME TypeOK, Verify
  PROVE  \/ Finish(AC_PROFILE_VERIFY_FAILED)
         \/ Retry
         \/ Accept /\ Matches(RequestedProfile, volumeState)
<1> DEFINE matched == Matches(RequestedProfile, volumeState)
<1>1. \/ ProfileDecision(matched, attempt) = "success" /\ Accept
      \/ ProfileDecision(matched, attempt) = "retry" /\ Retry
      \/ Finish(AC_PROFILE_VERIFY_FAILED)
  BY Zenon DEF Verify
<1>2. CASE matched
  <2>1. ProfileDecision(matched, attempt) = "success"
    BY <1>2 DEF ProfileDecision
  <2>2. QED
    BY <1>1, <1>2, <2>1
<1>3. CASE ~matched
  <2>1. ProfileDecision(matched, attempt) # "success"
    BY <1>3 DEF ProfileDecision, TypeOK, AC_PROFILE_MAX_ATTEMPTS
  <2>2. QED
    BY <1>1, <2>1
<1>4. QED
  BY <1>2, <1>3

LEMMA VerifyOnTime == ASSUME TypeOK, OnTime, Verify PROVE OnTime'
<1> USE DEF Verify
<1>1. cmds = <<>> /\ volumeState = mixer /\ cmds' = <<>> /\ mixer' = mixer
      /\ volumeState' = volumeState
  BY DEF OnTime, SettledWhenCompared, line
<1>2. CASE Finish(AC_PROFILE_VERIFY_FAILED)
  BY <1>2, FinishOnTime DEF AC_PROFILE_VERIFY_FAILED, AC_SUCCESS
<1>3. CASE Retry
  BY <1>1, <1>3 DEF Retry, OnTime, NoGetUnlessAwaited, AnswerIsCurrent, ReadIsCurrent,
     SettledWhenCompared, SettledWhenVerified
<1>4. CASE Accept /\ Matches(RequestedProfile, volumeState)
  <2>1. RequestedProfile = mixer
    <3>1. RequestedProfile \in Profile /\ mixer \in Profile
      BY RequestedType DEF TypeOK
    <3>2. QED
      BY <1>1, <1>4, <3>1 DEF Matches, Profile
  <2>2. RequestedProfile' = RequestedProfile
    BY DEF RequestedProfile, request
  <2>3. QED
    BY <1>1, <1>4, <2>1, <2>2 DEF Accept, Finish, OnTime, NoGetUnlessAwaited,
       AnswerIsCurrent, ReadIsCurrent, SettledWhenCompared, SettledWhenVerified
<1>5. QED
  BY <1>2, <1>3, <1>4, Decides

\* The mixer serves the head of the line: a question there is the only command
\* left, and a volume command there means nothing was read yet.
LEMMA EnvironmentOnTime == ASSUME TypeOK, OnTime, Environment PROVE OnTime'
<1>1. cmds # <<>> /\ cmds \in Seq(Commands) /\ rx \in Seq(Answers)
  BY DEF Environment, MixerAnswers, MixerSets, LoseCommand, GarbleAnswer, TypeOK
<1>2. UNCHANGED <<request, control, volumes>> /\ cmds' = Tail(cmds)
  BY DEF Environment, MixerAnswers, MixerSets, LoseCommand, GarbleAnswer
<1>3. /\ Len(cmds') = Len(cmds) - 1
      /\ \A k \in 1..Len(cmds') : cmds'[k] = cmds[k + 1]
      /\ Head(cmds) = cmds[1] /\ Len(cmds) >= 1
  BY <1>1, <1>2
<1>4. pc # "verify" /\ ~(pc = "done" /\ result = AC_SUCCESS)
  BY <1>1 DEF OnTime, SettledWhenCompared, SettledWhenVerified
<1>5. SettledWhenCompared' /\ SettledWhenVerified'
  BY <1>2, <1>4 DEF SettledWhenCompared, SettledWhenVerified, control
<1>6. CASE Head(cmds).op = "get" /\ pc # "done"
  <2>1. pc = "await" /\ rx = <<>> /\ Len(cmds) = 1 /\ cmds[1].ch = channel
    BY <1>3, <1>6 DEF OnTime, NoGetUnlessAwaited
  <2>2. cmds' = <<>> /\ mixer' = mixer
    BY <1>1, <1>2, <1>3, <1>6, <2>1
    DEF Environment, MixerAnswers, MixerSets, LoseCommand, GarbleAnswer
  <2>3. NoGetUnlessAwaited'
    BY <2>2 DEF NoGetUnlessAwaited
  <2>4. ReadIsCurrent'
    <3>1. UNCHANGED <<pc, channel, volumeState>>
      BY <1>2 DEF control, volumes
    <3>2. QED
      BY <2>2, <3>1 DEF OnTime, ReadIsCurrent
  <2>5. AnswerIsCurrent'
    <3>1. \/ rx' = rx
          \/ rx' = Append(rx, [ch |-> cmds[1].ch, vol |-> mixer[cmds[1].ch]])
          \/ rx' = Append(rx, Garbled)
      BY <1>3, <1>6
      DEF Environment, MixerAnswers, MixerSets, LoseCommand, GarbleAnswer, Deliver
    <3>2. \/ rx' = <<>>
          \/ rx' = <<[ch |-> channel, vol |-> mixer[channel]]>>
          \/ rx' = <<Garbled>>
      BY <2>1, <3>1
    <3>3. QED
      BY <1>2, <2>2, <3>2 DEF AnswerIsCurrent, Garbled, control
  <2>6. QED
    BY <1>5, <2>3, <2>4, <2>5 DEF OnTime
<1>7. CASE Head(cmds).op # "get" /\ pc # "done"
  <2>1. rx' = rx
    BY <1>7 DEF Environment, MixerAnswers, MixerSets, LoseCommand, GarbleAnswer
  <2>2. NoGetUnlessAwaited'
    BY <1>2, <1>3, <2>1 DEF OnTime, NoGetUnlessAwaited, control
  <2>3. ~(pc = "await" /\ rx # <<>>)
    BY <1>1 DEF OnTime, AnswerIsCurrent
  <2>4. ~(pc \in {"query", "await"} /\ channel > 1)
    BY <1>3, <1>7 DEF OnTime, ReadIsCurrent
  <2>5. QED
    BY <1>2, <1>5, <2>1, <2>2, <2>3, <2>4
    DEF OnTime, AnswerIsCurrent, ReadIsCurrent, control
<1>8. CASE pc = "done"
  BY <1>2, <1>5, <1>8 DEF OnTime, NoGetUnlessAwaited, AnswerIsCurrent, ReadIsCurrent, control
<1>9. QED
  BY <1>6, <1>7, <1>8

LEMMA NextOnTime == TypeOK /\ OnTimeInv /\ [Next]_vars => OnTimeInv'
<1> SUFFICES ASSUME TypeOK, OnTimeInv, [Next]_vars, ~late' PROVE OnTime'
  BY DEF OnTimeInv, OnTime, NoGetUnlessAwaited, AnswerIsCurrent, ReadIsCurrent,
         SettledWhenCompared, SettledWhenVerified
<1>1. OnTime
  <2>1. ~late
    BY DEF Next, Program, Environment, vars, RefuseIndex, PortUnavailable, BeginProfile,
       SendQuery, QueryFails, ReceiveVolume, RejectResponse, ReadTimeout, ReadError,
       FadeStep, EndRound, FadeTimeout, Verify, MixerAnswers, MixerSets, LoseCommand,
       GarbleAnswer
  <2>2. QED
    BY <2>1 DEF OnTimeInv, OnTime
<1>2. CASE Program
  BY <1>1, <1>2, StartOnTime, QueryOnTime, ReceiveOnTime, AwaitOnTime, ControlOnTime,
     VerifyOnTime DEF Program
<1>3. CASE Environment
  BY <1>1, <1>3, EnvironmentOnTime
<1>4. CASE UNCHANGED vars
  BY <1>1, <1>4 DEF vars, request, control, volumes, line, OnTime, NoGetUnlessAwaited,
     AnswerIsCurrent, ReadIsCurrent, SettledWhenCompared, SettledWhenVerified,
     RequestedProfile
<1>5. QED
  BY <1>2, <1>3, <1>4 DEF Next

\* For any mixer and any number of lost or garbled messages, as long as every
\* wait is long enough: a question is the last command on the line, its answer
\* the only one, and the volumes read are those the mixer has.
THEOREM LineInStep == Spec => []OnTimeInv
  BY InitOnTime, NextOnTime, InitType, NextType, PTL DEF Spec

\* ... and therefore a profile that is reported as set is the one the mixer has.
THEOREM VerifiedProfileIsSet == Spec => []VerifiedOnTime
<1>1. OnTimeInv => VerifiedOnTime
  BY DEF OnTimeInv, SettledWhenVerified, VerifiedOnTime, VerifiedMeansSet
<1>2. QED
  BY <1>1, LineInStep, PTL

-----------------------------------------------------------------------------
(* With answers that come late.  The line is first in first out, so what a *)
(* read accepts can be an answer to an older question for the same channel *)
(* only if all questions in between were for this channel too.  With more  *)
(* than one channel, as in the code, a channel is never asked again before *)
(* another one has answered.                                               *)

Ask(k, c)   == cmds[k].op = "get" /\ cmds[k].ch = c
OnlyAsks(C) == \A k \in 1..Len(cmds) : \E c \in C : Ask(k, c)
Before(c)   == IF c = 1 THEN NumChannels ELSE c - 1
Reading     == pc \in {"query", "await"}

\* The questions on the line are for the channel being read or for the last
\* one that was read, ...
AsksAreRecent ==
    pc # "done" =>
        \A k \in 1..Len(cmds) : cmds[k].op = "get" =>
            cmds[k].ch \in IF Reading THEN {Before(channel), channel} ELSE {NumChannels}

\* ... and those for the channel being read come last, behind every volume
\* command and every leftover.
AsksAreLast ==
    Reading => \A j, k \in 1..Len(cmds) : j < k /\ Ask(j, channel) => Ask(k, channel)

AnswerIsFresh ==
    pc = "await" => \A i \in 1..Len(rx) : rx[i].ch = channel =>
        OnlyAsks({channel}) /\ rx[i].vol = mixer[channel]

ReadIsFresh ==
    Reading /\ channel > 1 =>
        OnlyAsks(Channels) /\ \A d \in 1..(channel - 1) : volumeState[d] = mixer[d]

ComparedIsFresh ==
    pc = "verify" => channel = 1 /\ OnlyAsks(Channels) /\ volumeState = mixer

VerifiedStays ==
    pc = "done" /\ result = AC_SUCCESS => OnlyAsks(Channels) /\ mixer = RequestedProfile

Fresh ==
    /\ pc = "start" => cmds = <<>>
    /\ AsksAreRecent /\ AsksAreLast /\ AnswerIsFresh
    /\ ReadIsFresh /\ ComparedIsFresh /\ VerifiedStays

FreshInv == TypeOK /\ Fresh

LEMMA InitFresh == Init => FreshInv
<1> SUFFICES ASSUME Init PROVE FreshInv
  OBVIOUS
<1>1. pc = "start" /\ cmds = <<>> /\ rx = <<>>
  BY DEF Init
<1>2. QED
  BY <1>1, InitType DEF FreshInv, Fresh, AsksAreRecent, AsksAreLast, AnswerIsFresh,
     ReadIsFresh, ComparedIsFresh, VerifiedStays, Reading

\* An end that is not a success needs nothing of the line.
LEMMA FinishFresh ==
  ASSUME NEW code, code # AC_SUCCESS, Finish(code)
  PROVE  Fresh'
  BY DEF Finish, Fresh, AsksAreRecent, AsksAreLast, AnswerIsFresh,
     ReadIsFresh, ComparedIsFresh, VerifiedStays, Reading

LEMMA StartFresh ==
  ASSUME FreshInv, RefuseIndex \/ PortUnavailable \/ BeginProfile
  PROVE  Fresh'
<1>1. CASE RefuseIndex
  BY <1>1, FinishFresh DEF RefuseIndex, AC_OUT_OF_RANGE, AC_SUCCESS
<1>2. CASE PortUnavailable
  BY <1>2, FinishFresh DEF PortUnavailable, AC_COM_FAILED, AC_SUCCESS
<1>3. CASE BeginProfile
  <2>1. pc' = "query" /\ channel' = 1 /\ cmds' = <<>>
    BY <1>3 DEF BeginProfile, FreshInv, Fresh, TypeOK, line
  <2>2. QED
    BY <2>1 DEF Fresh, AsksAreRecent, AsksAreLast, AnswerIsFresh, ReadIsFresh,
       ComparedIsFresh, VerifiedStays
<1>4. QED
  BY <1>1, <1>2, <1>3

LEMMA QueryFresh ==
  ASSUME FreshInv, SendQuery \/ QueryFails
  PROVE  Fresh'
<1>1. CASE SendQuery
  <2> USE <1>1 DEF SendQuery
  <2>1. /\ cmds \in Seq(Commands) /\ Get(channel) \in Commands /\ channel \in Channels
        /\ channel' = channel /\ pc = "query" /\ pc' = "await"
    BY VolumeAssumption DEF FreshInv, TypeOK, Get, Commands, Volumes
  <2>2. /\ Len(cmds) \in Nat /\ Len(cmds') = Len(cmds) + 1
        /\ cmds'[Len(cmds')] = Get(channel)
        /\ \A k \in 1..Len(cmds) : cmds'[k] = cmds[k]
    BY <2>1
  <2>3. PICK n \in Nat : n = Len(cmds')
    BY <2>2
  <2>4. /\ Ask(n, channel)'
        /\ \A k \in 1..Len(cmds) : \A c : Ask(k, c)' <=> Ask(k, c)
        /\ \A k \in 1..Len(cmds') : k \in 1..Len(cmds) \/ k = n
    BY <2>1, <2>2, <2>3 DEF Ask, Get
  <2>5. AsksAreRecent'
    BY <2>1, <2>2, <2>3, <2>4 DEF FreshInv, Fresh, AsksAreRecent, Reading, Before, Get
  <2>6. AsksAreLast'
    <3> SUFFICES ASSUME NEW j \in 1..Len(cmds'), NEW k \in 1..Len(cmds'), j < k,
                        Ask(j, channel)'
                 PROVE  Ask(k, channel)'
      BY <2>1 DEF AsksAreLast
    <3>1. j \in 1..Len(cmds) /\ Ask(j, channel)
      BY <2>1, <2>2, <2>3, <2>4 DEF Ask
    <3>2. CASE k = n
      BY <2>4, <3>2
    <3>3. CASE k \in 1..Len(cmds)
      <4>1. Ask(k, channel)
        BY <2>1, <3>1, <3>3 DEF FreshInv, Fresh, AsksAreLast, Reading
      <4>2. QED
        BY <2>1, <2>4, <3>3, <4>1 DEF Ask
    <3>4. QED
      BY <2>4, <3>2, <3>3
  <2>7. AnswerIsFresh'
    BY DEF AnswerIsFresh, Flushed
  <2>8. ReadIsFresh'
    <3> SUFFICES ASSUME channel > 1
                 PROVE  OnlyAsks(Channels)' /\ \A d \in 1..(channel - 1) : volumeState[d] = mixer[d]
      BY <2>1 DEF ReadIsFresh, volumes
    <3>1. OnlyAsks(Channels) /\ \A d \in 1..(channel - 1) : volumeState[d] = mixer[d]
      BY <2>1 DEF FreshInv, Fresh, ReadIsFresh, Reading
    <3>2. OnlyAsks(Channels)'
      <4> SUFFICES ASSUME NEW k \in 1..Len(cmds') PROVE \E c \in Channels : Ask(k, c)'
        BY DEF OnlyAsks, Channels
      <4>1. CASE k = n
        BY <2>1, <2>4, <4>1 DEF Ask
      <4>2. CASE k \in 1..Len(cmds)
        BY <2>4, <3>1, <4>2 DEF OnlyAsks
      <4>3. QED
        BY <2>4, <4>1, <4>2
    <3>3. QED
      BY <3>1, <3>2
  <2>9. QED
    BY <2>1, <2>5, <2>6, <2>7, <2>8 DEF Fresh, ComparedIsFresh, VerifiedStays
<1>2. CASE QueryFails
  BY <1>2, FinishFresh DEF QueryFails, AC_RX_FAILED, AC_TX_FAILED, AC_SUCCESS
<1>3. QED
  BY <1>1, <1>2

LEMMA ReceiveFresh ==
  ASSUME FreshInv, NumChannels > 1, ReceiveVolume
  PROVE  Fresh'
<1> USE DEF ReceiveVolume
<1>1. /\ rx # <<>> /\ Head(rx) = rx[1] /\ rx[1].ch = channel /\ Len(rx) = 1
      /\ channel \in Channels /\ NumChannels \in Nat
  <2>1. rx \in Seq(Answers) /\ Len(rx) = 1 /\ Head(rx).ch = channel
    <3>1. Parses(rx, channel)
      BY Zenon
    <3>2. rx \in Seq(Answers)
      BY DEF FreshInv, TypeOK
    <3>3. QED
      BY <3>1, <3>2, Zenon DEF Parses
  <2>2. channel \in Channels
    BY DEF FreshInv, TypeOK
  <2>3. QED
    BY <2>1, <2>2, OneAnswer, ChannelsAssumption, Zenon
<1>2. OnlyAsks({channel}) /\ rx[1].vol = mixer[channel]
  <2>1. 1 \in 1..Len(rx)
    BY <1>1
  <2>2. QED
    BY <1>1, <2>1, Zenon DEF FreshInv, Fresh, AnswerIsFresh
<1>3. cmds' = cmds /\ mixer' = mixer /\ rx' = <<>>
  OBVIOUS
<1>4. \A k \in 1..Len(cmds) : cmds[k].op = "get" /\ cmds[k].ch = channel
  BY <1>2 DEF OnlyAsks, Ask
<1>5. OnlyAsks(Channels)'
  BY <1>1, <1>3, <1>4 DEF OnlyAsks, Ask, Channels
<1>6. \A d \in 1..channel : volumeState'[d] = mixer'[d]
  <2>1. \A d \in 1..(channel - 1) : volumeState[d] = mixer[d]
    BY <1>1 DEF FreshInv, Fresh, ReadIsFresh, Reading, Channels
  <2>2. volumeState \in Profile
    BY DEF FreshInv, TypeOK
  <2>3. QED
    BY <1>1, <1>2, <1>3, <2>1, <2>2 DEF Profile, Channels
<1>7. CASE channel < NumChannels
  <2>1. channel' = channel + 1 /\ pc' = "query" /\ Before(channel)' = channel
        /\ channel # channel'
    BY <1>7, <1>1 DEF Channels, Before
  <2>2. AsksAreRecent'
    BY <1>3, <1>4, <2>1 DEF AsksAreRecent, Reading
  <2>3. AsksAreLast'
    BY <1>3, <1>4, <2>1 DEF AsksAreLast, Ask
  <2>4. ReadIsFresh'
    BY <1>1, <1>5, <1>6, <2>1 DEF ReadIsFresh, Channels
  <2>5. QED
    BY <2>1, <2>2, <2>3, <2>4 DEF Fresh, AnswerIsFresh, ComparedIsFresh, VerifiedStays
<1>8. CASE channel = NumChannels
  <2>1. pc' \in {"control", "verify"} /\ channel' = 1
    BY <1>1, <1>8 DEF AfterLastChannel
  <2>2. volumeState' = mixer'
    <3>1. volumeState' \in Profile /\ mixer' \in Profile
      BY QueryType DEF FreshInv, TypeOK
    <3>2. \A d \in Channels : volumeState'[d] = mixer'[d]
      BY <1>6, <1>8 DEF Channels
    <3>3. QED
      BY <3>1, <3>2 DEF Profile
  <2>3. AsksAreRecent'
    BY <1>3, <1>4, <1>8, <2>1 DEF AsksAreRecent, Reading
  <2>4. QED
    BY <1>5, <2>1, <2>2, <2>3 DEF Fresh, AsksAreLast, AnswerIsFresh, ReadIsFresh,
       ComparedIsFresh, VerifiedStays, Reading
<1>9. QED
  BY <1>1, <1>7, <1>8 DEF Channels

\* A wait that is given up leaves the questions where they are.
LEMMA AwaitFresh ==
  ASSUME FreshInv, RejectResponse \/ ReadTimeout \/ ReadError
  PROVE  Fresh'
<1>1. CASE ReadError
  BY <1>1, FinishFresh DEF ReadError, AC_RX_FAILED, AC_SUCCESS
<1>2. ASSUME NEW code, code # AC_SUCCESS, pc = "await", RetryOrFinish(code),
             UNCHANGED <<volumes, line>>
      PROVE  Fresh'
  <2>1. CASE Finish(code)
    BY <1>2, <2>1, FinishFresh
  <2>2. CASE ~Finish(code)
    <3>1. pc' = "query" /\ channel' = channel
      BY <1>2, <2>2 DEF RetryOrFinish
    <3>2. cmds' = cmds /\ mixer' = mixer /\ volumeState' = volumeState
      BY <1>2 DEF volumes, line
    <3>3. AsksAreRecent' /\ AsksAreLast' /\ ReadIsFresh'
      BY <1>2, <3>1, <3>2 DEF FreshInv, Fresh, AsksAreRecent, AsksAreLast, ReadIsFresh,
         Reading, Ask, OnlyAsks, Before
    <3>4. QED
      BY <3>1, <3>3 DEF Fresh, AnswerIsFresh, ComparedIsFresh, VerifiedStays
  <2>3. QED
    BY <2>1, <2>2
<1>3. AC_INVALID_RESPONSE # AC_SUCCESS /\ AC_RX_TIMEOUT # AC_SUCCESS
  BY DEF AC_INVALID_RESPONSE, AC_RX_TIMEOUT, AC_SUCCESS
<1>4. QED
  BY <1>1, <1>2, <1>3 DEF RejectResponse, ReadTimeout

LEMMA ControlFresh ==
  ASSUME FreshInv, NumChannels > 1, FadeStep \/ EndRound \/ FadeTimeout
  PROVE  Fresh'
<1>1. CASE FadeStep
  <2>1. PICK c \in Differing, v \in Volumes :
          \/ /\ cmds' = Append(cmds, Set(c, v))
             /\ UNCHANGED pc
          \/ Finish(AC_TX_FAILED)
    <3>1. ASSUME NEW c \in Differing
          PROVE  StepToward(volumeSteps[c], volumeRequest[c]) \in Volumes
      BY StepType, ChannelsAssumption DEF Differing, FreshInv, TypeOK, Profile, Channels
    <3>2. QED
      BY <1>1, <3>1 DEF FadeStep
  <2>2. CASE Finish(AC_TX_FAILED)
    BY <2>2, FinishFresh DEF AC_TX_FAILED, AC_SUCCESS
  <2>3. CASE cmds' = Append(cmds, Set(c, v)) /\ UNCHANGED pc
    <3>1. pc = "control" /\ pc' = "control"
      BY <1>1, <2>3 DEF FadeStep
    <3>2. cmds \in Seq(Commands)
      BY DEF FreshInv, TypeOK
    <3>3. \A k \in 1..Len(cmds) : cmds[k].op = "get" => cmds[k].ch = NumChannels
      BY <3>1 DEF FreshInv, Fresh, AsksAreRecent, Reading
    <3>4. \A k \in 1..Len(cmds') : cmds'[k].op = "get" => cmds'[k].ch = NumChannels
      <4>1. /\ Len(cmds') = Len(cmds) + 1
            /\ cmds'[Len(cmds')] = Set(c, v)
            /\ \A k \in 1..Len(cmds) : cmds'[k] = cmds[k]
        BY <2>3, <3>2
      <4>2. Set(c, v).op # "get"
        BY DEF Set
      <4>3. QED
        BY <3>2, <3>3, <4>1, <4>2
    <3>5. QED
      BY <3>1, <3>4 DEF Fresh, AsksAreRecent, AsksAreLast, AnswerIsFresh, ReadIsFresh,
         ComparedIsFresh, VerifiedStays, Reading
  <2>4. QED
    BY <2>1, <2>2, <2>3
<1>2. CASE EndRound
  <2>1. /\ pc = "control" /\ pc' \in {"control", "query"} /\ channel' = 1
        /\ cmds' = cmds
    BY <1>2 DEF EndRound, line
  <2>2. \A k \in 1..Len(cmds) : cmds[k].op = "get" => cmds[k].ch = NumChannels
    BY <2>1 DEF FreshInv, Fresh, AsksAreRecent, Reading
  <2>3. AsksAreRecent'
    BY <2>1, <2>2 DEF AsksAreRecent, Reading, Before
  <2>4. AsksAreLast'
    BY <2>1, <2>2, ChannelsAssumption DEF AsksAreLast, Ask
  <2>5. QED
    BY <2>1, <2>3, <2>4 DEF Fresh, AnswerIsFresh, ReadIsFresh, ComparedIsFresh,
       VerifiedStays
<1>3. CASE FadeTimeout
  BY <1>3, FinishFresh DEF FadeTimeout, AC_RX_TIMEOUT, AC_SUCCESS
<1>4. QED
  BY <1>1, <1>2, <1>3

LEMMA VerifyFresh ==
  ASSUME FreshInv, NumChannels > 1, Verify
  PROVE  Fresh'
<1> USE DEF Verify
<1>1. /\ channel = 1 /\ OnlyAsks(Channels) /\ volumeState = mixer
      /\ cmds' = cmds /\ mixer' = mixer
  BY DEF FreshInv, Fresh, ComparedIsFresh, line
<1>2. \A k \in 1..Len(cmds) : cmds[k].op = "get" /\ cmds[k].ch = NumChannels
  BY <1>1 DEF OnlyAsks, Ask, FreshInv, Fresh, AsksAreRecent, Reading
<1>3. CASE Finish(AC_PROFILE_VERIFY_FAILED)
  BY <1>3, FinishFresh DEF AC_PROFILE_VERIFY_FAILED, AC_SUCCESS
<1>4. CASE Retry
  <2>1. pc' = "query" /\ channel' = 1
    BY <1>1, <1>4 DEF Retry
  <2>2. AsksAreRecent' /\ AsksAreLast' /\ ReadIsFresh'
    BY <1>1, <1>2, <2>1 DEF AsksAreRecent, AsksAreLast, ReadIsFresh, Reading, Ask, Before
  <2>3. QED
    BY <2>1, <2>2 DEF Fresh, AnswerIsFresh, ComparedIsFresh, VerifiedStays
<1>5. CASE Accept /\ Matches(RequestedProfile, volumeState)
  <2>1. RequestedProfile = mixer
    <3>1. RequestedProfile \in Profile /\ mixer \in Profile
      BY RequestedType DEF FreshInv, TypeOK
    <3>2. QED
      BY <1>1, <1>5, <3>1 DEF Matches, Profile
  <2>2. RequestedProfile' = RequestedProfile
    BY DEF RequestedProfile, request
  <2>3. OnlyAsks(Channels)'
    BY <1>1 DEF OnlyAsks, Ask, Channels
  <2>4. QED
    BY <1>1, <1>5, <2>1, <2>2, <2>3 DEF Accept, Finish, Fresh, AsksAreRecent, AsksAreLast,
       AnswerIsFresh, ReadIsFresh, ComparedIsFresh, VerifiedStays, Reading
<1>6. QED
  BY <1>3, <1>4, <1>5, Decides DEF FreshInv

\* The mixer serves, or the line loses, the oldest command.  If that is a question
\* for the channel being read, only such questions are behind it; if it is a
\* volume command, nothing that the read will accept has been answered yet.
LEMMA EnvironmentFresh ==
  ASSUME FreshInv, NumChannels > 1, Environment
  PROVE  Fresh'
<1>1. cmds # <<>> /\ cmds \in Seq(Commands) /\ rx \in Seq(Answers)
  BY DEF Environment, MixerAnswers, MixerSets, LoseCommand, GarbleAnswer, FreshInv, TypeOK
<1>2. UNCHANGED <<request, control, volumes>> /\ cmds' = Tail(cmds)
  BY DEF Environment, MixerAnswers, MixerSets, LoseCommand, GarbleAnswer
<1>3. /\ Len(cmds) \in Nat /\ Len(cmds') = Len(cmds) - 1
      /\ \A k \in 1..Len(cmds') : cmds'[k] = cmds[k + 1] /\ k + 1 \in 1..Len(cmds)
      /\ Head(cmds) = cmds[1] /\ 1 \in 1..Len(cmds)
  BY <1>1, <1>2
<1>4. /\ pc' = pc /\ phase' = phase /\ channel' = channel /\ result' = result
      /\ volumeState' = volumeState /\ RequestedProfile' = RequestedProfile
  BY <1>2 DEF control, volumes, request, RequestedProfile
<1>5. \A k \in 1..Len(cmds') : \A c : Ask(k, c)' <=> Ask(k + 1, c)
  BY <1>3 DEF Ask
<1>6. \A C : OnlyAsks(C) => OnlyAsks(C)'
  <2> SUFFICES ASSUME NEW C, OnlyAsks(C), NEW k \in 1..Len(cmds')
               PROVE  \E c \in C : Ask(k, c)'
    BY DEF OnlyAsks
  <2>1. \E c \in C : Ask(k + 1, c)
    BY <1>3 DEF OnlyAsks
  <2>2. QED
    BY <1>5, <2>1
<1>7. ASSUME OnlyAsks(Channels) PROVE mixer' = mixer
  <2>1. cmds[1].op = "get"
    BY <1>3, <1>7 DEF OnlyAsks, Ask
  <2>2. QED
    BY <1>3, <2>1 DEF Environment, MixerAnswers, MixerSets, LoseCommand, GarbleAnswer
<1>8. AsksAreRecent'
  BY <1>3, <1>4 DEF FreshInv, Fresh, AsksAreRecent, Reading, Before
<1>9. AsksAreLast'
  <2> SUFFICES ASSUME Reading, NEW j \in 1..Len(cmds'), NEW k \in 1..Len(cmds'), j < k,
                      Ask(j, channel)'
               PROVE  Ask(k, channel)'
    BY <1>4 DEF AsksAreLast, Reading
  <2>1. Ask(j + 1, channel)
    BY <1>3, <1>4 DEF Ask
  <2>2. Ask(k + 1, channel)
    BY <1>3, <2>1 DEF FreshInv, Fresh, AsksAreLast
  <2>3. QED
    BY <1>3, <1>4, <2>2 DEF Ask
<1>10. ReadIsFresh'
  BY <1>4, <1>6, <1>7 DEF FreshInv, Fresh, ReadIsFresh, Reading, Channels
<1>11. ComparedIsFresh' /\ VerifiedStays'
  BY <1>4, <1>6, <1>7 DEF FreshInv, Fresh, ComparedIsFresh, VerifiedStays, Channels
<1>12. AnswerIsFresh'
  <2> SUFFICES ASSUME pc = "await", NEW i \in 1..Len(rx'), rx'[i].ch = channel
               PROVE  OnlyAsks({channel})' /\ rx'[i].vol = mixer'[channel]
    BY <1>4 DEF AnswerIsFresh
  <2>1. channel \in Channels /\ NumChannels \in Nat
    BY ChannelsAssumption DEF FreshInv, TypeOK
  <2>2. ASSUME OnlyAsks({channel})
        PROVE  OnlyAsks({channel})' /\ mixer' = mixer
    <3>1. OnlyAsks(Channels)
      BY <2>1, <2>2 DEF OnlyAsks
    <3>2. QED
      BY <1>3, <1>4, <1>7, <2>2, <3>1 DEF OnlyAsks, Ask
  <2>3. CASE i \in 1..Len(rx) /\ rx'[i] = rx[i]
    <3>1. OnlyAsks({channel}) /\ rx[i].vol = mixer[channel]
      BY <2>3 DEF FreshInv, Fresh, AnswerIsFresh
    <3>2. QED
      BY <2>2, <2>3, <3>1
  <2>4. CASE /\ cmds[1].op = "get" /\ mixer' = mixer
             /\ rx'[i] = [ch |-> cmds[1].ch, vol |-> mixer[cmds[1].ch]]
    <3>1. Ask(1, channel)
      BY <2>4 DEF Ask
    <3>2. \A k \in 1..Len(cmds) : Ask(k, channel)
      <4>1. \A k \in 1..Len(cmds) : k = 1 \/ 1 < k
        OBVIOUS
      <4>2. QED
        BY <1>3, <3>1, <4>1 DEF FreshInv, Fresh, AsksAreLast, Reading
    <3>3. QED
      BY <2>2, <2>4, <3>1, <3>2 DEF OnlyAsks, Ask
  <2>5. CASE rx'[i] = Garbled
    BY <2>1, <2>5 DEF Garbled, Channels
  <2>6. \/ i \in 1..Len(rx) /\ rx'[i] = rx[i]
        \/ /\ cmds[1].op = "get" /\ mixer' = mixer
           /\ rx'[i] = [ch |-> cmds[1].ch, vol |-> mixer[cmds[1].ch]]
        \/ rx'[i] = Garbled
    <3>1. CASE rx' = rx
      BY <3>1
    <3>2. ASSUME NEW x, rx' = Append(rx, x) 
          PROVE  (i \in 1..Len(rx) /\ rx'[i] = rx[i]) \/ rx'[i] = x
      BY <1>1, <3>2
    <3>3. QED
      BY <1>3, <3>1, <3>2
      DEF Environment, MixerAnswers, MixerSets, LoseCommand, GarbleAnswer, Deliver
  <2>7. QED
    BY <2>3, <2>4, <2>5, <2>6
<1>13. QED
  BY <1>1, <1>4, <1>8, <1>9, <1>10, <1>11, <1>12 DEF FreshInv, Fresh

LEMMA NextFresh ==
  ASSUME NumChannels > 1
  PROVE  FreshInv /\ [Next]_vars => FreshInv'
<1> SUFFICES ASSUME FreshInv, [Next]_vars PROVE FreshInv'
  OBVIOUS
<1>1. TypeOK'
  BY NextType DEF FreshInv
<1>2. CASE Program
  BY <1>1, <1>2, StartFresh, QueryFresh, ReceiveFresh, AwaitFresh, ControlFresh, VerifyFresh
  DEF Program, FreshInv
<1>3. CASE Environment
  BY <1>1, <1>3, EnvironmentFresh DEF FreshInv
<1>4. CASE UNCHANGED vars
  <2>1. /\ pc' = pc /\ channel' = channel /\ cmds' = cmds /\ rx' = rx /\ mixer' = mixer
        /\ volumeState' = volumeState /\ result' = result /\ stored' = stored
    BY <1>4 DEF vars, request, control, volumes, line
  <2>2. Fresh'
    BY <2>1 DEF FreshInv, Fresh, AsksAreRecent, AsksAreLast, AnswerIsFresh, ReadIsFresh,
       ComparedIsFresh, VerifiedStays, Reading, OnlyAsks, Ask, Before, RequestedProfile
  <2>3. QED
    BY <1>1, <2>2 DEF FreshInv
<1>5. QED
  BY <1>2, <1>3, <1>4 DEF Next

\* With more than one channel, the code has four, and however late answers come
\* and whatever the line loses or garbles: when AC_Profile reports success, the
\* mixer has every volume that was requested.
THEOREM VerifiedIsSet == NumChannels > 1 => (Spec => []VerifiedMeansSet)
<1> SUFFICES ASSUME NumChannels > 1 PROVE Spec => []VerifiedMeansSet
  OBVIOUS
<1>1. FreshInv => VerifiedMeansSet
  BY DEF FreshInv, Fresh, VerifiedStays, VerifiedMeansSet
<1>2. FreshInv /\ [Next]_vars => FreshInv'
  BY NextFresh
<1>3. QED
  BY <1>1, <1>2, InitFresh, PTL DEF Spec

-----------------------------------------------------------------------------
(* AudioProfile implements ProfilePromise: the outcome is that of the call, *)
(* a step of the mixer is a move, and everything else is a stutter.         *)

Outcome == CASE pc # "done"                          -> "working"
             [] pc = "done" /\ result = AC_SUCCESS   -> "verified"
             [] pc = "done" /\ result # AC_SUCCESS   -> "refused"

LEMMA OutcomeIs ==
    /\ pc # "done" => Outcome = "working"
    /\ pc = "done" /\ result = AC_SUCCESS => Outcome = "verified"
    /\ pc = "done" /\ result # AC_SUCCESS => Outcome = "refused"
  BY DEF Outcome

LEMMA OutcomeNext ==
    /\ pc' # "done" => Outcome' = "working"
    /\ pc' = "done" /\ result' = AC_SUCCESS => Outcome' = "verified"
    /\ pc' = "done" /\ result' # AC_SUCCESS => Outcome' = "refused"
  BY DEF Outcome

LEMMA InitPromise == Init => Promise!Init
<1> SUFFICES ASSUME Init PROVE Promise!Init
  OBVIOUS
<1>1. TypeOK /\ pc = "start"
  BY InitType DEF Init
<1>2. RequestedProfile \in [Channels -> Volumes] /\ mixer \in [Channels -> Volumes]
  BY <1>1, RequestedType DEF TypeOK, Profile
<1>3. QED
  BY <1>1, <1>2, OutcomeIs DEF Promise!Init, Outcome

\* A step that ends the call without success refuses, ...
LEMMA RefusePromise ==
  ASSUME NEW code, code # AC_SUCCESS, Finish(code), pc # "done",
         UNCHANGED <<request, mixer, activeAudioProfile>>
  PROVE  [Promise!Next]_(Promise!vars)
<1>1. Outcome = "working" /\ Outcome' = "refused"
  BY OutcomeIs, OutcomeNext DEF Finish
<1>2. UNCHANGED <<RequestedProfile, index, mixer, activeAudioProfile>>
  BY DEF RequestedProfile, request
<1>3. Promise!Refuse
  BY <1>1, <1>2 DEF Promise!Refuse, Outcome
<1>4. QED
  BY <1>3 DEF Promise!Next

\* ... and one that ends nothing stutters, also when it is in the middle of a
\* read or of the fade.
LEMMA StutterPromise ==
  ASSUME \/ pc' = pc /\ result' = result
         \/ pc # "done" /\ pc' # "done",
         UNCHANGED <<request, mixer, activeAudioProfile>>
  PROVE  [Promise!Next]_(Promise!vars)
<1>1. Outcome' = Outcome
  BY OutcomeIs, OutcomeNext DEF Outcome
<1>2. UNCHANGED <<RequestedProfile, index, mixer, activeAudioProfile>>
  BY DEF RequestedProfile, request
<1>3. UNCHANGED Promise!vars
  BY <1>1, <1>2 DEF Promise!vars, Outcome
<1>4. QED
  BY <1>3

LEMMA HardCodes ==
    /\ AC_OUT_OF_RANGE # AC_SUCCESS /\ AC_COM_FAILED # AC_SUCCESS
    /\ AC_TX_FAILED # AC_SUCCESS /\ AC_RX_FAILED # AC_SUCCESS
    /\ AC_RX_TIMEOUT # AC_SUCCESS /\ AC_INVALID_RESPONSE # AC_SUCCESS
    /\ AC_PROFILE_VERIFY_FAILED # AC_SUCCESS
  BY DEF AC_OUT_OF_RANGE, AC_COM_FAILED, AC_TX_FAILED, AC_RX_FAILED, AC_RX_TIMEOUT,
         AC_INVALID_RESPONSE, AC_PROFILE_VERIFY_FAILED, AC_SUCCESS

LEMMA ProgramPromise ==
  ASSUME FreshInv, Program
  PROVE  [Promise!Next]_(Promise!vars)
<1> USE HardCodes
<1>1. CASE RefuseIndex
  BY <1>1, RefusePromise DEF RefuseIndex, volumes, line
<1>2. CASE PortUnavailable
  BY <1>2, RefusePromise DEF PortUnavailable, line
<1>3. CASE BeginProfile
  BY <1>3, StutterPromise DEF BeginProfile, line
<1>4. CASE SendQuery
  BY <1>4, StutterPromise DEF SendQuery, volumes
<1>5. CASE QueryFails
  BY <1>5, RefusePromise DEF QueryFails, volumes
<1>6. CASE ReceiveVolume
  BY <1>6, StutterPromise DEF ReceiveVolume, AfterLastChannel
<1>7. ASSUME NEW code, code # AC_SUCCESS, pc = "await", RetryOrFinish(code),
             UNCHANGED <<request, volumes, line>>
      PROVE  [Promise!Next]_(Promise!vars)
  BY <1>7, RefusePromise, StutterPromise DEF RetryOrFinish, volumes, line
<1>8. CASE RejectResponse
  BY <1>7, <1>8 DEF RejectResponse
<1>9. CASE ReadTimeout
  BY <1>7, <1>9 DEF ReadTimeout
<1>10. CASE ReadError
  BY <1>10, RefusePromise DEF ReadError, volumes, line
<1>11. CASE FadeStep
  <2>1. /\ pc = "control" /\ UNCHANGED <<request, mixer, activeAudioProfile>>
        /\ UNCHANGED pc \/ Finish(AC_TX_FAILED)
    BY <1>11 DEF FadeStep
  <2>2. QED
    BY <2>1, RefusePromise, StutterPromise
<1>12. CASE EndRound
  BY <1>12, StutterPromise DEF EndRound, line
<1>13. CASE FadeTimeout
  BY <1>13, RefusePromise DEF FadeTimeout, volumes, line
<1>14. CASE Verify
  <2>1. pc = "verify" /\ UNCHANGED <<request, line>>
    BY <1>14 DEF Verify
  <2>2. CASE Finish(AC_PROFILE_VERIFY_FAILED)
    <3>1. activeAudioProfile' = activeAudioProfile
      BY <1>14, <2>2 DEF Verify, Accept, Retry, Finish
    <3>2. QED
      BY <2>1, <2>2, <3>1, RefusePromise DEF line
  <2>3. CASE Retry
    BY <2>1, <2>3, StutterPromise DEF Retry, line
  <2>4. CASE Accept /\ Matches(RequestedProfile, volumeState)
    <3>1. mixer = RequestedProfile
      <4>1. RequestedProfile \in Profile /\ mixer \in Profile /\ volumeState = mixer
        BY <2>1, RequestedType DEF FreshInv, TypeOK, Fresh, ComparedIsFresh
      <4>2. QED
        BY <2>4, <4>1 DEF Matches, Profile
    <3>2. Outcome = "working" /\ Outcome' = "verified"
      BY <2>1, <2>4, OutcomeIs, OutcomeNext DEF Accept, Finish
    <3>3. UNCHANGED <<RequestedProfile, index, mixer>>
      BY <2>1 DEF RequestedProfile, request, line
    <3>4. Promise!Verify
      BY <2>4, <3>1, <3>2, <3>3 DEF Promise!Verify, Outcome, Accept
    <3>5. QED
      BY <3>4 DEF Promise!Next
  <2>5. QED
    BY <1>14, <2>2, <2>3, <2>4, Decides DEF FreshInv
<1>15. QED
  BY <1>1, <1>2, <1>3, <1>4, <1>5, <1>6, <1>8, <1>9, <1>10, <1>11, <1>12, <1>13, <1>14
  DEF Program

\* Once the outcome is verified no volume command is left for the mixer.
LEMMA EnvironmentPromise ==
  ASSUME FreshInv, Environment
  PROVE  [Promise!Next]_(Promise!vars)
<1>1. UNCHANGED <<request, pc, result, activeAudioProfile>>
  BY DEF Environment, MixerAnswers, MixerSets, LoseCommand, GarbleAnswer, control, volumes
<1>2. CASE MixerSets
  <2>1. cmds # <<>> /\ cmds \in Seq(Commands) /\ Head(cmds).op = "set"
    BY <1>2 DEF MixerSets, FreshInv, TypeOK
  <2>2. Head(cmds) = cmds[1] /\ 1 \in 1..Len(cmds) /\ Head(cmds) \in Commands
    BY <2>1
  <2>3. ~(pc = "done" /\ result = AC_SUCCESS)
    BY <2>1, <2>2 DEF FreshInv, Fresh, VerifiedStays, OnlyAsks, Ask
  <2>4. Outcome # "verified" /\ Outcome' = Outcome
    BY <1>1, <2>3, OutcomeIs, OutcomeNext
  <2>5. PICK c \in Channels, v \in Volumes : mixer' = [mixer EXCEPT ![c] = v]
    BY <1>2, <2>2 DEF MixerSets, Commands
  <2>6. UNCHANGED <<RequestedProfile, index, activeAudioProfile>>
    BY <1>1 DEF RequestedProfile, request
  <2>7. Promise!Move
    BY <2>4, <2>5, <2>6 DEF Promise!Move, Outcome
  <2>8. QED
    BY <2>7 DEF Promise!Next
<1>3. CASE ~MixerSets
  <2>1. mixer' = mixer
    BY <1>3 DEF Environment, MixerAnswers, LoseCommand, GarbleAnswer
  <2>2. UNCHANGED <<request, mixer, activeAudioProfile>>
    BY <1>1, <2>1
  <2>3. pc' = pc /\ result' = result
    BY <1>1
  <2>4. QED
    BY <2>2, <2>3, StutterPromise, Zenon
<1>4. QED
  BY <1>2, <1>3

\* With more than one channel AC_Profile implements ProfilePromise: the active
\* profile advances exactly in the step that reports success, at that instant
\* the mixer has the profile, and nothing moves it away afterwards.
THEOREM PromiseIsKept == NumChannels > 1 => (Spec => PromiseKept)
<1> SUFFICES ASSUME NumChannels > 1 PROVE Spec => PromiseKept
  OBVIOUS
<1>1. FreshInv /\ [Next]_vars => FreshInv'
  BY NextFresh
<1>2. FreshInv /\ [Next]_vars => [Promise!Next]_(Promise!vars)
  <2> SUFFICES ASSUME FreshInv, [Next]_vars PROVE [Promise!Next]_(Promise!vars)
    OBVIOUS
  <2>1. CASE UNCHANGED vars
    <3>1. /\ UNCHANGED <<request, mixer, activeAudioProfile>>
          /\ pc' = pc /\ result' = result
      BY <2>1 DEF vars, control, volumes, line
    <3>2. QED
      BY <3>1, StutterPromise, Zenon
  <2>2. QED
    BY <2>1, ProgramPromise, EnvironmentPromise DEF Next
<1>3. QED
  BY <1>1, <1>2, InitFresh, InitPromise, PTL DEF Spec, PromiseKept, Promise!Spec

-----------------------------------------------------------------------------
(* The fade on a punctual line.  The volume commands of a channel that are *)
(* under way lead from the volume the mixer has to the last one AC_Control *)
(* has chosen, each one step from the one before it; a lost command makes  *)
(* the first of these steps longer by one.                                 *)

SetAt(k, c)    == cmds[k].op = "set" /\ cmds[k].ch = c
NoSet(c, I)    == \A i \in I : ~SetAt(i, c)
Heads(x, y, c) == Toward(x, y, RequestedProfile[c])
Fading         == pc \in {"control", "verify"} \/ (Reading /\ phase = "after")

FirstSet(c) ==
    \A k \in 1..Len(cmds) : SetAt(k, c) /\ NoSet(c, 1..(k - 1)) =>
        Distance(mixer[c], cmds[k].vol) <= 1 + lost
NextSet(c) ==
    \A j, k \in 1..Len(cmds) :
        j < k /\ SetAt(j, c) /\ SetAt(k, c) /\ NoSet(c, (j + 1)..(k - 1)) =>
            Distance(cmds[j].vol, cmds[k].vol) <= 1
SetsHead(c) ==
    /\ \A k \in 1..Len(cmds) : SetAt(k, c) => Heads(mixer[c], cmds[k].vol, c)
    /\ \A j, k \in 1..Len(cmds) : j < k /\ SetAt(j, c) /\ SetAt(k, c) =>
          Heads(cmds[j].vol, cmds[k].vol, c)

\* The commands of a channel that are under way, and what they lead to.
Underway(c) == FirstSet(c) /\ NextSet(c) /\ SetsHead(c)
LeadsTo(c, v) ==
    /\ \A k \in 1..Len(cmds) : SetAt(k, c) /\ NoSet(c, (k + 1)..Len(cmds)) =>
          cmds[k].vol = v
    /\ \A k \in 1..Len(cmds) : SetAt(k, c) => Heads(cmds[k].vol, v, c)
    /\ NoSet(c, 1..Len(cmds)) => Distance(mixer[c], v) <= lost
    /\ Heads(mixer[c], v, c)

Fade ==
    /\ pc = "start" => phase = "before"
    /\ ~Fading /\ pc # "done" => \A c \in Channels : NoSet(c, 1..Len(cmds))
    /\ pc \notin {"start", "done"} => volumeRequest = RequestedProfile
    /\ \A c \in Channels : Underway(c)
    /\ Fading => \A c \in Channels : LeadsTo(c, volumeSteps[c])

FadeInv == ~late => Fade

LEMMA Steps ==
    /\ \A x, y \in Int : Distance(x, y) \in Nat /\ Distance(x, x) = 0
    /\ \A x, y, z \in Int : Distance(x, z) <= Distance(x, y) + Distance(y, z)
    /\ \A x, g \in Int : Toward(x, x, g)
    /\ \A x, y, z, g \in Int : Toward(x, y, g) /\ Toward(y, z, g) => Toward(x, z, g)
<1>1. \A x, y \in Int : Distance(x, y) \in Nat /\ Distance(x, x) = 0
  BY DEF Distance
<1>2. \A x, y, z \in Int : Distance(x, z) <= Distance(x, y) + Distance(y, z)
  BY DEF Distance
<1>3. \A x, g \in Int : Toward(x, x, g)
  BY DEF Toward, Between
<1>4. \A x, y, z, g \in Int : Toward(x, y, g) /\ Toward(y, z, g) => Toward(x, z, g)
  BY DEF Toward, Between
<1>5. QED
  BY <1>1, <1>2, <1>3, <1>4

\* A step of the fade is one volume toward the request, which stays.
LEMMA StepIsGentle ==
    ASSUME NEW v \in Volumes, NEW goal \in Volumes, v # goal
    PROVE  /\ Distance(v, StepToward(v, goal)) = 1
           /\ Toward(v, StepToward(v, goal), goal)
           /\ GoalAfter(v, goal) = goal
  BY VolumeAssumption
  DEF StepToward, GoalAfter, Falls, Rises, Volumes, Distance, Toward, Between

LEMMA FadeTypes ==
    ASSUME TypeOK
    PROVE  /\ cmds \in Seq(Commands) /\ Len(cmds) \in Nat /\ lost \in Nat
           /\ \A k \in 1..Len(cmds) : cmds[k].vol \in Int /\ cmds[k].ch \in Channels
           /\ \A c \in Channels : /\ mixer[c] \in Int /\ volumeSteps[c] \in Int
                                  /\ volumeSteps[c] \in Volumes
                                  /\ RequestedProfile[c] \in Int
                                  /\ RequestedProfile[c] \in Volumes
<1>1. cmds \in Seq(Commands) /\ Len(cmds) \in Nat /\ lost \in Nat
  BY LostAssumption DEF TypeOK
<1>2. \A k \in 1..Len(cmds) : cmds[k] \in Commands
  BY <1>1
<1>3. Volumes \subseteq Int
  BY VolumeAssumption DEF Volumes
<1>4. RequestedProfile \in Profile /\ mixer \in Profile /\ volumeSteps \in Profile
  BY RequestedType DEF TypeOK
<1>5. QED
  BY <1>1, <1>2, <1>3, <1>4 DEF Commands, Profile

LEMMA InitFade == Init => FadeInv
<1> SUFFICES ASSUME Init PROVE Fade
  BY DEF FadeInv
<1>1. pc = "start" /\ cmds = <<>> /\ phase = "before"
  BY DEF Init
<1>2. QED
  BY <1>1 DEF Fade, Fading, Reading, NoSet, Underway, FirstSet, NextSet, SetsHead

\* A step that leaves the commands, the mixer and the chosen volumes alone.
LEMMA StillFade ==
    ASSUME Fade, cmds' = cmds, mixer' = mixer, lost' = lost, UNCHANGED request,
           Fading' => Fading /\ volumeSteps' = volumeSteps,
           ~Fading' /\ pc' # "done" => \A c \in Channels : NoSet(c, 1..Len(cmds)),
           pc' = "start" => phase' = "before",
           pc' \notin {"start", "done"} => volumeRequest' = RequestedProfile
    PROVE  Fade'
<1>1. RequestedProfile' = RequestedProfile
  BY DEF RequestedProfile, request
<1>2. ASSUME NEW c \in Channels PROVE Underway(c)'
  <2>1. Underway(c)
    BY DEF Fade
  <2>2. QED
    BY <1>1, <2>1 DEF Underway, FirstSet, NextSet, SetsHead, Heads, SetAt, NoSet
<1>3. ASSUME Fading', NEW c \in Channels PROVE LeadsTo(c, volumeSteps[c])'
  <2>1. LeadsTo(c, volumeSteps[c])
    BY <1>3 DEF Fade
  <2>2. volumeSteps'[c] = volumeSteps[c]
    BY <1>3
  <2>3. QED
    BY <1>1, <2>1, <2>2 DEF LeadsTo, Heads, SetAt, NoSet
<1>4. ~Fading' /\ pc' # "done" => \A c \in Channels : NoSet(c, 1..Len(cmds))'
  BY DEF NoSet, SetAt
<1>5. Channels' = Channels
  BY DEF Channels
<1>6. QED
  BY <1>1, <1>2, <1>3, <1>4, <1>5 DEF Fade

\* A command that is added behind the others.
LEMMA Appended ==
    ASSUME cmds \in Seq(Commands), NEW x \in Commands, cmds' = Append(cmds, x)
    PROVE  /\ Len(cmds) \in Nat /\ Len(cmds') = Len(cmds) + 1
           /\ \A k \in 1..Len(cmds') : k \in 1..Len(cmds) \/ k = Len(cmds) + 1
           /\ \A k \in 1..Len(cmds) : cmds'[k] = cmds[k] /\ k <= Len(cmds)
           /\ cmds'[Len(cmds) + 1] = x
  OBVIOUS

\* A question is no volume command.
LEMMA AskFade ==
    ASSUME TypeOK, Fade, SendQuery
    PROVE  Fade'
<1> USE DEF SendQuery
<1>1. /\ cmds \in Seq(Commands) /\ Get(channel) \in Commands
      /\ UNCHANGED <<stored, mixer, lost, volumeSteps, volumeRequest, phase>>
      /\ pc = "query" /\ pc' = "await"
  BY VolumeAssumption DEF TypeOK, Get, Commands, Volumes, request, volumes
<1>2. /\ Len(cmds) \in Nat /\ Len(cmds') = Len(cmds) + 1
      /\ \A k \in 1..Len(cmds') : k \in 1..Len(cmds) \/ k = Len(cmds) + 1
      /\ \A k \in 1..Len(cmds) : cmds'[k] = cmds[k] /\ k <= Len(cmds)
      /\ cmds'[Len(cmds) + 1] = Get(channel)
  BY <1>1, Appended
<1>3. PICK n \in Nat : n = Len(cmds) + 1
  BY <1>2
<1>4. /\ \A k \in 1..n : \A c : SetAt(k, c)' => k \in 1..Len(cmds) /\ SetAt(k, c)
      /\ \A k \in 1..Len(cmds) : \A c : SetAt(k, c)' <=> SetAt(k, c)
  BY <1>2, <1>3 DEF SetAt, Get
<1>5. RequestedProfile' = RequestedProfile /\ (Fading' <=> Fading)
  BY <1>1 DEF RequestedProfile, Fading, Reading
<1>6. ASSUME NEW c \in Channels PROVE Underway(c)'
  <2>1. Underway(c)
    BY DEF Fade
  <2>2. FirstSet(c)'
    <3> SUFFICES ASSUME NEW k \in 1..n, SetAt(k, c)', NoSet(c, 1..(k - 1))'
                 PROVE  Distance(mixer[c], cmds[k].vol) <= 1 + lost
      BY <1>1, <1>2, <1>3, <1>4 DEF FirstSet
    <3>1. k \in 1..Len(cmds) /\ SetAt(k, c)
      BY <1>4
    <3>2. NoSet(c, 1..(k - 1))
      BY <1>2, <1>4, <3>1 DEF NoSet
    <3>3. QED
      BY <2>1, <3>1, <3>2 DEF Underway, FirstSet
  <2>3. NextSet(c)'
    <3> SUFFICES ASSUME NEW j \in 1..n, NEW k \in 1..n, j < k, SetAt(j, c)', SetAt(k, c)',
                        NoSet(c, (j + 1)..(k - 1))'
                 PROVE  Distance(cmds[j].vol, cmds[k].vol) <= 1
      BY <1>2, <1>3, <1>4 DEF NextSet
    <3>1. j \in 1..Len(cmds) /\ SetAt(j, c) /\ k \in 1..Len(cmds) /\ SetAt(k, c)
      BY <1>4
    <3>2. NoSet(c, (j + 1)..(k - 1))
      BY <1>2, <1>4, <3>1 DEF NoSet
    <3>3. QED
      BY <2>1, <3>1, <3>2 DEF Underway, NextSet
  <2>4. SetsHead(c)'
    BY <1>1, <1>2, <1>3, <1>4, <1>5, <2>1 DEF Underway, SetsHead, Heads
  <2>5. QED
    BY <2>2, <2>3, <2>4 DEF Underway
<1>7. ASSUME Fading, NEW c \in Channels PROVE LeadsTo(c, volumeSteps[c])'
  <2> DEFINE v == volumeSteps[c]
  <2>1. LeadsTo(c, v) /\ v' = v
    BY <1>1, <1>7 DEF Fade
  <2>2. ASSUME NEW k \in 1..n, SetAt(k, c)', NoSet(c, (k + 1)..Len(cmds))'
        PROVE  cmds[k].vol = v
    <3>1. k \in 1..Len(cmds) /\ SetAt(k, c)
      BY <1>4, <2>2
    <3>2. NoSet(c, (k + 1)..Len(cmds))
      BY <1>2, <1>3, <1>4, <2>2, <3>1 DEF NoSet
    <3>3. QED
      BY <2>1, <3>1, <3>2 DEF LeadsTo
  <2>3. NoSet(c, 1..Len(cmds))' => NoSet(c, 1..Len(cmds))
    BY <1>2, <1>4 DEF NoSet
  <2>4. QED
    BY <1>1, <1>2, <1>3, <1>4, <1>5, <2>1, <2>2, <2>3 DEF LeadsTo, Heads
<1>8. ~Fading => \A c \in Channels : NoSet(c, 1..Len(cmds))'
  BY <1>1, <1>2, <1>3, <1>4 DEF Fade, NoSet
<1>9. QED
  BY <1>1, <1>5, <1>6, <1>7, <1>8 DEF Fade, Channels

LEMMA ReceiveFade ==
    ASSUME TypeOK, OnTime, Fade, ReceiveVolume
    PROVE  Fade'
<1> USE DEF ReceiveVolume
<1>1. /\ cmds' = cmds /\ mixer' = mixer /\ lost' = lost /\ phase' = phase
      /\ RequestedProfile' = RequestedProfile /\ volumeRequest' = volumeRequest
      /\ pc = "await" /\ pc' \in {"query", "control", "verify"}
  BY DEF request, RequestedProfile, AfterLastChannel
<1>2. CASE pc' = "control"
  <2>1. volumeSteps' = volumeState' /\ phase = "before" /\ NumChannels = channel
    BY <1>2 DEF AfterLastChannel
  <2>2. volumeState' = mixer' /\ cmds = <<>>
    BY <2>1, Received
  <2>3. \A c \in Channels : mixer[c] \in Int /\ RequestedProfile[c] \in Int
    BY FadeTypes
  <2>4. \A c \in Channels : Distance(mixer[c], mixer[c]) = 0 /\ Heads(mixer[c], mixer[c], c)
    BY <2>3, Steps DEF Heads
  <2>5. ASSUME NEW c \in Channels PROVE LeadsTo(c, volumeSteps[c])'
    <3>1. volumeSteps'[c] = mixer[c] /\ mixer'[c] = mixer[c] /\ lost' \in Nat
      BY <1>1, <2>1, <2>2, FadeTypes
    <3>2. Heads(mixer[c], mixer[c], c)' /\ Distance(mixer[c], mixer[c]) <= lost'
      BY <1>1, <2>4, <3>1 DEF Heads
    <3>3. \A k \in 1..Len(cmds') : FALSE
      BY <1>1, <2>2
    <3>4. QED
      BY <3>1, <3>2, <3>3 DEF LeadsTo, Heads
  <2>6. \A c \in Channels : Underway(c)'
    BY <1>1, <2>2 DEF Underway, FirstSet, NextSet, SetsHead
  <2>7. volumeRequest' = RequestedProfile'
    BY <1>1 DEF Fade
  <2>8. QED
    BY <1>1, <1>2, <2>5, <2>6, <2>7 DEF Fade, Fading, Channels
<1>3. CASE pc' = "query"
  <2>1. volumeSteps' = volumeSteps
    BY <1>3 DEF AfterLastChannel
  <2>2. QED
    BY <1>1, <1>3, <2>1, StillFade DEF Fading, Reading, Fade
<1>4. CASE pc' = "verify"
  <2>1. volumeSteps' = volumeSteps /\ phase = "after"
    BY <1>4 DEF AfterLastChannel
  <2>2. QED
    BY <1>1, <1>4, <2>1, StillFade DEF Fading, Reading, Fade
<1>5. QED
  BY <1>1, <1>2, <1>3, <1>4

\* One volume further, with a command for it behind the others.
LEMMA StepFade ==
    ASSUME TypeOK, Fade, FadeStep
    PROVE  Fade'
<1>1. PICK c \in Differing :
        LET v == StepToward(volumeSteps[c], volumeRequest[c])
        IN  /\ volumeSteps' = [volumeSteps EXCEPT ![c] = v]
            /\ \/ /\ cmds' = Append(cmds, Set(c, v))
                  /\ channel' = c + 1
                  /\ UNCHANGED <<pc, phase, try, attempt, result>>
               \/ /\ Finish(AC_TX_FAILED)
                  /\ UNCHANGED cmds
            /\ volumeRequest' = [volumeRequest EXCEPT
                  ![c] = GoalAfter(volumeSteps[c], volumeRequest[c])]
  BY DEF FadeStep
<1> DEFINE s == volumeSteps[c]
           v == StepToward(s, volumeRequest[c])
<1>2. /\ pc = "control" /\ mixer' = mixer /\ lost' = lost
      /\ RequestedProfile' = RequestedProfile /\ UNCHANGED request
      /\ volumeRequest = RequestedProfile
  BY DEF FadeStep, Fade, request, RequestedProfile
<1>3. c \in Channels /\ s # volumeRequest[c]
  BY ChannelsAssumption DEF Differing, TypeOK, Channels
<1>4. s \in Volumes /\ RequestedProfile[c] \in Volumes /\ s \in Int /\ v \in Volumes
  BY <1>2, <1>3, FadeTypes, StepType
<1>5. /\ Distance(s, v) = 1 /\ Heads(s, v, c)
      /\ volumeRequest' = RequestedProfile
  <2>1. /\ Distance(s, v) = 1 /\ Heads(s, v, c)
        /\ GoalAfter(s, volumeRequest[c]) = volumeRequest[c]
    BY <1>2, <1>3, <1>4, StepIsGentle DEF Heads
  <2>2. volumeRequest' = volumeRequest
    BY <1>1, <1>3, <2>1 DEF TypeOK, Profile
  <2>3. QED
    BY <1>2, <2>1, <2>2
<1>6. v \in Int
  BY <1>4, VolumeAssumption DEF Volumes
<1>7. volumeSteps'[c] = v /\ \A d \in Channels : d # c => volumeSteps'[d] = volumeSteps[d]
  BY <1>1, <1>3 DEF TypeOK, Profile
<1>8. CASE Finish(AC_TX_FAILED) /\ UNCHANGED cmds
  BY <1>2, <1>8, StillFade DEF Finish, Fading, Reading
<1>9. CASE cmds' = Append(cmds, Set(c, v)) /\ UNCHANGED <<pc, phase>>
  <2> HIDE DEF s, v
  <2>1. Set(c, v) \in Commands /\ cmds \in Seq(Commands)
    BY <1>3, <1>4 DEF Set, Commands, TypeOK
  <2>2. /\ Len(cmds) \in Nat /\ Len(cmds') = Len(cmds) + 1
        /\ \A k \in 1..Len(cmds') : k \in 1..Len(cmds) \/ k = Len(cmds) + 1
        /\ \A k \in 1..Len(cmds) : cmds'[k] = cmds[k] /\ k <= Len(cmds)
        /\ cmds'[Len(cmds) + 1] = Set(c, v)
    BY <1>9, <2>1, Appended
  <2>3. PICK n \in Nat : n = Len(cmds) + 1
    BY <2>2
  <2>4. /\ \A k \in 1..Len(cmds) : \A d : SetAt(k, d)' <=> SetAt(k, d)
        /\ \A d : SetAt(n, d)' <=> d = c
        /\ cmds'[n].vol = v /\ Len(cmds') = n
        /\ \A k \in 1..n : k \in 1..Len(cmds) \/ k = n
        /\ \A k \in 1..Len(cmds) : k < n /\ k # n /\ cmds'[k] = cmds[k]
        /\ n \in 1..n
    BY <2>2, <2>3 DEF SetAt, Set
  <2>5. /\ \A k \in 1..Len(cmds) : cmds[k].vol \in Int
        /\ \A d \in Channels : mixer[d] \in Int /\ RequestedProfile[d] \in Int
        /\ lost \in Nat
    BY FadeTypes
  <2>6. ASSUME NEW d \in Channels PROVE Underway(d)'
    <3>1. Underway(d) /\ LeadsTo(d, volumeSteps[d])
      BY <1>2 DEF Fade, Fading
    <3>2. FirstSet(d)'
      <4> SUFFICES ASSUME NEW k \in 1..n, SetAt(k, d)', NoSet(d, 1..(k - 1))'
                   PROVE  Distance(mixer[d], cmds'[k].vol) <= 1 + lost
        BY <1>2, <2>4 DEF FirstSet
      <4>1. CASE k \in 1..Len(cmds)
        <5>1. SetAt(k, d) /\ NoSet(d, 1..(k - 1))
          BY <2>2, <2>4, <4>1 DEF NoSet
        <5>2. QED
          BY <2>4, <3>1, <4>1, <5>1 DEF Underway, FirstSet
      <4>2. CASE k = n
        <5>1. d = c
          BY <2>4, <4>2
        <5>2. NoSet(c, 1..Len(cmds))
          BY <2>2, <2>3, <2>4, <4>2, <5>1 DEF NoSet
        <5>3. Distance(mixer[c], s) <= lost
          BY <3>1, <5>1, <5>2 DEF LeadsTo, s
        <5>4. Distance(mixer[c], v) <= 1 + lost
          <6>1. Distance(mixer[c], v) <= Distance(mixer[c], s) + Distance(s, v)
            BY <1>3, <1>4, <1>6, <2>5, Steps
          <6>2. Distance(mixer[c], v) \in Nat /\ Distance(mixer[c], s) \in Nat
            BY <1>3, <1>4, <1>6, <2>5, Steps
          <6>3. QED
            BY <1>5, <2>5, <5>3, <6>1, <6>2
        <5>5. QED
          BY <2>4, <4>2, <5>1, <5>4
      <4>3. QED
        BY <2>4, <4>1, <4>2
    <3>3. NextSet(d)'
      <4> SUFFICES ASSUME NEW j \in 1..n, NEW k \in 1..n, j < k, SetAt(j, d)', SetAt(k, d)',
                          NoSet(d, (j + 1)..(k - 1))'
                   PROVE  Distance(cmds'[j].vol, cmds'[k].vol) <= 1
        BY <2>4 DEF NextSet
      <4>1. j \in 1..Len(cmds) /\ SetAt(j, d) /\ cmds'[j] = cmds[j]
        BY <2>2, <2>3, <2>4
      <4>2. CASE k \in 1..Len(cmds)
        <5>1. SetAt(k, d) /\ NoSet(d, (j + 1)..(k - 1))
          BY <2>2, <2>4, <4>1, <4>2 DEF NoSet
        <5>2. QED
          BY <2>4, <3>1, <4>1, <4>2, <5>1 DEF Underway, NextSet
      <4>3. CASE k = n
        <5>1. d = c
          BY <2>4, <4>3
        <5>2. NoSet(d, (j + 1)..Len(cmds))
          BY <2>2, <2>3, <2>4, <4>1, <4>3 DEF NoSet
        <5>3. cmds[j].vol = s
          BY <3>1, <4>1, <5>1, <5>2 DEF LeadsTo, s
        <5>4. QED
          BY <1>5, <2>4, <4>1, <4>3, <5>3
      <4>4. QED
        BY <2>4, <4>2, <4>3
    <3>4. SetsHead(d)'
      <4>1. ASSUME NEW k \in 1..n, SetAt(k, d)'
            PROVE  Heads(mixer[d], cmds'[k].vol, d)
        <5>1. CASE k \in 1..Len(cmds)
          BY <2>4, <3>1, <4>1, <5>1 DEF Underway, SetsHead
        <5>2. CASE k = n
          <6>1. d = c
            BY <2>4, <4>1, <5>2
          <6>2. Heads(mixer[c], s, c)
            BY <3>1, <6>1 DEF LeadsTo, s
          <6>3. Heads(mixer[c], v, c)
            BY <1>3, <1>4, <1>5, <1>6, <2>5, <6>2, Steps DEF Heads
          <6>4. QED
            BY <2>4, <5>2, <6>1, <6>3
        <5>3. QED
          BY <2>4, <5>1, <5>2
      <4>2. ASSUME NEW j \in 1..n, NEW k \in 1..n, j < k, SetAt(j, d)', SetAt(k, d)'
            PROVE  Heads(cmds'[j].vol, cmds'[k].vol, d)
        <5>1. j \in 1..Len(cmds) /\ SetAt(j, d) /\ cmds'[j] = cmds[j]
          BY <2>2, <2>3, <2>4, <4>2
        <5>2. CASE k \in 1..Len(cmds)
          BY <2>4, <3>1, <4>2, <5>1, <5>2 DEF Underway, SetsHead
        <5>3. CASE k = n
          <6>1. d = c
            BY <2>4, <4>2, <5>3
          <6>2. Heads(cmds[j].vol, s, c)
            BY <3>1, <5>1, <6>1 DEF LeadsTo, s
          <6>3. Heads(cmds[j].vol, v, c)
            BY <1>3, <1>4, <1>5, <1>6, <2>5, <5>1, <6>2, Steps DEF Heads
          <6>4. QED
            BY <2>4, <5>1, <5>3, <6>1, <6>3
        <5>4. QED
          BY <2>4, <5>2, <5>3
      <4>3. QED
        BY <1>2, <2>4, <4>1, <4>2 DEF SetsHead, Heads
    <3>5. QED
      BY <3>2, <3>3, <3>4 DEF Underway
  <2>7. ASSUME NEW d \in Channels PROVE LeadsTo(d, volumeSteps[d])'
    <3>1. LeadsTo(d, volumeSteps[d])
      BY <1>2 DEF Fade, Fading
    <3>2. CASE d # c
      <4>1. \A k \in 1..n : SetAt(k, d)' => k \in 1..Len(cmds) /\ SetAt(k, d)
        BY <2>4, <3>2
      <4>2. ASSUME NEW k \in 1..n, SetAt(k, d)', NoSet(d, (k + 1)..Len(cmds))'
            PROVE  NoSet(d, (k + 1)..Len(cmds))
        BY <2>2, <2>4, <4>1, <4>2 DEF NoSet
      <4>3. NoSet(d, 1..Len(cmds))' => NoSet(d, 1..Len(cmds))
        BY <2>2, <2>4 DEF NoSet
      <4>4. volumeSteps'[d] = volumeSteps[d]
        BY <1>7, <3>2
      <4>5. QED
        BY <1>2, <2>4, <3>1, <4>1, <4>2, <4>3, <4>4 DEF LeadsTo, Heads
    <3>3. CASE d = c
      <4>1. ~NoSet(c, 1..Len(cmds))'
        BY <2>4 DEF NoSet
      <4>2. ASSUME NEW k \in 1..n, SetAt(k, c)', NoSet(c, (k + 1)..Len(cmds))'
            PROVE  cmds'[k].vol = v
        <5>1. k = n
          <6> SUFFICES ASSUME k \in 1..Len(cmds) PROVE FALSE
            BY <2>4
          <6>1. n \in (k + 1)..Len(cmds') /\ SetAt(n, c)'
            BY <2>2, <2>3, <2>4
          <6>2. QED
            BY <4>2, <6>1 DEF NoSet
        <5>2. QED
          BY <2>4, <5>1
      <4>3. Heads(mixer[c], v, c)
        BY <1>3, <1>4, <1>5, <1>6, <2>5, <3>1, <3>3, Steps DEF Heads, LeadsTo, s
      <4>4. ASSUME NEW k \in 1..n, SetAt(k, c)' PROVE Heads(cmds'[k].vol, v, c)
        <5>1. CASE k = n
          BY <1>3, <1>6, <2>4, <2>5, <5>1, Steps DEF Heads
        <5>2. CASE k \in 1..Len(cmds)
          <6>1. Heads(cmds[k].vol, s, c)
            BY <2>4, <3>1, <3>3, <4>4, <5>2 DEF LeadsTo, s
          <6>2. QED
            BY <1>3, <1>4, <1>5, <1>6, <2>4, <2>5, <5>2, <6>1, Steps DEF Heads
        <5>3. QED
          BY <2>4, <5>1, <5>2
      <4>5. QED
        BY <1>2, <1>7, <2>4, <3>3, <4>1, <4>2, <4>3, <4>4 DEF LeadsTo, Heads
    <3>4. QED
      BY <3>2, <3>3
  <2>8. QED
    BY <1>2, <1>5, <1>9, <2>6, <2>7 DEF Fade, Fading, Channels
<1>10. QED
  BY <1>1, <1>8, <1>9

\* The oldest command is carried out or lost: if it sets the channel, the mixer
\* is one command further or the way to the next command longer.
LEMMA ServedFade ==
    ASSUME TypeOK, Fade, Environment
    PROVE  Fade'
<1>1. /\ cmds # <<>> /\ cmds \in Seq(Commands) /\ cmds' = Tail(cmds)
      /\ UNCHANGED <<request, control, volumes>>
  BY DEF Environment, MixerAnswers, MixerSets, LoseCommand, GarbleAnswer, TypeOK
<1>2. PICK n \in Nat : n = Len(cmds')
  BY <1>1
<1>3. /\ Len(cmds) = n + 1 /\ cmds[1] = Head(cmds) /\ Head(cmds) \in Commands
      /\ \A k \in 1..n : cmds'[k] = cmds[k + 1] /\ k + 1 \in 1..Len(cmds)
      /\ 1 \in 1..Len(cmds)
      /\ \A k \in 1..Len(cmds) : k = 1 \/ (k - 1 \in 1..n /\ k = (k - 1) + 1)
  BY <1>1, <1>2
<1>4. /\ pc' = pc /\ phase' = phase /\ volumeSteps' = volumeSteps
      /\ volumeRequest' = volumeRequest /\ RequestedProfile' = RequestedProfile
      /\ (Fading' <=> Fading)
  BY <1>1 DEF control, volumes, request, RequestedProfile, Fading, Reading
<1>5. \A k \in 1..n : \A c : SetAt(k, c)' <=> SetAt(k + 1, c)
  BY <1>3 DEF SetAt
<1>6. /\ \A k \in 1..Len(cmds) : cmds[k].vol \in Int
      /\ \A c \in Channels : mixer[c] \in Int /\ volumeSteps[c] \in Int
                             /\ RequestedProfile[c] \in Int
      /\ lost \in Nat
  BY FadeTypes
<1>7. ASSUME NEW c \in Channels
      PROVE  \/ ~SetAt(1, c) /\ mixer'[c] = mixer[c] /\ lost' \in {lost, lost + 1}
             \/ SetAt(1, c) /\ mixer'[c] = cmds[1].vol /\ lost' = lost
             \/ SetAt(1, c) /\ mixer'[c] = mixer[c] /\ lost' = lost + 1
  <2>1. CASE MixerAnswers
    BY <1>3, <2>1 DEF MixerAnswers, SetAt
  <2>2. CASE MixerSets
    BY <1>3, <2>2 DEF MixerSets, SetAt, TypeOK, Profile
  <2>3. CASE LoseCommand \/ GarbleAnswer
    BY <2>3 DEF LoseCommand, GarbleAnswer
  <2>4. QED
    BY <2>1, <2>2, <2>3 DEF Environment
\* From the first of the commands to the others.
<1>8. ASSUME NEW c \in Channels, SetAt(1, c), NEW k \in 1..n, SetAt(k, c)'
      PROVE  /\ Heads(cmds[1].vol, cmds[k + 1].vol, c)
             /\ NoSet(c, 1..(k - 1))' => Distance(cmds[1].vol, cmds[k + 1].vol) <= 1
  <2>1. SetAt(k + 1, c) /\ 1 < k + 1 /\ k + 1 \in 1..Len(cmds) /\ Underway(c)
    BY <1>3, <1>5, <1>8 DEF Fade
  <2>2. Heads(cmds[1].vol, cmds[k + 1].vol, c)
    BY <1>3, <1>8, <2>1 DEF Underway, SetsHead
  <2>3. ASSUME NoSet(c, 1..(k - 1))' PROVE NoSet(c, (1 + 1)..((k + 1) - 1))
    <3> SUFFICES ASSUME NEW i \in 2..k PROVE ~SetAt(i, c)
      BY DEF NoSet
    <3>1. i - 1 \in 1..(k - 1) /\ i - 1 \in 1..n /\ (i - 1) + 1 = i
      OBVIOUS
    <3>2. ~SetAt(i - 1, c)'
      BY <2>3, <3>1 DEF NoSet
    <3>3. QED
      BY <1>5, <3>1, <3>2
  <2>4. QED
    BY <1>3, <1>8, <2>1, <2>2, <2>3 DEF Underway, NextSet
<1>9. ASSUME NEW c \in Channels PROVE Underway(c)'
  <2>1. Underway(c)
    BY DEF Fade
  <2>2. FirstSet(c)'
    <3> SUFFICES ASSUME NEW k \in 1..n, SetAt(k, c)', NoSet(c, 1..(k - 1))'
                 PROVE  Distance(mixer'[c], cmds[k + 1].vol) <= 1 + lost'
      BY <1>2, <1>3 DEF FirstSet
    <3>1. SetAt(k + 1, c) /\ k + 1 \in 1..Len(cmds)
      BY <1>3, <1>5
    <3>2. CASE ~SetAt(1, c)
      <4>1. NoSet(c, 1..((k + 1) - 1))
        <5> SUFFICES ASSUME NEW i \in 1..k, i # 1 PROVE ~SetAt(i, c)
          BY <3>2 DEF NoSet
        <5>1. i - 1 \in 1..(k - 1) /\ i - 1 \in 1..n /\ (i - 1) + 1 = i
          OBVIOUS
        <5>2. ~SetAt(i - 1, c)'
          BY <5>1 DEF NoSet
        <5>3. QED
          BY <1>5, <5>1, <5>2
      <4>2. Distance(mixer[c], cmds[k + 1].vol) <= 1 + lost
        BY <2>1, <3>1, <4>1 DEF Underway, FirstSet
      <4>3. Distance(mixer[c], cmds[k + 1].vol) \in Nat
        BY <1>6, <3>1, Steps
      <4>4. mixer'[c] = mixer[c] /\ lost' \in {lost, lost + 1}
        BY <1>7, <3>2
      <4>5. QED
        BY <1>6, <4>2, <4>3, <4>4
    <3>3. CASE SetAt(1, c)
      <4>1. Distance(cmds[1].vol, cmds[k + 1].vol) <= 1
        BY <1>8, <3>3
      <4>2. Distance(mixer[c], cmds[1].vol) <= 1 + lost
        BY <1>3, <2>1, <3>3 DEF Underway, FirstSet, NoSet
      <4>3. /\ Distance(mixer[c], cmds[k + 1].vol)
                 <= Distance(mixer[c], cmds[1].vol) + Distance(cmds[1].vol, cmds[k + 1].vol)
            /\ Distance(mixer[c], cmds[1].vol) \in Nat
            /\ Distance(cmds[1].vol, cmds[k + 1].vol) \in Nat
            /\ Distance(mixer[c], cmds[k + 1].vol) \in Nat
        BY <1>3, <1>6, <3>1, Steps
      <4>4. QED
        BY <1>6, <1>7, <3>3, <4>1, <4>2, <4>3
    <3>4. QED
      BY <3>2, <3>3
  <2>3. NextSet(c)'
    <3> SUFFICES ASSUME NEW j \in 1..n, NEW k \in 1..n, j < k, SetAt(j, c)', SetAt(k, c)',
                        NoSet(c, (j + 1)..(k - 1))'
                 PROVE  Distance(cmds[j + 1].vol, cmds[k + 1].vol) <= 1
      BY <1>2, <1>3 DEF NextSet
    <3>1. /\ SetAt(j + 1, c) /\ SetAt(k + 1, c) /\ j + 1 < k + 1
          /\ j + 1 \in 1..Len(cmds) /\ k + 1 \in 1..Len(cmds)
      BY <1>3, <1>5
    <3>2. NoSet(c, ((j + 1) + 1)..((k + 1) - 1))
      <4> SUFFICES ASSUME NEW i \in (j + 2)..k PROVE ~SetAt(i, c)
        BY DEF NoSet
      <4>1. i - 1 \in (j + 1)..(k - 1) /\ i - 1 \in 1..n /\ (i - 1) + 1 = i
        OBVIOUS
      <4>2. ~SetAt(i - 1, c)'
        BY <4>1 DEF NoSet
      <4>3. QED
        BY <1>5, <4>1, <4>2
    <3>3. QED
      BY <2>1, <3>1, <3>2 DEF Underway, NextSet
  <2>4. SetsHead(c)'
    <3>1. ASSUME NEW k \in 1..n, SetAt(k, c)' PROVE Heads(mixer'[c], cmds[k + 1].vol, c)
      <4>1. SetAt(k + 1, c) /\ k + 1 \in 1..Len(cmds)
        BY <1>3, <1>5, <3>1
      <4>2. Heads(mixer[c], cmds[k + 1].vol, c)
        BY <2>1, <4>1 DEF Underway, SetsHead
      <4>3. QED
        BY <1>7, <1>8, <3>1, <4>2
    <3>2. ASSUME NEW j \in 1..n, NEW k \in 1..n, j < k, SetAt(j, c)', SetAt(k, c)'
          PROVE  Heads(cmds[j + 1].vol, cmds[k + 1].vol, c)
      <4>1. /\ SetAt(j + 1, c) /\ SetAt(k + 1, c) /\ j + 1 < k + 1
            /\ j + 1 \in 1..Len(cmds) /\ k + 1 \in 1..Len(cmds)
        BY <1>3, <1>5, <3>2
      <4>2. QED
        BY <2>1, <4>1 DEF Underway, SetsHead
    <3>3. QED
      BY <1>2, <1>3, <1>4, <3>1, <3>2 DEF SetsHead, Heads
  <2>5. QED
    BY <2>2, <2>3, <2>4 DEF Underway
<1>10. ASSUME Fading, NEW c \in Channels PROVE LeadsTo(c, volumeSteps[c])'
  <2> DEFINE v == volumeSteps[c]
  <2>1. LeadsTo(c, v) /\ volumeSteps'[c] = v
    BY <1>4, <1>10 DEF Fade
  <2> HIDE DEF v
  <2>2. ASSUME NEW k \in 1..n, SetAt(k, c)'
        PROVE  /\ Heads(cmds[k + 1].vol, v, c)
               /\ NoSet(c, (k + 1)..Len(cmds))' => cmds[k + 1].vol = v
    <3>1. SetAt(k + 1, c) /\ k + 1 \in 1..Len(cmds)
      BY <1>3, <1>5, <2>2
    <3>2. ASSUME NoSet(c, (k + 1)..Len(cmds))' PROVE NoSet(c, ((k + 1) + 1)..Len(cmds))
      <4> SUFFICES ASSUME NEW i \in (k + 2)..Len(cmds) PROVE ~SetAt(i, c)
        BY DEF NoSet
      <4>1. i - 1 \in (k + 1)..n /\ i - 1 \in 1..n /\ (i - 1) + 1 = i
        BY <1>3
      <4>2. ~SetAt(i - 1, c)'
        BY <1>2, <3>2, <4>1 DEF NoSet
      <4>3. QED
        BY <1>5, <4>1, <4>2
    <3>3. QED
      BY <2>1, <3>1, <3>2 DEF LeadsTo
  <2>3. NoSet(c, 1..Len(cmds))' /\ ~SetAt(1, c) => NoSet(c, 1..Len(cmds))
    <3> SUFFICES ASSUME NoSet(c, 1..Len(cmds))', NEW i \in 1..Len(cmds), i # 1
                 PROVE  ~SetAt(i, c)
      BY DEF NoSet
    <3>1. i - 1 \in 1..n /\ (i - 1) + 1 = i
      BY <1>3
    <3>2. ~SetAt(i - 1, c)'
      BY <1>2, <3>1 DEF NoSet
    <3>3. QED
      BY <1>5, <3>1, <3>2
  <2>4. NoSet(c, 1..Len(cmds))' /\ SetAt(1, c) => cmds[1].vol = v
    <3> SUFFICES ASSUME NoSet(c, 1..Len(cmds))', SetAt(1, c) PROVE cmds[1].vol = v
      OBVIOUS
    <3>1. NoSet(c, (1 + 1)..Len(cmds))
      <4> SUFFICES ASSUME NEW i \in 2..Len(cmds) PROVE ~SetAt(i, c)
        BY DEF NoSet
      <4>1. i - 1 \in 1..n /\ (i - 1) + 1 = i
        BY <1>3
      <4>2. ~SetAt(i - 1, c)'
        BY <1>2, <4>1 DEF NoSet
      <4>3. QED
        BY <1>5, <4>1, <4>2
    <3>2. QED
      BY <1>3, <2>1, <3>1 DEF LeadsTo
  <2>5. v \in Int
    BY <1>6 DEF v
  <2>6. NoSet(c, 1..Len(cmds))' => Distance(mixer'[c], v) <= lost'
    <3> SUFFICES ASSUME NoSet(c, 1..Len(cmds))' PROVE Distance(mixer'[c], v) <= lost'
      OBVIOUS
    <3>1. CASE ~SetAt(1, c)
      <4>1. Distance(mixer[c], v) <= lost
        BY <2>1, <2>3, <3>1 DEF LeadsTo
      <4>2. Distance(mixer[c], v) \in Nat
        BY <1>6, <2>5, Steps
      <4>3. QED
        BY <1>6, <1>7, <3>1, <4>1, <4>2
    <3>2. CASE SetAt(1, c)
      <4>1. cmds[1].vol = v /\ Distance(v, v) = 0
        BY <2>4, <2>5, <3>2, Steps
      <4>2. Distance(mixer[c], v) <= 1 + lost
        BY <1>3, <3>2, <4>1 DEF Fade, Underway, FirstSet, NoSet
      <4>3. Distance(mixer[c], v) \in Nat
        BY <1>6, <2>5, Steps
      <4>4. QED
        BY <1>6, <1>7, <3>2, <4>1, <4>2, <4>3
    <3>3. QED
      BY <3>1, <3>2
  <2>7. Heads(mixer'[c], v, c)
    BY <1>3, <1>7, <2>1 DEF LeadsTo
  <2>8. QED
    BY <1>2, <1>3, <1>4, <2>1, <2>2, <2>6, <2>7 DEF LeadsTo, Heads
<1>11. ~Fading /\ pc # "done" => \A c \in Channels : NoSet(c, 1..Len(cmds))'
  BY <1>2, <1>3, <1>5 DEF Fade, NoSet
<1>12. QED
  BY <1>4, <1>9, <1>10, <1>11 DEF Fade, Channels

\* Nothing that went wrong in time is undone.
LEMMA LateStays == [Next]_vars /\ ~late' => ~late
  BY DEF Next, Program, Environment, vars, RefuseIndex, PortUnavailable, BeginProfile,
     SendQuery, QueryFails, ReceiveVolume, RejectResponse, ReadTimeout, ReadError,
     FadeStep, EndRound, FadeTimeout, Verify, MixerAnswers, MixerSets, LoseCommand,
     GarbleAnswer

\* The steps of the program that leave the line, the mixer and the fade alone.
LEMMA QuietFade ==
    ASSUME TypeOK, OnTime, Fade,
           \/ RefuseIndex \/ PortUnavailable \/ BeginProfile \/ QueryFails
           \/ RejectResponse \/ ReadTimeout \/ ReadError \/ EndRound \/ FadeTimeout
           \/ Verify \/ UNCHANGED vars
    PROVE  Fade'
<1>1. /\ cmds' = cmds /\ mixer' = mixer /\ lost' = lost /\ UNCHANGED request
      /\ volumeSteps' = volumeSteps
  BY DEF RefuseIndex, PortUnavailable, BeginProfile, QueryFails, RejectResponse, ReadTimeout,
     ReadError, EndRound, FadeTimeout, Verify, vars, volumes, line
<1>2. /\ Fading' => Fading
      /\ ~Fading' /\ pc' # "done" => \A c \in Channels : NoSet(c, 1..Len(cmds))
      /\ pc' = "start" => phase' = "before"
      /\ pc' \notin {"start", "done"} => volumeRequest' = RequestedProfile
  <2>1. CASE RefuseIndex \/ PortUnavailable \/ QueryFails \/ ReadError \/ FadeTimeout
    BY <2>1 DEF RefuseIndex, PortUnavailable, QueryFails, ReadError, FadeTimeout, Finish,
       Fading, Reading
  <2>2. CASE BeginProfile
    BY <2>2 DEF BeginProfile, Fading, Reading, Fade
  <2>3. CASE RejectResponse \/ ReadTimeout
    BY <2>3 DEF RejectResponse, ReadTimeout, RetryOrFinish, Finish, Fading, Reading, Fade,
       volumes
  <2>4. CASE EndRound
    BY <2>4 DEF EndRound, Fading, Reading, Fade
  <2>5. CASE Verify
    <3>1. pc = "verify" /\ volumeRequest' = volumeRequest
      BY <2>5 DEF Verify
    <3>2. CASE Retry
      <4>1. cmds = <<>>
        BY <3>1 DEF OnTime, SettledWhenCompared
      <4>2. QED
        BY <3>1, <3>2, <4>1 DEF Retry, Fading, Reading, Fade, NoSet
    <3>3. CASE pc' = "done"
      BY <3>3 DEF Fading, Reading
    <3>4. QED
      BY <2>5, <3>2, <3>3 DEF Verify, Accept, Finish
  <2>6. CASE UNCHANGED vars
    BY <2>6 DEF vars, control, volumes, Fading, Reading, Fade
  <2>7. QED
    BY <2>1, <2>2, <2>3, <2>4, <2>5, <2>6
<1>3. QED
  BY <1>1, <1>2, StillFade

LEMMA NextFade == TypeOK /\ OnTimeInv /\ FadeInv /\ [Next]_vars => FadeInv'
<1> SUFFICES ASSUME TypeOK, OnTimeInv, FadeInv, [Next]_vars, ~late' PROVE Fade'
  BY DEF FadeInv
<1>1. OnTime /\ Fade
  BY LateStays DEF OnTimeInv, OnTime, FadeInv
<1>2. QED
  BY <1>1, QuietFade, AskFade, ReceiveFade, StepFade, ServedFade DEF Next, Program

\* On a punctual line and for any number of channels, profiles and lost messages:
\* the volume of a channel only moves toward the one requested, one volume at a
\* time, or by one more for each message lost on the way.
THEOREM FadeIsGentle == Spec => GentleFade
<1> DEFINE Step == \A c \in Channels : ~late /\ mixer'[c] # mixer[c] =>
                     /\ Toward(mixer[c], mixer'[c], RequestedProfile[c])
                     /\ Distance(mixer[c], mixer'[c]) <= 1 + lost
<1>1. TypeOK /\ FadeInv /\ [Next]_vars => [Step]_vars
  <2> SUFFICES ASSUME TypeOK, FadeInv, Next, NEW c \in Channels, ~late,
                      mixer'[c] # mixer[c]
               PROVE  /\ Toward(mixer[c], mixer'[c], RequestedProfile[c])
                      /\ Distance(mixer[c], mixer'[c]) <= 1 + lost
    OBVIOUS
  <2>1. MixerSets
    BY DEF Next, Program, Environment, RefuseIndex, PortUnavailable, BeginProfile,
       SendQuery, QueryFails, ReceiveVolume, RejectResponse, ReadTimeout, ReadError,
       FadeStep, EndRound, FadeTimeout, Verify, MixerAnswers, LoseCommand, GarbleAnswer,
       line
  <2>2. /\ Head(cmds) = cmds[1] /\ 1 \in 1..Len(cmds)
        /\ mixer'[c] = cmds[1].vol /\ SetAt(1, c)
    <3>1. cmds # <<>> /\ cmds \in Seq(Commands)
      BY <2>1 DEF MixerSets, TypeOK
    <3>2. Head(cmds) = cmds[1] /\ 1 \in 1..Len(cmds)
      BY <3>1
    <3>3. QED
      BY <2>1, <3>2 DEF MixerSets, SetAt, TypeOK, Profile
  <2>3. Underway(c)
    BY DEF FadeInv, Fade
  <2>4. QED
    BY <2>2, <2>3 DEF Underway, FirstSet, SetsHead, Heads, NoSet
<1>2. [Step]_vars => [\A c \in Channels : ~late /\ mixer'[c] # mixer[c] =>
                     /\ Toward(mixer[c], mixer'[c], RequestedProfile[c])
                     /\ Distance(mixer[c], mixer'[c]) <= 1 + lost]_vars
  OBVIOUS
<1> HIDE DEF Step
<1>3. Spec => [][Step]_vars
  BY <1>1, InitType, NextType, InitOnTime, NextOnTime, InitFade, NextFade, PTL DEF Spec
<1>4. QED
  BY <1>2, <1>3, PTL DEF GentleFade

-----------------------------------------------------------------------------
(* What one lost message can do on a punctual line.  Every setback of the  *)
(* call has a message of its own that was lost: the attempt of a read or   *)
(* of the profile that is over, the answer that will not come, the volume  *)
(* the mixer will not have.                                                *)

Unanswered == pc = "await" /\ cmds = <<>> /\ (rx = <<>> \/ rx[1].ch = 0)
Missing(c) == mixer[c] # volumeSteps[c] /\ NoSet(c, 1..Len(cmds))
Missed     == Fading /\ \E c \in Channels : Missing(c)
Count(p)   == IF p THEN 1 ELSE 0
Setbacks   == (try - 1) + (attempt - 1) + Count(Unanswered) + Count(Missed)

\* A round that did not step leaves nothing to do, and only then the profile is
\* read again.
RoundsSettle ==
    /\ pc = "control" /\ ~faded =>
          \A d \in 1..(channel - 1) : volumeSteps[d] = volumeRequest[d]
    /\ pc # "control" /\ Fading => volumeSteps = volumeRequest

SoftErrors == Codes \ (HardErrors \cup {AC_SUCCESS})

Losses ==
    /\ pc # "done" => Setbacks <= lost
    /\ pc = "await" /\ cmds # <<>> => cmds[Len(cmds)].op = "get"
    /\ RoundsSettle
    /\ pc = "done" /\ result \in SoftErrors => lost >= 2

LossInv == ~late => Losses

LEMMA SoftCodes ==
    SoftErrors = {AC_RX_TIMEOUT, AC_INVALID_RESPONSE, AC_PROFILE_VERIFY_FAILED}
  BY DEF SoftErrors, Codes, HardErrors, AC_SUCCESS, AC_COM_FAILED, AC_TX_FAILED,
     AC_RX_FAILED, AC_OUT_OF_RANGE, AC_RX_TIMEOUT, AC_INVALID_RESPONSE,
     AC_PROFILE_VERIFY_FAILED

LEMMA Counts ==
    /\ \A p : Count(p) \in {0, 1}
    /\ \A p : p => Count(p) = 1
    /\ \A p : ~p => Count(p) = 0
    /\ TypeOK => try \in {1, 2} /\ attempt \in {1, 2} /\ lost \in Nat
<1>1. TypeOK => try \in {1, 2} /\ attempt \in {1, 2} /\ lost \in Nat
  BY LostAssumption DEF TypeOK, AC_VOLUME_MAX_ATTEMPTS, AC_PROFILE_MAX_ATTEMPTS
<1>2. QED
  BY <1>1 DEF Count

LEMMA InitLoss == Init => LossInv
<1> SUFFICES ASSUME Init PROVE Losses
  BY DEF LossInv
<1>1. pc = "start" /\ phase = "before" /\ lost = 0 /\ try = 1 /\ attempt = 1
  BY DEF Init
<1>2. Count(Unanswered) = 0 /\ Count(Missed) = 0
  BY <1>1 DEF Count, Unanswered, Missed, Fading, Reading
<1>3. QED
  BY <1>1, <1>2 DEF Losses, Setbacks, RoundsSettle, Fading, Reading

\* The end that a hard error makes.
LEMMA HardLoss ==
    ASSUME NEW code \in HardErrors \cup {AC_SUCCESS}, Finish(code)
    PROVE  Losses'
  BY DEF Finish, Losses, RoundsSettle, Fading, Reading, SoftErrors

LEMMA StartLoss ==
    ASSUME TypeOK, Fade, Losses, RefuseIndex \/ PortUnavailable \/ BeginProfile
    PROVE  Losses'
<1>1. CASE RefuseIndex \/ PortUnavailable
  BY <1>1, HardLoss DEF RefuseIndex, PortUnavailable, HardErrors
<1>2. CASE BeginProfile
  <2>1. /\ pc' = "query" /\ phase' = "before" /\ pc = "start"
        /\ try' = try /\ attempt' = attempt /\ lost' = lost
    BY <1>2 DEF BeginProfile, Fade, line
  <2>2. Count(Unanswered)' = 0 /\ Count(Missed)' = 0
    BY <2>1 DEF Count, Unanswered, Missed, Fading, Reading
  <2>3. Setbacks' <= lost'
    BY <2>1, <2>2, Counts DEF Losses, Setbacks
  <2>4. QED
    BY <2>1, <2>3 DEF Losses, RoundsSettle, Fading, Reading
<1>3. QED
  BY <1>1, <1>2

\* A setback more needs a loss more; without either the count stays.
LEMMA CountLoss ==
    ASSUME TypeOK, Losses, pc # "done", try' = try, attempt' = attempt, lost' = lost,
           Unanswered' => Unanswered, Missed' => Missed
    PROVE  Setbacks' <= lost'
<1>1. Setbacks <= lost
  BY DEF Losses
<1>2. Count(Unanswered)' <= Count(Unanswered) /\ Count(Missed)' <= Count(Missed)
  BY DEF Count
<1>3. /\ Count(Unanswered) \in Int /\ Count(Missed) \in Int
      /\ Count(Unanswered)' \in Int /\ Count(Missed)' \in Int
  BY DEF Count
<1>4. QED
  BY <1>1, <1>2, <1>3, Counts DEF Setbacks

LEMMA AskLoss ==
    ASSUME TypeOK, Losses, SendQuery
    PROVE  Losses'
<1> USE DEF SendQuery
<1>1. /\ pc = "query" /\ pc' = "await"
      /\ UNCHANGED <<phase, channel, try, attempt, volumeSteps, volumeRequest, mixer, lost>>
      /\ cmds \in Seq(Commands) /\ Get(channel) \in Commands
  BY VolumeAssumption DEF volumes, TypeOK, Get, Commands, Volumes
<1>2. /\ Len(cmds) \in Nat /\ Len(cmds') = Len(cmds) + 1
      /\ \A k \in 1..Len(cmds) : cmds'[k] = cmds[k] /\ k <= Len(cmds)
      /\ cmds'[Len(cmds) + 1] = Get(channel)
  BY <1>1, Appended
<1>3. cmds'[Len(cmds')].op = "get" /\ cmds' # <<>>
  BY <1>2 DEF Get
<1>4. Fading' <=> Fading
  BY <1>1 DEF Fading, Reading
<1>5. Missed' => Missed
  BY <1>1, <1>2, <1>4 DEF Missed, Missing, NoSet, SetAt
<1>6. ~Unanswered'
  BY <1>3 DEF Unanswered
<1>7. Setbacks' <= lost'
  BY <1>1, <1>5, <1>6, CountLoss
<1>8. QED
  BY <1>1, <1>3, <1>4, <1>7 DEF Losses, RoundsSettle

\* An answer that is accepted ends the attempts of its channel.
LEMMA ReceiveLoss ==
    ASSUME TypeOK, OnTime, Losses, ReceiveVolume
    PROVE  Losses'
<1> USE DEF ReceiveVolume
<1>1. /\ pc = "await" /\ pc' \in {"query", "control", "verify"} /\ try' = 1
      /\ UNCHANGED <<phase, attempt, volumeRequest, mixer, lost>>
      /\ cmds = <<>> /\ cmds' = <<>>
  BY Received DEF AfterLastChannel
<1>2. Setbacks <= lost
  BY <1>1 DEF Losses
<1>3. ~Unanswered'
  BY <1>1 DEF Unanswered
<1>4. Missed' => Missed
  <2>1. CASE pc' = "control"
    <3>1. volumeSteps' = mixer'
      BY <2>1, Received DEF AfterLastChannel
    <3>2. QED
      BY <3>1 DEF Missed, Missing
  <2>2. CASE pc' # "control"
    <3>1. volumeSteps' = volumeSteps /\ (Fading' => Fading)
      BY <1>1, <2>2 DEF AfterLastChannel, Fading, Reading
    <3>2. QED
      BY <1>1, <3>1 DEF Missed, Missing, NoSet, SetAt
  <2>3. QED
    BY <2>1, <2>2
<1>5. Count(Missed)' <= Count(Missed) /\ Count(Unanswered)' = 0
  BY <1>3, <1>4 DEF Count
<1>6. /\ Count(Unanswered) \in Nat /\ Count(Missed) \in Nat
      /\ Count(Unanswered)' \in Nat /\ Count(Missed)' \in Nat
  BY DEF Count
<1>7. Setbacks' <= lost'
  BY <1>1, <1>2, <1>5, <1>6, Counts DEF Setbacks
<1>8. RoundsSettle'
  <2>1. CASE pc' = "control"
    <3>1. channel' = 1
      BY <2>1
    <3>2. QED
      BY <2>1, <3>1 DEF RoundsSettle
  <2>2. CASE pc' # "control"
    <3>1. volumeSteps' = volumeSteps /\ (Fading' => Fading)
      BY <1>1, <2>2 DEF AfterLastChannel, Fading, Reading
    <3>2. QED
      BY <1>1, <2>2, <3>1 DEF Losses, RoundsSettle
  <2>3. QED
    BY <2>1, <2>2
<1>9. QED
  BY <1>1, <1>7, <1>8 DEF Losses

\* A read is given up in time only if its question or its answer was lost: either
\* a first attempt is over, or the last one, and then two messages were lost.
LEMMA AwaitLoss ==
    ASSUME TypeOK, OnTime, Losses, RejectResponse \/ ReadTimeout \/ ReadError, ~late'
    PROVE  Losses'
<1>1. CASE ReadError
  BY <1>1, HardLoss DEF ReadError, HardErrors
<1>2. ASSUME NEW code \in Codes, code # AC_PROFILE_VERIFY_FAILED, pc = "await",
             RetryOrFinish(code), cmds = <<>>, Unanswered,
             UNCHANGED <<volumes, line>>
      PROVE  Losses'
  <2>1. Setbacks <= lost /\ Count(Unanswered) = 1 /\ Count(Missed) \in Nat
    BY <1>2 DEF Losses, Count
  <2>2. /\ cmds' = cmds /\ mixer' = mixer /\ lost' = lost /\ volumeSteps' = volumeSteps
        /\ volumeRequest' = volumeRequest
    BY <1>2 DEF volumes, line
  <2>3. CASE Finish(code)
    <3>1. CASE try = 1
      BY <1>2, <2>1, <2>3, <3>1 DEF RetryOrFinish, AC_VOLUME_MAX_ATTEMPTS, Finish, TypeOK
    <3>2. CASE try = 2
      <4>1. lost >= 2
        BY <2>1, <3>2, Counts DEF Setbacks
      <4>2. QED
        BY <2>2, <2>3, <4>1 DEF Finish, Losses, RoundsSettle, Fading, Reading
    <3>3. QED
      BY <3>1, <3>2, Counts
  <2>4. CASE ~Finish(code)
    <3>1. /\ pc' = "query" /\ try' = try + 1
          /\ UNCHANGED <<phase, channel, attempt>>
      BY <1>2, <2>4 DEF RetryOrFinish
    <3>2. Fading' <=> Fading
      BY <1>2, <3>1 DEF Fading, Reading
    <3>3. ~Unanswered' /\ (Missed' <=> Missed)
      BY <2>2, <3>1, <3>2 DEF Unanswered, Missed, Missing, NoSet, SetAt
    <3>4. Count(Unanswered)' = 0 /\ Count(Missed)' = Count(Missed)
      BY <3>3 DEF Count
    <3>5. Setbacks' <= lost'
      BY <2>1, <2>2, <3>1, <3>4, Counts DEF Setbacks
    <3>6. QED
      BY <1>2, <2>2, <3>1, <3>2, <3>5 DEF Losses, RoundsSettle
  <2>5. QED
    BY <2>3, <2>4
<1>3. AC_INVALID_RESPONSE \in Codes /\ AC_RX_TIMEOUT \in Codes
      /\ AC_INVALID_RESPONSE # AC_PROFILE_VERIFY_FAILED
      /\ AC_RX_TIMEOUT # AC_PROFILE_VERIFY_FAILED
  BY DEF Codes, AC_INVALID_RESPONSE, AC_RX_TIMEOUT, AC_PROFILE_VERIFY_FAILED
<1>4. CASE RejectResponse
  <2>1. cmds = <<>> /\ pc = "await" /\ rx # <<>> /\ ~Parses(rx, channel)
    BY <1>4, Zenon DEF RejectResponse
  <2>2. Len(rx) = 1 /\ (rx[1].ch # 0 => rx[1].ch = channel)
    BY <2>1 DEF OnTime, AnswerIsCurrent
  <2>3. Head(rx) = rx[1]
    BY <2>2, OneAnswer DEF TypeOK
  <2>4. rx[1].ch = 0
    BY <2>1, <2>2, <2>3 DEF Parses
  <2>5. Unanswered
    BY <2>1, <2>4 DEF Unanswered
  <2>6. QED
    BY <1>2, <1>3, <1>4, <2>1, <2>5 DEF RejectResponse
<1>5. CASE ReadTimeout
  <2>1. cmds = <<>> /\ pc = "await" /\ rx = <<>>
    BY <1>5, Zenon DEF ReadTimeout
  <2>2. Unanswered
    BY <2>1 DEF Unanswered
  <2>3. QED
    BY <1>2, <1>3, <1>5, <2>1, <2>2 DEF ReadTimeout
<1>6. QED
  BY <1>1, <1>4, <1>5

LEMMA ControlLoss ==
    ASSUME TypeOK, Fade, Losses, FadeStep \/ EndRound \/ FadeTimeout, ~late'
    PROVE  Losses'
<1>1. CASE FadeStep
  <2>1. PICK c \in Differing :
          LET v == StepToward(volumeSteps[c], volumeRequest[c])
          IN  /\ volumeSteps' = [volumeSteps EXCEPT ![c] = v]
              /\ \/ /\ cmds' = Append(cmds, Set(c, v))
                    /\ channel' = c + 1
                    /\ UNCHANGED <<pc, phase, try, attempt, result>>
                 \/ /\ Finish(AC_TX_FAILED)
                    /\ UNCHANGED cmds
    BY <1>1 DEF FadeStep
  <2> DEFINE v == StepToward(volumeSteps[c], volumeRequest[c])
  <2>2. CASE Finish(AC_TX_FAILED)
    BY <2>2, HardLoss DEF HardErrors
  <2>3. CASE cmds' = Append(cmds, Set(c, v)) /\ UNCHANGED <<pc, phase, try, attempt, result>>
    <3>1. /\ pc = "control" /\ faded' /\ mixer' = mixer /\ lost' = lost
      BY <1>1 DEF FadeStep
    <3>2. c \in Channels /\ volumeSteps[c] \in Volumes /\ volumeRequest[c] \in Volumes
      BY ChannelsAssumption DEF Differing, TypeOK, Channels, Profile
    <3>3. Set(c, v) \in Commands /\ cmds \in Seq(Commands)
      BY <3>2, StepType DEF Set, Commands, TypeOK
    <3>4. /\ Len(cmds) \in Nat /\ Len(cmds') = Len(cmds) + 1
          /\ \A k \in 1..Len(cmds) : cmds'[k] = cmds[k] /\ k <= Len(cmds)
          /\ cmds'[Len(cmds) + 1] = Set(c, v)
      <4> HIDE DEF v
      <4>1. QED
        BY <2>3, <3>3, Appended
    <3>5. \A d \in Channels : Missing(d)' => Missing(d)
      <4> SUFFICES ASSUME NEW d \in Channels, Missing(d)' PROVE Missing(d)
        OBVIOUS
      <4>1. d # c
        <5> SUFFICES ASSUME d = c PROVE FALSE
          OBVIOUS
        <5>1. PICK n \in Nat : n = Len(cmds) + 1
          BY <3>4
        <5>2. n \in 1..Len(cmds') /\ SetAt(n, c)'
          BY <3>4, <5>1 DEF SetAt, Set
        <5>3. QED
          BY <5>2 DEF Missing, NoSet
      <4>2. volumeSteps'[d] = volumeSteps[d]
        BY <2>1, <4>1 DEF TypeOK, Profile
      <4>3. NoSet(d, 1..Len(cmds))
        BY <3>4 DEF Missing, NoSet, SetAt
      <4>4. QED
        BY <3>1, <4>2, <4>3 DEF Missing
    <3>6. Fading /\ Fading' /\ ~Unanswered'
      BY <2>3, <3>1 DEF Fading, Unanswered
    <3>7. Missed' => Missed
      BY <3>5, <3>6 DEF Missed, Channels
    <3>8. Setbacks' <= lost'
      BY <2>3, <3>1, <3>6, <3>7, CountLoss
    <3>9. QED
      BY <2>3, <3>1, <3>8 DEF Losses, RoundsSettle
  <2>4. QED
    BY <2>1, <2>2, <2>3
<1>2. CASE EndRound
  <2>1. /\ pc = "control" /\ Differing = {} /\ channel' = 1
        /\ pc' \in {"control", "query"}
        /\ UNCHANGED <<try, attempt, volumeRequest, volumeSteps, cmds, mixer, lost>>
        /\ pc' = "query" => ~faded /\ phase' = "after"
        /\ pc' = "control" => phase' = phase
    BY <1>2 DEF EndRound, line
  <2>2. ASSUME pc' = "query" PROVE volumeSteps = volumeRequest
    <3>1. \A d \in 1..(channel - 1) : volumeSteps[d] = volumeRequest[d]
      BY <2>1, <2>2 DEF Losses, RoundsSettle
    <3>2. \A d \in channel..NumChannels : volumeSteps[d] = volumeRequest[d]
      BY <2>1 DEF Differing
    <3>3. channel \in Int /\ NumChannels \in Int
      BY ChannelsAssumption DEF TypeOK
    <3>4. \A d \in Channels : volumeSteps[d] = volumeRequest[d]
      BY <3>1, <3>2, <3>3 DEF Channels
    <3>5. QED
      BY <3>4 DEF TypeOK, Profile
  <2>3. Fading /\ Fading' /\ ~Unanswered'
    BY <2>1 DEF Fading, Reading, Unanswered
  <2>4. Missed' => Missed
    BY <2>1, <2>3 DEF Missed, Missing, NoSet, SetAt
  <2>5. Setbacks' <= lost'
    BY <2>1, <2>3, <2>4, CountLoss
  <2>6. QED
    BY <2>1, <2>2, <2>5 DEF Losses, RoundsSettle
<1>3. CASE FadeTimeout
  BY <1>3 DEF FadeTimeout
<1>4. QED
  BY <1>1, <1>2, <1>3

\* A comparison on a settled mixer fails only if a volume command was lost: what
\* the fade sent last is the request, and the mixer has something else.
LEMMA VerifyLoss ==
    ASSUME TypeOK, OnTime, Fade, Losses, Verify
    PROVE  Losses'
<1> DEFINE matched == Matches(RequestedProfile, volumeState)
<1>1. /\ pc = "verify" /\ lost' = lost /\ cmds = <<>> /\ volumeState = mixer
      /\ volumeRequest = RequestedProfile /\ volumeSteps = volumeRequest /\ Fading
  BY DEF Verify, line, OnTime, SettledWhenCompared, Fade, Losses, RoundsSettle, Fading
<1>2. ~matched => Missed
  BY <1>1 DEF Matches, Missed, Missing, NoSet
<1>3. \/ ProfileDecision(matched, attempt) = "success" /\ Accept
      \/ ProfileDecision(matched, attempt) = "retry" /\ Retry
      \/ ProfileDecision(matched, attempt) = "fail" /\ Finish(AC_PROFILE_VERIFY_FAILED)
  BY Zenon DEF Verify
<1>4. Setbacks <= lost /\ ~Unanswered /\ Count(Unanswered) = 0
  BY <1>1 DEF Losses, Unanswered, Count
<1>5. CASE matched
  <2>1. ProfileDecision(matched, attempt) = "success"
    BY <1>5 DEF ProfileDecision
  <2>2. QED
    BY <1>3, <2>1, HardLoss DEF Accept
<1>6. CASE ~matched
  <2>1. Count(Missed) = 1
    BY <1>2, <1>6 DEF Count
  <2>2. CASE attempt = 1
    <3>1. ProfileDecision(matched, attempt) = "retry"
      BY <1>6, <2>2 DEF ProfileDecision, AC_PROFILE_MAX_ATTEMPTS
    <3>2. pc' = "query" /\ phase' = "before" /\ attempt' = attempt + 1 /\ try' = try
      BY <1>3, <3>1 DEF Retry
    <3>3. Count(Unanswered)' = 0 /\ Count(Missed)' = 0 /\ ~Fading'
      BY <3>2 DEF Count, Unanswered, Missed, Fading, Reading
    <3>4. Setbacks' <= lost'
      BY <1>1, <1>4, <2>1, <3>2, <3>3, Counts DEF Setbacks
    <3>5. QED
      BY <3>2, <3>3, <3>4 DEF Losses, RoundsSettle
  <2>3. CASE attempt = 2
    <3>1. ProfileDecision(matched, attempt) = "fail"
      BY <1>6, <2>3 DEF ProfileDecision, AC_PROFILE_MAX_ATTEMPTS
    <3>2. pc' = "done"
      BY <1>3, <3>1 DEF Finish
    <3>3. lost' >= 2
      BY <1>1, <1>4, <2>1, <2>3, Counts DEF Setbacks
    <3>4. QED
      BY <3>2, <3>3 DEF Losses, RoundsSettle, Fading, Reading
  <2>4. QED
    BY <2>2, <2>3, Counts
<1>7. QED
  BY <1>5, <1>6

\* The oldest command is carried out, or lost.  A question is the last command, so
\* one loss costs either an answer or a volume, never both.
LEMMA ServedLoss ==
    ASSUME TypeOK, OnTime, Fade, Losses, Environment, pc # "done"
    PROVE  Setbacks' <= lost'
<1>1. /\ cmds # <<>> /\ cmds \in Seq(Commands) /\ cmds' = Tail(cmds)
      /\ UNCHANGED <<request, control, volumes>>
  BY DEF Environment, MixerAnswers, MixerSets, LoseCommand, GarbleAnswer, TypeOK
<1>2. PICK n \in Nat : n = Len(cmds')
  BY <1>1
<1>3. /\ Len(cmds) = n + 1 /\ cmds[1] = Head(cmds) /\ Head(cmds) \in Commands
      /\ \A k \in 1..n : cmds'[k] = cmds[k + 1] /\ k + 1 \in 1..Len(cmds)
      /\ 1 \in 1..Len(cmds)
  BY <1>1, <1>2
<1>4. /\ pc' = pc /\ phase' = phase /\ volumeSteps' = volumeSteps
      /\ try' = try /\ attempt' = attempt /\ (Fading' <=> Fading)
  BY <1>1 DEF control, volumes, Fading, Reading
<1>5. /\ Setbacks <= lost /\ ~Unanswered /\ Count(Unanswered) = 0
      /\ Count(Missed) \in {0, 1} /\ Count(Missed)' \in {0, 1}
      /\ Count(Unanswered)' \in {0, 1}
  BY <1>1 DEF Losses, Unanswered, Count
<1>6. CASE Head(cmds).op = "get"
  <2>1. pc = "await" /\ rx = <<>> /\ Len(cmds) = 1
    BY <1>3, <1>6 DEF OnTime, NoGetUnlessAwaited
  <2>2. mixer' = mixer
    BY <1>6 DEF Environment, MixerAnswers, MixerSets, LoseCommand, GarbleAnswer
  <2>3. Missed' => Missed
    <3> SUFFICES ASSUME Fading', NEW d \in Channels, Missing(d)' PROVE Missing(d)
      BY <1>4 DEF Missed, Channels
    <3>1. ~SetAt(1, d)
      BY <1>3, <1>6 DEF SetAt
    <3>2. NoSet(d, 1..Len(cmds))
      BY <2>1, <3>1 DEF NoSet
    <3>3. QED
      BY <1>4, <2>2, <3>2 DEF Missing
  <2>4. Count(Missed)' <= Count(Missed)
    BY <2>3 DEF Count
  <2>5. CASE MixerAnswers
    <3>1. cmds[1].ch # 0 /\ lost' = lost
      BY <1>3, <2>5, ChannelsAssumption DEF MixerAnswers, Commands, Channels
    <3>2. rx' = <<[ch |-> cmds[1].ch, vol |-> mixer[cmds[1].ch]]>>
      BY <1>3, <2>1, <2>5 DEF MixerAnswers, Deliver
    <3>3. ~Unanswered'
      BY <3>1, <3>2 DEF Unanswered
    <3>4. Count(Unanswered)' = 0
      BY <3>3 DEF Count
    <3>5. QED
      BY <1>4, <1>5, <2>4, <3>1, <3>4, Counts DEF Setbacks
  <2>6. CASE lost' = lost + 1
    BY <1>4, <1>5, <2>4, <2>6, Counts DEF Setbacks
  <2>7. QED
    BY <1>6, <2>5, <2>6 DEF Environment, MixerSets, LoseCommand, GarbleAnswer
<1>7. CASE Head(cmds).op # "get"
  <2>1. ~Unanswered'
    <3> SUFFICES ASSUME pc = "await", cmds' = <<>> PROVE FALSE
      BY <1>4 DEF Unanswered
    <3>1. Len(cmds) = 1
      BY <1>2, <1>3
    <3>2. QED
      BY <1>1, <1>3, <1>7, <3>1 DEF Losses
  <2>2. Count(Unanswered)' = 0
    BY <2>1 DEF Count
  <2>3. CASE MixerSets
    <3>1. ASSUME NEW d \in Channels, Fading, Missing(d)' PROVE Missing(d)
      <4>1. \A k \in 2..Len(cmds) : ~SetAt(k, d)
        <5> SUFFICES ASSUME NEW k \in 2..Len(cmds) PROVE ~SetAt(k, d)
          OBVIOUS
        <5>1. k - 1 \in 1..n /\ (k - 1) + 1 = k
          BY <1>3
        <5>2. ~SetAt(k - 1, d)'
          BY <1>2, <3>1, <5>1 DEF Missing, NoSet
        <5>3. QED
          BY <1>3, <5>1, <5>2 DEF SetAt
      <4>2. CASE SetAt(1, d)
        <5>1. LeadsTo(d, volumeSteps[d]) /\ NoSet(d, (1 + 1)..Len(cmds))
          BY <3>1, <4>1 DEF Fade, NoSet
        <5>2. cmds[1].vol = volumeSteps[d]
          BY <1>3, <4>2, <5>1 DEF LeadsTo
        <5>3. mixer'[d] = cmds[1].vol
          BY <1>3, <2>3, <4>2 DEF MixerSets, SetAt, TypeOK, Profile
        <5>4. QED
          BY <1>4, <3>1, <5>2, <5>3 DEF Missing
      <4>3. CASE ~SetAt(1, d)
        <5>1. NoSet(d, 1..Len(cmds))
          BY <1>3, <4>1, <4>3 DEF NoSet
        <5>2. mixer'[d] = mixer[d]
          BY <1>3, <2>3, <4>3 DEF MixerSets, SetAt, TypeOK, Profile
        <5>3. QED
          BY <1>4, <3>1, <5>1, <5>2 DEF Missing
      <4>4. QED
        BY <4>2, <4>3
    <3>2. Missed' => Missed
      BY <1>4, <3>1 DEF Missed, Channels
    <3>3. Count(Missed)' <= Count(Missed) /\ lost' = lost
      BY <2>3, <3>2 DEF Count, MixerSets
    <3>4. QED
      BY <1>4, <1>5, <2>2, <3>3, Counts DEF Setbacks
  <2>4. CASE lost' = lost + 1
    BY <1>4, <1>5, <2>2, <2>4, Counts DEF Setbacks
  <2>5. QED
    BY <1>7, <2>3, <2>4 DEF Environment, MixerAnswers, LoseCommand, GarbleAnswer
<1>8. QED
  BY <1>6, <1>7

LEMMA EnvironmentLoss ==
    ASSUME TypeOK, OnTime, Fade, Losses, Environment
    PROVE  Losses'
<1>1. /\ cmds # <<>> /\ cmds \in Seq(Commands) /\ cmds' = Tail(cmds)
      /\ UNCHANGED <<request, control, volumes>> /\ lost' \in {lost, lost + 1}
  BY DEF Environment, MixerAnswers, MixerSets, LoseCommand, GarbleAnswer, TypeOK
<1>2. /\ pc' = pc /\ result' = result /\ volumeSteps' = volumeSteps
      /\ volumeRequest' = volumeRequest /\ channel' = channel /\ faded' = faded
      /\ (Fading' <=> Fading)
  BY <1>1 DEF control, volumes, Fading, Reading
<1>3. ASSUME cmds' # <<>> PROVE cmds'[Len(cmds')] = cmds[Len(cmds)]
  BY <1>1, <1>3
<1>4. RoundsSettle'
  BY <1>2 DEF Losses, RoundsSettle
<1>5. pc = "done" /\ result \in SoftErrors => lost' >= 2
  BY <1>1, Counts DEF Losses
<1>6. QED
  BY <1>1, <1>2, <1>3, <1>4, <1>5, ServedLoss DEF Losses

LEMMA NextLoss ==
    TypeOK /\ OnTimeInv /\ FadeInv /\ LossInv /\ [Next]_vars => LossInv'
<1> SUFFICES ASSUME TypeOK, OnTimeInv, FadeInv, LossInv, [Next]_vars, ~late'
             PROVE  Losses'
  BY DEF LossInv
<1>1. OnTime /\ Fade /\ Losses
  BY LateStays DEF OnTimeInv, OnTime, FadeInv, LossInv
<1>2. CASE Program
  <2>1. CASE QueryFails
    BY <2>1, HardLoss DEF QueryFails, HardErrors
  <2>2. QED
    BY <1>1, <1>2, <2>1, StartLoss, AskLoss, ReceiveLoss, AwaitLoss, ControlLoss, VerifyLoss
    DEF Program
<1>3. CASE UNCHANGED vars
  <2>1. /\ UNCHANGED <<pc, phase, channel, try, attempt, result>> /\ rx' = rx
        /\ UNCHANGED <<volumeRequest, volumeSteps, faded>>
        /\ cmds' = cmds /\ mixer' = mixer /\ lost' = lost
    BY <1>3 DEF vars, control, volumes, line
  <2>2. (Unanswered' <=> Unanswered) /\ (Missed' <=> Missed) /\ (Fading' <=> Fading)
    BY <2>1 DEF Unanswered, Missed, Missing, NoSet, SetAt, Fading, Reading
  <2>3. Count(Unanswered)' = Count(Unanswered) /\ Count(Missed)' = Count(Missed)
    BY <2>2 DEF Count
  <2>4. QED
    BY <1>1, <2>1, <2>2, <2>3 DEF Losses, Setbacks, RoundsSettle
<1>4. QED
  BY <1>1, <1>2, <1>3, EnvironmentLoss DEF Next

\* For any number of channels and profiles: on a punctual line one lost message is
\* repaired, whichever it is, because every retry and every verification that
\* fails has a lost message of its own and both limits are two.
THEOREM LossIsRepaired == Spec => []LossRepaired
<1>1. LossInv /\ TypeOK => LossRepaired
  <2> SUFFICES ASSUME LossInv, TypeOK, pc = "done", ~late, lost <= 1
               PROVE  result \in HardErrors \cup {AC_SUCCESS}
    BY DEF LossRepaired
  <2>1. result \notin SoftErrors /\ result \in Codes
    BY Counts DEF LossInv, Losses, TypeOK
  <2>2. QED
    BY <2>1 DEF SoftErrors
<1>2. QED
  BY <1>1, InitType, NextType, InitOnTime, NextOnTime, InitFade, NextFade, InitLoss, NextLoss,
     PTL DEF Spec
=============================================================================
