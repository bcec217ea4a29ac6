------------------------- MODULE CommandInterpreter -------------------------
(***************************************************************************)
(* CIsequencer of ComInt.c and the commands of CIexecuteCommand that reach *)
(* the audio mixer, the infrared devices and the camera mount: one process *)
(* after another runs one command, fails or succeeds in each of its steps, *)
(* and may be killed between two of them.                                  *)
(*                                                                         *)
(* A command is the sequence of its steps.  The program's OR of error      *)
(* codes is only ever compared with success, so result is kept as ok.  A   *)
(* profile call is one step, AudioProfile is its detail; so are a move     *)
(* (PositionControl, ZoomControl) and a taught signal (IRTeach).  The      *)
(* infrared link is one-way, a signal that is sent arrives.                *)
(*                                                                         *)
(* The stored profiles and positions are each one datum: whether they are  *)
(* the taught ones or zeros.                                               *)
(***************************************************************************)
EXTENDS Integers, Sequences

CONSTANTS
    TaughtChoices,  \* sets of infrared sequences that may have been taught
    Teachable,      \* profiles CI_AUDIO_TEACH is used for
    Cuts,           \* sequences within or before which a torn IR_Dat.bin ends
    Faults          \* what may go wrong: "audio", "ir", "file", "kill"

ASSUME FaultsAssumption == Faults \subseteq {"audio", "ir", "file", "kill"}
ASSUME TeachableAssumption == Teachable \subseteq 0..9

AC_SLIDERSHOW == 0
AC_WORSHIP    == 1
AC_PREACHING  == 2
AC_TEXT       == 3
AC_BAND       == 4
AC_VIDEO_CLIP == 5
Profiles == AC_SLIDERSHOW..AC_VIDEO_CLIP

NUM_SEQ == 20
Sequences0 == 0..(NUM_SEQ - 1)

ASSUME TaughtAssumption == TaughtChoices \subseteq SUBSET Sequences0
ASSUME CutsAssumption == Cuts \subseteq Sequences0

\* What the taught sequences do: 0..4 select an input of the HDMI switch,
\* 5..7 an input of the beamer, the others neither.
HdmiSeqs   == 0..4
BeamerSeqs == {5, 6, 7}

\* toggleStateBeamerLive as ComInt.h describes it.
ToggleOf(input) == CASE input = 5 -> 0 [] input = 6 -> 1 [] input = 7 -> 2

Unknown == -1    \* a mixer or a switch the command has not set
Missing == -2    \* no CI_Dat.bin
Empty   == -3    \* a data file after fopen(.., "wb") and before the write

-----------------------------------------------------------------------------
(* The steps of a command                                                  *)

Step(op, arg) == [op |-> op, arg |-> arg]

\* if(result == IR_SUCCESS) before the next n steps.
IfOk(n) == Step("ifOk", n)
Ir(seq) == Step("ir", seq)
Profile(p) == Step("profile", p)
Audio == Step("audio", 0)
IrInit == Step("irInit", 0)
Save == <<Step("open", 0), Step("write", 0)>>
SaveProfiles == <<Step("openAc", 0), Step("writeAc", 0)>>
PcInit == Step("pcInit", 0)
Move == Step("move", 0)
Forget == Step("forget", 0)

\* The beamer is switched, remembered and saved; one test covers all three.
SwitchBeamer_unsaved(seq) == <<IfOk(2), Ir(seq), Step("toggle", ToggleOf(seq))>>
SwitchBeamer(seq) ==
    <<IfOk(4), Ir(seq), Step("toggle", ToggleOf(seq))>> \o Save

View_eager(audio, seq) == <<IrInit, IfOk(1), Ir(seq), Profile(audio)>>
View(audio, seq) == <<Profile(audio), IrInit, IfOk(1), Ir(seq)>>

Device(seq) == <<IrInit, IfOk(1), Ir(seq)>>

CI_PAUSE == View(AC_SLIDERSHOW, 0) \o SwitchBeamer(5)
CI_TIMER == View(AC_SLIDERSHOW, 12) \o <<IfOk(1), Ir(0)>> \o SwitchBeamer(5)

\* The second profile call assigns its result instead of OR-ing it.
CI_RESET ==
    <<Audio, Step("active", AC_WORSHIP)>> \o SaveProfiles \o <<Forget>>
    \o View(AC_WORSHIP, 0)
    \o <<IfOk(1), Ir(5), Step("toggle", 0)>> \o Save

CI_BEAMER_ANALOG ==
    View(AC_SLIDERSHOW, 0) \o <<IfOk(1), Ir(7), Step("toggle", 2)>> \o Save

\* AC_Teach: the values are saved before they are tried, and the profile
\* becomes the saved active one once it is verified.
AC_Teach(p) ==
    SaveProfiles \o <<IfOk(4), Profile(p), IfOk(2)>> \o SaveProfiles

CI_BEAMER_TOGGLE ==
    <<IrInit, Step("read", 0), IfOk(3), Step("flip", 0)>> \o Save

\* No step depends on another one's success, and the result is always 99.
CI_SHUTDOWN ==
    <<IrInit, Ir(9), Ir(9), Ir(10), Ir(13), Ir(11), Step("last", "SHUTDOWN")>>

\* CItestSequence has no end.  It sends each HDMI signal retryCounter times,
\* which is none or, as the signals are idempotent, one.
CItestSequence(retryCounter) ==
    LET Hdmi(seq) == IF retryCounter = 0 THEN <<>> ELSE <<Ir(seq)>>
        round == Hdmi(0) \o <<Ir(5)>> \o Hdmi(1) \o <<Ir(6)>>
                    \o Hdmi(2) \o <<Ir(5)>> \o Hdmi(4) \o <<Ir(6)>>
    IN  <<IrInit>> \o round \o <<Step("again", Len(round))>>

\* The sound first, then the picture for the time of the move, then the move,
\* then the picture of the camera that has moved.
PC_Sequencer_unseen(audio, camView) ==
    <<Profile(audio), IfOk(1), Ir(camView), Move, IfOk(1), Ir(2)>>
PC_Sequencer(audio, camView) ==
    <<Profile(audio), IfOk(1), Ir(camView), IfOk(1), Move>>
    \o IF camView = 2 THEN <<>> ELSE <<IfOk(1), Ir(2)>>

\* The results of the two tests end with them.
PC_Test_Pos == <<Move, IfOk(1), Step("within", 2), Forget>>

PC_Test ==
    LET Guarded(audio, camView) ==
            LET steps == PC_Sequencer(audio, camView) IN <<IfOk(Len(steps))>> \o steps
        round == Guarded(AC_SLIDERSHOW, 0) \o Guarded(AC_WORSHIP, 1)
                    \o Guarded(AC_PREACHING, 2) \o Guarded(AC_TEXT, 3)
                    \o Guarded(AC_BAND, 1)
    IN  round \o <<Step("within", Len(round)), Forget>>

\* The commands that drive or teach the mount show its camera first.
OnCamera(steps) ==
    <<IrInit, IfOk(1), Ir(2), PcInit, IfOk(Len(steps))>> \o steps

PC_Teach == <<Step("zoomSave", 0), Step("openPc", 0), Step("writePc", 0)>>

CI_POS_SEQUENCE(audio, camView) ==
    LET steps == PC_Sequencer(audio, camView)
    IN  <<IrInit, PcInit, IfOk(Len(steps))>> \o steps

CIsequencer(name) ==
    CASE name = "CI_PAUSE"         -> CI_PAUSE
      [] name = "CI_TIMER"         -> CI_TIMER
      [] name = "CI_PPP_VIEW"      -> View(AC_BAND, 0)
      [] name = "CI_TEXT_VIEW"     -> View(AC_TEXT, 0)
      [] name = "CI_GOPRO_VIEW"    -> View(AC_WORSHIP, 1)
      [] name = "CI_POSCAM_VIEW"   -> View(AC_WORSHIP, 2)
      [] name = "CI_PREACHER_VIEW" -> View(AC_PREACHING, 3)
      [] name = "CI_PRAYER_VIEW"   -> View(AC_WORSHIP, 4)
      [] name = "CI_READERS_VIEW"  -> View(AC_PREACHING, 4)
      [] name = "CI_SONG_VIEW"     -> View(AC_BAND, 4)
      [] name = "CI_RESET"         -> CI_RESET
      [] name = "CI_LIVE_VIDEO"    -> View(AC_VIDEO_CLIP, 0)
      [] name = "CI_BEAMER_TOGGLE" -> CI_BEAMER_TOGGLE
      [] name = "CI_BEAMER_ANALOG" -> CI_BEAMER_ANALOG
      [] name = "CI_BEAMER_MUTE"   -> Device(8)
      [] name = "CI_BEAMER_ON"     -> Device(14)
      [] name = "CI_START_BACKUP"  -> Device(12)
      [] name = "CI_STOP_BACKUP"   -> Device(13)
      [] name = "CI_SWITCH_BACKUP" -> Device(11)
      [] name = "CI_SHUTDOWN"      -> CI_SHUTDOWN
      [] name = "undefined"        -> <<Step("last", "WRONG_ARG")>>

SequencerNames ==
    {"CI_PAUSE", "CI_TIMER", "CI_PPP_VIEW", "CI_TEXT_VIEW", "CI_GOPRO_VIEW",
     "CI_POSCAM_VIEW", "CI_PREACHER_VIEW", "CI_PRAYER_VIEW", "CI_READERS_VIEW",
     "CI_SONG_VIEW", "CI_RESET", "CI_LIVE_VIDEO", "CI_BEAMER_TOGGLE",
     "CI_BEAMER_ANALOG", "CI_BEAMER_MUTE", "CI_BEAMER_ON", "CI_START_BACKUP",
     "CI_STOP_BACKUP", "CI_SWITCH_BACKUP", "CI_SHUTDOWN", "undefined"}

\* CIexecuteCommand, without the zoom commands, which touch nothing of this
\* module.  CI_AUDIO_SWITCH takes any code of AC_Execute: a profile, or one
\* that moves single channels.  The argument of CI_POS_SEQUENCE is its camView;
\* that of CI_POS_TEST is 0 for PC_Test_Pos.
Direct == 6
Commands ==
    [name : SequencerNames \cup {"CI_POS_CONTROL", "CI_POS_TEACH", "CI_POS_MOVE_BTN"},
     arg : {0}]
        \cup [name : {"CI_IR"}, arg : HdmiSeqs \cup BeamerSeqs \cup {NUM_SEQ}]
        \cup [name : {"CI_IR_TEACH"}, arg : {0, 5}]
        \cup [name : {"CI_AUDIO_SWITCH"}, arg : Profiles \cup {Direct}]
        \cup [name : {"CI_AUDIO_TEACH"}, arg : Teachable]
        \cup [name : {"CI_POS_SEQUENCE"}, arg : {0, 2}]
        \cup [name : {"CI_POS_TEST", "CItestSequence"}, arg : {0, 1}]

StepsOf(c) ==
    CASE c.name = "CI_IR"           -> Device(c.arg)
      [] c.name = "CI_IR_TEACH"     -> <<IrInit, IfOk(1), Step("irTeach", c.arg)>>
      [] c.name = "CI_AUDIO_SWITCH" -> IF c.arg = Direct THEN <<Audio>> ELSE <<Profile(c.arg)>>
      [] c.name = "CI_AUDIO_TEACH"  -> AC_Teach(c.arg)
      [] c.name = "CI_POS_CONTROL"  -> OnCamera(<<Move>>)
      [] c.name = "CI_POS_TEACH"    -> OnCamera(PC_Teach)
      [] c.name = "CI_POS_TEST"     -> OnCamera(IF c.arg = 0 THEN PC_Test_Pos ELSE PC_Test)
      [] c.name = "CI_POS_SEQUENCE" -> CI_POS_SEQUENCE(AC_PREACHING, c.arg)
      [] c.name = "CI_POS_MOVE_BTN" -> <<PcInit>>
      [] c.name = "CItestSequence"  -> CItestSequence(c.arg)
      [] c.name \in SequencerNames  -> CIsequencer(c.name)

-----------------------------------------------------------------------------
VARIABLES
    pc,          \* "idle": no process, "run", "returned"
    command,
    todo,        \* steps the running command has not taken
    ok,          \* result is success so far
    toggle,      \* cI_Data.toggleStateBeamerLive of the process
    active,      \* aC_Data.activeAudioProfile of the process
    stored,      \* its aC_Data.audioProfiles are the taught ones
    loaded,      \* IR_init found the taught sequences
    table,       \* its teachedPositions are the taught ones
    taught,      \* sequences in IR_Dat.bin that are whole
    parts,       \* sequences of which it has a part only
    ciFile,      \* toggle state in CI_Dat.bin
    acFile,      \* AC_Dat.bin
    pcFile,      \* PC_Dat.bin has the taught positions
    hdmi,        \* input the command has selected at the HDMI switch
    mixer,       \* profile the command has verified on the mixer
    beamer,      \* input of the beamer, by the sequence that selects it
    disturbed,   \* history: see Disturb
    lost         \* history: see Lose

control == <<pc, command, ok>>
audio   == <<active, stored, acFile, mixer>>
picture == <<loaded, taught, parts, hdmi, beamer>>
toggles == <<toggle, ciFile, disturbed>>
mount   == <<table, pcFile>>
vars    == <<control, todo, audio, picture, toggles, mount, lost>>

NoCommand == [name |-> "undefined", arg |-> 0]
AcData == [active : {AC_WORSHIP} \cup Teachable, stored : BOOLEAN]
EmptyAc == [active |-> Empty, stored |-> FALSE]

Init ==
    /\ pc = "idle"
    /\ command = NoCommand
    /\ todo = <<>> /\ ok = TRUE
    /\ toggle = 0 /\ active = AC_WORSHIP /\ stored = FALSE
    /\ loaded = FALSE /\ table = FALSE
    /\ taught \in TaughtChoices /\ parts = {}
    /\ beamer \in BeamerSeqs
    /\ ciFile = ToggleOf(beamer)
    /\ acFile = [active |-> AC_WORSHIP, stored |-> TRUE]
    /\ pcFile = TRUE
    /\ hdmi = Unknown /\ mixer = Unknown
    /\ disturbed = FALSE /\ lost = {}

\* The taught profiles or positions are lost when a process is killed or the
\* disk is full between the two halves of a save, or when a process that could
\* not read them saves what it has instead.
Lose(what, event) == lost' = IF event THEN lost \cup {what} ELSE lost
Saves(c) == \E k \in 1..Len(StepsOf(c)) : StepsOf(c)[k].op = "openAc"

\* ACinit: worship and zeros, then as much as AC_Dat.bin has.
ZeroedAc == [active |-> AC_WORSHIP, stored |-> FALSE]
AfterRead_zeroed(file) == IF file = EmptyAc THEN ZeroedAc ELSE [file EXCEPT !.stored = FALSE]
AfterRead(file) == IF file = EmptyAc THEN ZeroedAc ELSE file

\* main: a new process has zeroed data; ACinit reads the active profile and the
\* stored ones, and main drops its result.
Start(c) ==
    /\ pc = "idle"
    /\ pc' = "run"
    /\ command' = c
    /\ todo' = StepsOf(c)
    /\ \E file \in {acFile} \cup (IF "file" \in Faults THEN {EmptyAc} ELSE {}) :
          /\ active' = AfterRead(file).active
          /\ stored' = AfterRead(file).stored
          /\ Lose("profiles", file # acFile /\ Saves(c))
    /\ UNCHANGED <<ok, acFile, mixer, picture, toggles, mount>>

Return ==
    /\ pc = "run" /\ todo = <<>>
    /\ pc' = "returned"
    /\ UNCHANGED <<command, todo, ok, audio, picture, toggles, mount, lost>>

\* A process ends and its memory with it; what it has set the devices to is not
\* the doing of the next one.
Gone ==
    /\ pc' = "idle"
    /\ command' = NoCommand /\ todo' = <<>> /\ ok' = TRUE
    /\ toggle' = 0 /\ active' = AC_WORSHIP /\ stored' = FALSE
    /\ loaded' = FALSE /\ table' = FALSE
    /\ hdmi' = Unknown /\ mixer' = Unknown
    /\ UNCHANGED <<ciFile, acFile, pcFile, beamer>>

Exit == pc = "returned" /\ Gone /\ UNCHANGED <<taught, parts, disturbed, lost>>

Running(op) == pc = "run" /\ todo # <<>> /\ Head(todo).op = op
Arg == Head(todo).arg
Skip(n) == todo' = SubSeq(todo, n + 1, Len(todo))
Continue == Skip(1) /\ UNCHANGED <<pc, command>>
Done == Len(StepsOf(command)) - Len(todo)

\* result |= a failure.
Fails == ok' = FALSE

\* The toggle state can be trusted until something disturbs it: a signal that
\* was not taught, a file that could not be opened or written, a beamer
\* switched by CI_IR or CItestSequence, a process killed, or CI_RESET and
\* CI_BEAMER_ANALOG saving it although an earlier step failed.  It can again from
\* the next signal the beamer takes from a command that keeps the state.
Disturb(event) == disturbed' = (disturbed \/ event)
Settle(seq, keeps) == disturbed' = ~(keeps /\ loaded /\ seq \in taught)

IfOkStep ==
    /\ Running("ifOk")
    /\ Skip(IF ok THEN 1 ELSE Arg + 1)
    /\ UNCHANGED <<control, audio, picture, toggles, mount, lost>>

\* AC_Execute(AUDIO_PROFILE + p): verified, or the mixer is not reached or is
\* left somewhere between.
ProfileStep ==
    /\ Running("profile")
    /\ \/ mixer' = Arg /\ active' = Arg /\ UNCHANGED ok
       \/ "audio" \in Faults /\ mixer' \in {mixer, Unknown} /\ Fails /\ UNCHANGED active
    /\ Continue
    /\ UNCHANGED <<stored, acFile, picture, toggles, mount, lost>>

\* AC_Execute with any other code: reset, volume, fade.
AudioStep ==
    /\ Running("audio")
    /\ \/ mixer' = Unknown /\ UNCHANGED ok
       \/ "audio" \in Faults /\ mixer' \in {mixer, Unknown} /\ Fails
    /\ Continue
    /\ UNCHANGED <<active, stored, acFile, picture, toggles, mount, lost>>

\* CI_RESET enters the worship profile before it is called ...
ActiveStep ==
    /\ Running("active")
    /\ active' = Arg
    /\ Continue
    /\ UNCHANGED <<ok, stored, acFile, mixer, picture, toggles, mount, lost>>

\* ... and drops the errors so far.
ForgetStep ==
    /\ Running("forget")
    /\ ok' = TRUE
    /\ Continue
    /\ UNCHANGED <<audio, picture, toggles, mount, lost>>

\* AC_writeDatFile saves all the process knows of the profiles.  The file is
\* emptied, then written; fwrite and fclose are not checked, so a full disk goes
\* unnoticed.
OpenAcStep ==
    /\ Running("openAc")
    /\ \/ acFile' = EmptyAc /\ Skip(1) /\ UNCHANGED ok
       \/ "file" \in Faults /\ Fails /\ Skip(2) /\ UNCHANGED acFile
    /\ UNCHANGED <<pc, command, active, stored, mixer, picture, toggles, mount, lost>>

WriteAcStep ==
    /\ Running("writeAc")
    /\ \/ acFile' = [active |-> active, stored |-> stored] /\ UNCHANGED lost
       \/ "file" \in Faults /\ Lose("profiles", TRUE) /\ UNCHANGED acFile
    /\ Continue
    /\ UNCHANGED <<ok, active, stored, mixer, picture, toggles, mount>>

\* IR_readDatFile: the taught sequences, or none if the file cannot be opened.
ReadIrDat ==
    \/ loaded' = TRUE /\ UNCHANGED ok
    \/ "ir" \in Faults /\ loaded' = FALSE /\ Fails

IrInitStep ==
    /\ Running("irInit")
    /\ ReadIrDat
    /\ Continue
    /\ UNCHANGED <<audio, taught, parts, hdmi, beamer, toggles, mount, lost>>

\* IR_SequenceOut: the device reacts, or it does not understand the part of a
\* sequence, which is success as well, or the sequence is empty or undefined.
Send_silent(seq) ==
    LET sent == loaded /\ seq \in taught
    IN  /\ hdmi' = IF sent /\ seq \in HdmiSeqs THEN seq ELSE hdmi
        /\ beamer' = IF sent /\ seq \in BeamerSeqs THEN seq ELSE beamer
        /\ UNCHANGED ok
Send(seq) ==
    \/ /\ loaded /\ seq \in taught
       /\ hdmi' = IF seq \in HdmiSeqs THEN seq ELSE hdmi
       /\ beamer' = IF seq \in BeamerSeqs THEN seq ELSE beamer
       /\ UNCHANGED ok
    \/ loaded /\ seq \in parts /\ UNCHANGED <<ok, hdmi, beamer>>
    \/ ~(loaded /\ seq \in taught \cup parts) /\ Fails /\ UNCHANGED <<hdmi, beamer>>

Bypasses == command.name \in {"CI_IR", "CItestSequence"}

IrStep ==
    /\ Running("ir")
    /\ Send(Arg)
    /\ IF Arg \in BeamerSeqs THEN Settle(Arg, ~Bypasses) ELSE UNCHANGED disturbed
    /\ Continue
    /\ UNCHANGED <<audio, loaded, taught, parts, toggle, ciFile, mount, lost>>

\* A torn save of IR_Dat.bin, which has all sequences: what was to come after
\* the cut is gone, and sequence n may be a part.
TearsAt(n) ==
    LET gone == {seq \in Sequences0 : seq >= n}
    IN  /\ taught' = (taught \cup {Arg}) \ gone
        /\ parts' \in {(parts \ {Arg}) \ gone,
                      ((parts \ {Arg}) \ gone) \cup ({n} \cap (taught \cup parts \cup {Arg}))}

\* IR_SequenceIn: taught, or no signal came, or it was not saved (which is
\* success as well), or the save is torn by a full disk.
IrTeachStep ==
    /\ Running("irTeach")
    /\ \/ taught' = taught \cup {Arg} /\ parts' = parts \ {Arg} /\ UNCHANGED ok
       \/ ok' \in BOOLEAN /\ UNCHANGED <<taught, parts>>
       \/ "file" \in Faults /\ (\E n \in Cuts : TearsAt(n)) /\ UNCHANGED ok
    /\ Continue
    /\ UNCHANGED <<audio, loaded, hdmi, beamer, toggles, mount, lost>>

\* CI_BEAMER_TOGGLE: live stream if the laptop is shown, else the laptop.
FlipTo(t) == IF t = 0 THEN 6 ELSE 5
FlipStep ==
    /\ Running("flip")
    /\ Send(FlipTo(toggle))
    /\ toggle' = ToggleOf(FlipTo(toggle))
    /\ Settle(FlipTo(toggle), TRUE)
    /\ Continue
    /\ UNCHANGED <<audio, loaded, taught, parts, ciFile, mount, lost>>

ToggleStep ==
    /\ Running("toggle")
    /\ toggle' = Arg
    /\ Disturb(~ok)
    /\ Continue
    /\ UNCHANGED <<ok, audio, picture, ciFile, mount, lost>>

\* CI_readDatFile; what a short file does not fill keeps its value.
ReadToggle_fresh(content) == toggle
ReadToggle_raw(content) == content
ReadToggle(content) == IF content = Empty THEN toggle ELSE content

ReadStep ==
    /\ Running("read")
    /\ \/ ciFile # Missing /\ toggle' = ReadToggle(ciFile) /\ UNCHANGED ok
       \/ (ciFile = Missing \/ "file" \in Faults) /\ Fails /\ UNCHANGED toggle
    /\ Continue
    /\ UNCHANGED <<audio, picture, ciFile, disturbed, mount, lost>>

\* CI_writeDatFile, emptied and written in the same way.
OpenStep ==
    /\ Running("open")
    /\ \/ ciFile' = Empty /\ Skip(1) /\ UNCHANGED <<ok, disturbed>>
       \/ "file" \in Faults /\ Fails /\ Skip(2) /\ Disturb(TRUE) /\ UNCHANGED ciFile
    /\ UNCHANGED <<pc, command, audio, picture, toggle, mount, lost>>

WriteStep ==
    /\ Running("write")
    /\ \/ ciFile' = toggle /\ UNCHANGED disturbed
       \/ "file" \in Faults /\ Disturb(TRUE) /\ UNCHANGED ciFile
    /\ Continue
    /\ UNCHANGED <<ok, audio, picture, toggle, mount, lost>>

\* PC_Init: zoom files, sensors, then the positions.  Zeros replace positions
\* that cannot be read, in PC_Dat.bin as well if it can be opened for that.
PcInitStep ==
    /\ Running("pcInit")
    /\ \/ table' = pcFile /\ UNCHANGED <<ok, pcFile, lost>>
       \/ "file" \in Faults /\ table' = pcFile /\ Fails /\ UNCHANGED <<pcFile, lost>>
       \/ /\ "file" \in Faults
          /\ table' = FALSE /\ Fails
          /\ pcFile' \in {pcFile, FALSE}
          /\ Lose("positions", pcFile' # pcFile)
    /\ Continue
    /\ UNCHANGED <<audio, picture, toggles>>

\* PC_Move: fails if the zoom value could not be saved, and reports nothing of
\* an axis that has not arrived.  PC_Teach saves it first, in the same way.
MoveStep ==
    /\ Running("move") \/ Running("zoomSave")
    /\ UNCHANGED ok \/ ("file" \in Faults /\ Fails)
    /\ Continue
    /\ UNCHANGED <<audio, picture, toggles, mount, lost>>

\* PC_writeDatFile; an emptied file is read as zeros.
OpenPcStep ==
    /\ Running("openPc")
    /\ \/ pcFile' = FALSE /\ Skip(1) /\ UNCHANGED ok
       \/ "file" \in Faults /\ Fails /\ Skip(2) /\ UNCHANGED pcFile
    /\ UNCHANGED <<pc, command, audio, picture, toggles, table, lost>>

WritePcStep ==
    /\ Running("writePc")
    /\ \/ pcFile' = table /\ UNCHANGED lost
       \/ "file" \in Faults /\ Lose("positions", TRUE) /\ UNCHANGED pcFile
    /\ Continue
    /\ UNCHANGED <<ok, audio, picture, toggles, table>>

\* The endings with a fixed result.
LastStep ==
    /\ Running("last")
    /\ Fails
    /\ Continue
    /\ UNCHANGED <<audio, picture, toggles, mount, lost>>

\* Loops: the last Arg steps again, for ever or until five minutes are over.
AgainStep ==
    /\ Running("again") \/ Running("within")
    /\ \/ todo' = SubSeq(StepsOf(command), Done - Arg + 1, Len(StepsOf(command)))
       \/ Running("within") /\ Skip(1)
    /\ UNCHANGED <<control, audio, picture, toggles, mount, lost>>

Kill ==
    /\ "kill" \in Faults /\ pc = "run"
    /\ Gone
    /\ \/ UNCHANGED <<taught, parts>>
       \/ Running("irTeach") /\ \E n \in Cuts : TearsAt(n)
    /\ Disturb(TRUE)
    /\ lost' = lost \cup (IF acFile = EmptyAc THEN {"profiles"} ELSE {})
                    \cup (IF pcFile THEN {} ELSE {"positions"})

Steps ==
    \/ IfOkStep \/ ProfileStep \/ AudioStep \/ ActiveStep \/ ForgetStep
    \/ OpenAcStep \/ WriteAcStep \/ IrInitStep \/ IrStep \/ IrTeachStep
    \/ FlipStep \/ ToggleStep \/ ReadStep \/ OpenStep \/ WriteStep \/ PcInitStep
    \/ MoveStep \/ OpenPcStep \/ WritePcStep \/ LastStep \/ AgainStep

Next == (\E c \in Commands : Start(c)) \/ Steps \/ Return \/ Exit \/ Kill

Spec == Init /\ [][Next]_vars

-----------------------------------------------------------------------------
TypeOK ==
    /\ pc \in {"idle", "run", "returned"}
    /\ command \in Commands
    /\ pc = "run" => todo = SubSeq(StepsOf(command), Done + 1, Len(StepsOf(command)))
    /\ ok \in BOOLEAN
    /\ toggle \in 0..2
    /\ active \in Profiles \cup Teachable
    /\ stored \in BOOLEAN /\ loaded \in BOOLEAN /\ table \in BOOLEAN
    /\ taught \subseteq Sequences0 /\ parts \subseteq Sequences0 \ taught
    /\ ciFile \in (0..2) \cup {Missing, Empty}
    /\ acFile \in AcData \cup {EmptyAc}
    /\ pcFile \in BOOLEAN
    /\ hdmi \in HdmiSeqs \cup {Unknown} /\ beamer \in BeamerSeqs
    /\ mixer \in Profiles \cup Teachable \cup {Unknown}
    /\ disturbed \in BOOLEAN /\ lost \subseteq {"profiles", "positions"}

\* Between two commands the saved toggle state is the input the beamer shows,
\* through any number of commands of any kind and through failures of the audio
\* mixer, until one of the events of Disturb; and whatever those were, it is so
\* again after the next command that switches the beamer.
ToggleTracksBeamer == pc # "run" /\ ~disturbed => ciFile = ToggleOf(beamer)

\* So CI_BEAMER_TOGGLE toggles: whatever process wrote the state it reads, the
\* beamer shows another input than before.
ToggleToggles ==
    [][Running("flip") /\ ~disturbed /\ ~disturbed' => beamer' # beamer]_vars

\* ComInt.h, without exceptions: toggleStateBeamerLive is 1 if the beamer is
\* switched to live stream, 2 if it is switched to analog, otherwise 0.  So what
\* a command saves is what the beamer shows.
ToggleIsBeamer ==
    [][ciFile' # ciFile /\ ciFile' \in 0..2 => ciFile' = ToggleOf(beamer')]_vars

\* What the steps taken so far have called for: the arguments of op, the last
\* one alone.
LastDone(op) ==
    LET K == {k \in 1..Done : StepsOf(command)[k].op = op}
    IN  IF K = {} THEN {} ELSE {StepsOf(command)[CHOOSE k \in K : \A j \in K : j <= k].arg}

SetsProfile(c) == \E k \in 1..Len(StepsOf(c)) : StepsOf(c)[k].op = "profile"
ProfileOf(c) ==
    LET k == CHOOSE j \in 1..Len(StepsOf(c)) : StepsOf(c)[j].op = "profile"
    IN  StepsOf(c)[k].arg

\* The picture follows the sound: a command that sets a profile switches the
\* HDMI switch only while the mixer verifiably has it, and PC_Test, which sets
\* one after another, while it has the last one called for.
PictureAfterSound ==
    [][hdmi' \notin {hdmi, Unknown} =>
          IF command.name = "CI_POS_TEST"
          THEN \A p \in LastDone("profile") : mixer = p
          ELSE SetsProfile(command) => mixer = ProfileOf(command)]_vars

\* The mount is driven only when all is prepared: the picture is the one that
\* was asked for during the move, unless of its signal only a part is left, the
\* sound is verified, and the positions are the taught ones, unless lost.
MovesPrepared ==
    Running("move") =>
        /\ \A seq \in LastDone("ir") : hdmi = seq \/ seq \in parts
        /\ \A p \in LastDone("profile") : mixer = p
        /\ table \/ "positions" \in lost

\* Taught profiles and positions outlive every command, whatever fails in it:
\* they are lost by the events of Lose only, of which none is a failure of mixer,
\* infrared or mount.
TaughtIsKept ==
    pc # "run" =>
        /\ "profiles" \in lost \/ acFile.stored
        /\ "positions" \in lost \/ pcFile

\* Returning success means that everything the command is for has happened: the
\* profile is verified and is the active one, and saved as that by a teach; each
\* device it signals shows what the last signal to it selects, unless only a part
\* of that is left.  The tests of the mount report nothing.
LastOf(c, S) ==
    LET K == {k \in 1..Len(StepsOf(c)) : StepsOf(c)[k].op = "ir" /\ StepsOf(c)[k].arg \in S}
    IN  IF K = {} THEN {} ELSE {StepsOf(c)[CHOOSE k \in K : \A j \in K : j <= k].arg}
SuccessIsComplete ==
    pc = "returned" /\ ok /\ command.name # "CI_POS_TEST" =>
        /\ SetsProfile(command) => mixer = ProfileOf(command) /\ active = ProfileOf(command)
        /\ command.name = "CI_AUDIO_TEACH" /\ "profiles" \notin lost =>
              acFile.active = command.arg
        /\ \A seq \in LastOf(command, HdmiSeqs) : hdmi = seq \/ seq \in parts
        /\ \A seq \in LastOf(command, BeamerSeqs) : beamer = seq \/ seq \in parts

\* AudioControl.c: activeAudioProfile "advances only after verified mixer
\* state".
ActiveIsVerified ==
    [][pc' = "run" /\ pc = "run" /\ active' # active => mixer' = active']_vars
=============================================================================
