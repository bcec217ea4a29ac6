# RasPiAutomation in TLA+

RasPiAutomation switches sound, picture and camera of a hall from a Raspberry
Pi. It is started once for every command, with two numbers as arguments; it
drives an audio mixer over a serial line, HDMI switch, beamer and recorder over
infrared, and the relays and the servo of a camera mount over GPIO. This
directory models its components, checks them with TLC and proves what matters
most with TLAPS. `PROJECT.json` maps every definition to the lines it stands
for and lists runs, mutants, findings, hazards and theorems.

## The system

| Component | State | Operations | Interacts with |
|---|---|---|---|
| `main.c` | lock file and its lock | start, refusal, exit, kill | all: one command at a time |
| `ComInt.c` | `toggleStateBeamerLive` and `CI_Dat.bin` | one sequence of steps for each command | calls audio, infrared, position, zoom; ORs their results |
| `AudioControl.c` | stored profiles, the active one (`AC_Dat.bin`), requested, read and faded volumes, the port | profile, direct commands, teach, reset | mixer over a 9600 baud line, with timeouts and retries |
| `AudioControlWrite.c` | bytes written so far | write all of a command | `write(2)` |
| `AudioControlValidation.c` | none | parse, match, decide | called by the profile |
| `IRcontrol.c` | 20 taught sequences (`IR_Dat.bin`) | send, teach | one-way: nothing comes back from the devices |
| `PositionControl.c` | taught positions (`PC_Dat.bin`), offset | move, button, test, teach, sequence | relays, angle sensors, zoom |
| `ZoomControl.c` | zoom values (`zoomValues.bin`), the last one being where the zoom is believed to be | timed moves of a servo | called between two readings of a move |
| `PositionDirect.c` | sensor handles | read an angle | I2C |
| `timer.c`, `system.c`, `pigpio_adapter.c` | clock, library handle | wait, expire, pin table | gettimeofday, pigpio |

The program has no threads. What makes it hard is around it:

* **Processes.** Each command is a process. Start, exit and kill interleave, the
  lock file lives longer than a process, and so do the relays: a pressed button
  is one process and its release another. The next process knows what the files
  say and not what the devices do.
* **A slow and lossy line.** The mixer may answer after the program has stopped
  waiting, and a question is then asked twice. Volume commands are never
  acknowledged.
* **Steps that fail one by one.** Sound, picture, beamer and file are changed in
  this order by one command, and each of the steps can fail.
* **Torn files.** Every data file is emptied, then written, and only the first
  of the two is checked.
* **No feedback.** Beamer and zoom have a remembered state only.

What makes each component correct, in a sentence: the *lock* lets no two
commands run together; a *profile* is reported set only if the mixer has it,
and the call always returns; *written* is what was sent, whole and in order; a
*command* reports success only if all of it happened, and what it remembers of
the beamer is what the beamer shows; a *taught sequence*, once a save went
through, is the whole signal and nothing else; a *move* never drives an axis both ways, holds the remote locked as
long as a motor runs, and stops at its target.

## Modules

| Module | Models | Properties | Theorems in |
|---|---|---|---|
| `AudioProfile` | `AC_Profile` with all it calls, the line and the mixer | `VerifiedMeansSet`, `OnTimeInv`, `LossRepaired`, `GentleFade`, `PromiseKept`, `Termination` | `AudioProfileProofs` |
| `ProfilePromise` | what a caller of `AC_Profile` may rely on | (the abstract specification) | |
| `AudioWrite` | `AC_WriteAllWith` under a series of `AC_write` | `InOrder`, `SuccessMeansSent` | `AudioWriteProofs` |
| `InstanceLock` | `only_one_instance`, `ooi_unlink` | `ExclusiveWithoutOverlap`, `OpenIsEntry`; `OnlyOneInstance` fails | `InstanceLockProofs` |
| `Processes` | `main` around a command: lock, `SYSTEM_Initialize`, pins, direction buttons, `atexit` | `PinsNotShared`, `LastButtonActs`, and those of the lock | `ProcessesProofs` |
| `CommandInterpreter` | `CIexecuteCommand`, `CIsequencer`, `CItestSequence`, `AC_Teach`, `PC_Sequencer`, `PC_Test`, `PC_Teach`, the files of interpreter, audio and positions | `ToggleTracksBeamer`, `ToggleToggles`, `SuccessIsComplete`, `PictureAfterSound`, `MovesPrepared`, `TaughtIsKept`; `ToggleIsBeamer`, `ActiveIsVerified` fail | `CommandInterpreterProofs` |
| `IRTeach` | `IR_SequenceIn`, `IR_writeDatFile` | `PlaysTheFrame`, `OnlyABeginning`, `TeachEnds`; `SuccessMeansSaved` fails | `IRTeachProofs` |
| `PositionControl` | `PC_Move`, `PC_MoveButton`, `PC_Test_Pos`, `PC_shutdown`, an angle read while the axis moves | `NickInterlock`, `GierInterlock`, `LockedWhileMoving`, `MoveArrives`, `MoveEndsInTime` | `PositionControlProofs` |
| `ZoomControl` | `ZoomControl.c`, what `PC_Move` and `PC_Teach` do with the zoom | `KnowsZoom`, `RecallsZoom` | `ZoomControlProofs` |

Each module has an `MC` module that TLC runs and one `.cfg` for each run. A
definition `X_y` is a faulty variant of `X`, the way a plausible bug would make
it; `PROJECT.json` says which property it breaks. No definition uses it.

### AudioProfile

`pc` is where `AC_Profile` is: before it (`start`), asking a channel for its
volume (`query`), reading the answer (`await`), in the loop of `AC_Control`
(`control`), comparing (`verify`), left (`done`). The code's variables keep
their names; `phase` tells the read before the fade from the one after it,
`channel` and `try` are the loop variables of `AC_GetVolume` and
`AC_GetVolumeChannel`. Commands travel in `cmds`, answers wait in `rx`. One
action is one call that can fail: the flush with the question, one read, one
volume step, the end of a fade round, the decision. The mixer serves the oldest
command whenever it likes; that is how an answer becomes late, and `late` records
that the program gave up on something that was still on its way.

The code's `char` arrays become records: an answer is a channel with a volume,
or garbled. Waiting times are choices: a timeout may expire whenever the program
waits, because the line may be arbitrarily slow.

`VerifiedMeansSet` is the property the component is for. It holds with late
answers too, but not for a reason that is visible in any one line: the line is
first in first out, a question is repeated once only, and the mixer answers with
the channel's number, so that an answer taken for a later one is never older
than the last step of the fade. The mutant `Parses_anyChannel` shows that it
hangs on the channel in the answer.

`PromiseKept` says that `AudioProfile` implements `ProfilePromise`, under the
mapping at the end of the module: `outcome` is `working` until `done`, then
`verified` or `refused`; the active profile advances with the outcome, in one
step and nowhere else; after a verified call nothing is left on the line that
would move the mixer away, while a refused one (`FadeTimeout`, a write error)
leaves commands the mixer still carries out.

### AudioWrite

The loop takes parts until it has the length; `wire` is what the kernel took.
`NumCommands` commands of one length stand for the callers, all of which stop at
the first error. This module is the reason why a command is atomic on the line
of `AudioProfile`: either all its bytes are out, or the call has failed.

### InstanceLock

A lock file is an inode, a directory names at most one, a process holds the one
it opened. An inode that no name and no process has any more is used for the next
new file, as a file system does, so starts are not bounded. `OpenFile` and `Acquire` are separate because open and fcntl are;
`ReturnFromMain` is the atexit handler and `Exit` the kernel releasing the lock
after it. The libraries' signal handlers that end the program through `exit` are
`ReturnFromMain` at any time, SIGKILL is `Kill`. `overlap` records the one
interleaving in which the lock is not exclusive: an exit unlinks the file while
another process is between open and fcntl. It is forgotten when all processes are
gone, because then nobody holds a file without a name: `ExclusiveWithoutOverlap`
says that the lock is exclusive again from there.

### Processes

A process from `only_one_instance` to its last `atexit` function, next to
others. It `EXTENDS InstanceLock`: `Launch`, `Enter`, `Refuse`, `OoiUnlink`,
`Leave` and `Killed` contain a step of the lock each, and `Initialize`, the
command's own steps (`Write`) and `RPI_Terminate` leave the lock as it is.
`handlers` is the list `atexit` keeps, the last registered first; `driver` are the
processes between `gpioInitialise` and `gpioTerminate`. The five buttons write the
relays of both axes and of the remote; before that comes `PC_Init`, and when it
fails the button writes nothing (`Execute`, `ComInt.c:410`). An audio command
stands for all that switch no relay.

`PinsNotShared` depends on the order of two registrations in two files: if
`ooi_unlink` ran before `RPI_Terminate`, the next process would start while the
pins are still driven. `LastButtonActs` is what a user of the direction buttons
expects although each press and the release are processes of their own: `wanted`
is what the buttons used so far call for, axis by axis, and when no process is
left the relays are that. `excused` records the cases in which it does not hold,
and a release that acts ends it: the process of this release or of a press after
it was refused because another one was still running, was killed, got no pins, or
failed in `PC_Init`; an overlap, or a process with another lock directory, let two
of them write at once. In these cases the code lets a motor run on or turn
another way than the buttons say. That a refused process leaves the lock file
alone is part of the reason why the rest holds, as the mutant shows.

### CommandInterpreter

A command is a sequence of steps, written as the code calls them (`CI_PAUSE`,
`View`, ...), and `if(result == IR_SUCCESS)` is a step that skips the ones it
guards. Results are only compared with success, so the OR of error codes is a
set. `ProfileStep` is `AudioProfile` in one step, which `PromiseKept` justifies:
verified, or refused with a mixer left anywhere; `MoveStep` is `PC_Move`,
`IrTeachStep` is `IRTeach`. `Send` is `IR_SequenceOut`; the devices take a
signal whenever it is sent, that is the assumption on the one-way link. `parts`
are the sequences of which a torn save has left a part in `IR_Dat.bin` (`TearsAt`):
`IR_readDatFile` does not notice, `IR_SequenceOut` sends the part with success, and
the device does not react. `SuccessIsComplete` and `MovesPrepared` name this case;
no other success leaves a device behind.
`OpenStep` and `WriteStep` are the two halves of `CI_writeDatFile`, with a kill
possible between them; `OpenAcStep` and `WriteAcStep`, `OpenPcStep` and
`WritePcStep` those of the files with the profiles and the positions, of which
the model keeps whether they are the taught ones or zeros.

`disturbed` records the events after which nobody could know the beamer's state;
`Disturb` lists them. It ends with the next signal the beamer takes from a command
that keeps the state (`Settle`): so a kill, an endless `CItestSequence` or a
`CI_BEAMER_ANALOG` without sound spoils the toggle only until the beamer is
switched again. That the list is needed is what `ToggleIsBeamer` shows, and
that nothing else is needed is `ToggleTracksBeamer`: in particular no failure of
the mixer in any command other than the two listed, and no other command between
two toggles. `lost` does the same for taught data: a process that could not read
them and saves nevertheless, a kill or a full disk in the middle of a save.
`TaughtIsKept` says that nothing else loses them. `MovesPrepared` is the promise
of `PC_Sequencer`: the mount is driven only after the sound was verified and the
picture switched away from it, and to positions that were taught.

### IRTeach

Slots hold the number of the edge captured, 0 is empty. `Pause` leaves only the
inner loop, as the code does, so that the file is written once for every slot
that stays empty, while the remote may repeat its signal. `PlaysTheFrame` holds
nevertheless, because a sequence is played up to its first empty slot.

Each save empties the file and writes its 32000 bytes in several pieces, of which
a full disk or a kill may leave any beginning (`Beginning`). The sequence taught
may then be whole, cut at a slot, or gone, and `IR_readDatFile` takes each for a
sequence. `save` records how the last save went. `PlaysTheFrame` holds from a save
that went through, until one is torn; `OnlyABeginning` holds always: what is played
after a torn save is a beginning of the frame sent first, and without one it is
all of it, nothing, or the old sequence. The cut is at whole slots: a slot has 16
bytes, of which 4096, the unit a file is written in, is a multiple.

### PositionControl

`out` is what the process is about to write to the relays, one write a step, so
that a kill fits between any two; `on` is what the relays show, and survives the
process. The axes move while the angles are read and while a round waits (`Move`
in `Round` and `Wait`, an axis once a round), and while no process runs. `fault`
records that a sensor failed, an axis stuck or a process was killed; only
`MoveArrives` and `MoveEndsInTime` excuse it. `cut` records that a kill has come
between the two writes of the gier axis, until one of its relays is off again, and
is all that `GierInterlock` excuses: it holds with failed sensors and stuck axes.
`Undefined` is a button of no direction, which locks the remote and then does what
a release does. `stray` records that a motor was left running, by a timeout or by an
earlier process, until all stand still: PC_Move unlocks the remote at its end
whether or not the motors stopped, so `LockedWhileMoving` exempts those. The
lock that `PC_Test_Pos` sets for its five minutes ends with its first move.

An angle is two registers, read one after the other. `Register` takes the high
part of the angle before the motion of the reading and the low part of the one
after it, with `LowByte` angles to a low register instead of 64. The sensors
count against the clock, so a mixed reading lags behind the motion, for both
directions: a move can run past its target by two units, never stop short of it
(`MoveArrives`). The mutant reads the low register first and stops short.

### ZoomControl

Nothing measures the zoom. `zoom` is where it is, `value.last` (element 20 of
`_AZ_ZoomValue`) where the process believes it to be, `file.last` where the next
process will. A `Tick` is a hundredth of `CalibrationTime`; it moves a deflected
servo's zoom by one step whether or not a process waits for it. A move is timed
by the difference of two positions, a reference move by six seconds (the comment
at `ZoomControl.c:197` says fifteen; the constant beside it is followed), which
`RefTimeAssumption` takes to be enough for the whole range. `MoveToPos` goes on
from a reference to entry 0, and every command ends with the file, emptied and
then written.

`disturbed` becomes true when the program can no longer know: at a kill during a
move or while the file is behind, a move noticed too late or given up by
`PC_Move`, a position beyond the range, a servo command, a calibration (which
drives to the end of the range and remembers entry 0), a file that could not be
written. It becomes false at the end of a reference move and nowhere else, and it
is true at the start, where nothing is known of the zoom. `KnowsZoom` is then the
contract of the component: this list is complete, and one reference move repairs
everything on it. `RecallsZoom` ties teaching to moving, through the file and any
number of processes between them; it is stated for entries whose values were not
lost with a file that was emptied and not written.

## Runs

| Run | Bounds | Why they are enough |
|---|---|---|
| `audio_profile` | 2 channels, volumes 0..2, 2 profiles, 2 losses | another channel's answer, another profile, both retries used up, a fade of two steps; all stored bytes including an implausible one, all mixer states |
| `audio_fade` | 1 channel, volumes 0..5, 2 losses | a range longer than the jump two losses allow; the fade of a channel does not depend on the others |
| `audio_write` | 8 commands of 7 bytes | all splits of a command, several commands before and after a failure |
| `processes` | 2 processes that start again and again, 2 directories, 3 lock files at a time | a holder or one that is leaving, and one that waits to lock or starts; all buttons on both axes one after the other; more files than names, so that an inode is used again and one may be without a name; what a third process does to the lock is in `instance_overlap` |
| `instance_overlap` | 3 processes, 1 directory, 3 files | violation: see findings |
| `command_interpreter` | all commands and faults; all sequences taught, or one of the beamer's or of the switch's missing; one profile taught again; a torn `IR_Dat.bin` ends in one of 2 sequences, of the switch or of the beamer | commands follow each other without bound, the state is finite |
| `toggle_after_failure`, `active_profile` | the same, with one kind of failure or none | violations: see findings |
| `ir_teach` | 6 slots, frames of 1 to 7 edges, up to 3 of them | frames that leave slots, fill all but one, fill all, do not fit |
| `ir_long_frame` | the same, one frame, no faults | violation: see findings |
| `position_control` | angles 0..3, 2 of them to a low register, every target, 5 rounds, a move of the test, all faults | both directions of both axes, a carry from the low to the high register on the way, a timeout before arrival, relays left on by any process for any other |
| `zoom_control` | range 0..3, positions up to 4, 2 entries, reference move of 3, all faults, every initial file and zoom | both references, positions between them and one beyond, a reference move just long enough, entry 0 different from the one recalled |

Symmetry is used for the processes and directories of the lock, which are
interchangeable and in no liveness property. `CHECK_DEADLOCK FALSE` is set where
a call ends and nothing follows (`AudioProfile`, `AudioWrite`, `IRTeach`).

Bounds are in the guards by name: `MaxLost` (losses), `MaxInodes` (lock files
there are at the same time), `MaxFrames` (signals a remote sends), `MaxRounds` (60
seconds), `MaxTests` (five minutes). `Cuts` are the sequences at which a torn
`IR_Dat.bin` may end.

### Fairness

`AudioProfile!FairSpec` asks weak fairness of the program's steps only: every
wait in it polls and has a timeout, so the program always has a step. Nothing is
asked of mixer and line; `Termination` holds with a silent one. What fairness does
not cover is a `write(2)` that blocks for ever in the kernel. `IRTeach!FairSpec`
asks it of the timeout and of the polling loop, which is never blocked; an edge
is part of the loop's step because a frame once begun is sent to its end. The
other modules state safety only.

### Findings

* `OnlyOneInstance`: two instances can run together when a start overlaps an
  exit (`main.c:34`, comment at `main.c:66`).
* `ToggleIsBeamer`: `CI_BEAMER_ANALOG` saves a beamer state it did not establish
  (`ComInt.c:272`, comment at `ComInt.h:57`).
* `ActiveIsVerified`: `CI_RESET` sets the active profile before it is verified
  (`ComInt.c:219`, comment at `AudioControl.c:697`).
* `SuccessMeansSaved`: an infrared signal that fills all slots is not saved and
  teaching reports success (`IRcontrol.c:147`, software documentation line 308).

## Proofs

Every safety property and action property of a passing run is a theorem. The
theorems hold for every value of the constants that satisfies the named
`ASSUME`s: positive sizes, a bound in Nat, and for the interpreter
`TaughtAssumption`, that what is taught at the start are sequences there are. Two
theorems have a hypothesis of their own, `NumChannels > 1`, which the code's four
channels meet, and `MaxRounds > MaxAngle`, which rests on the speed of the mount;
both are explained below.

No property is inductive as it stands. What each one needs:

**`AudioProfileProofs`**

* `TypeCorrect` goes action by action, a lemma for each group.
* `LineInStep`: `OnTimeInv`, inductive together with `TypeOK`, says what holds
  without a wait given up too early. A question is the last command on the line
  (`NoGetUnlessAwaited`) and its answer the only one and current
  (`AnswerIsCurrent`), so the channels read so far are the mixer's
  (`ReadIsCurrent`) and stay so, because only questions are on the line while a
  read goes on; at the comparison the line is empty and what was read is what
  the mixer has (`SettledWhenCompared`). `VerifiedProfileIsSet` follows from it.
* `VerifiedIsSet` does without punctuality. `FreshInv`: the questions on the line
  are for the channel being read or for the one read before it
  (`AsksAreRecent`), and those for the channel being read are behind everything
  else (`AsksAreLast`). So when an answer for this channel arrives, an old one or
  not, only questions for it are still on the line and the mixer will not change
  any more (`AnswerIsFresh`). The argument needs a channel between two questions
  for the same one, hence `NumChannels > 1`; the code has four.
* `PromiseIsKept`: under the mapping of `PromiseKept` each action is a step of
  `ProfilePromise` or a stutter, one lemma for each group. `FreshInv` is what makes
  `Accept` a step that verifies, and what keeps the mixer as it is after it.
* `FadeIsGentle`: `FadeInv` follows the volume commands of one channel through the
  line. The first is one step from the mixer, each other one step from the one
  before, all toward the goal, and the last is what the program believes
  (`Underway`, `LeadsTo`); each lost command makes the first step longer by one.
* `LossIsRepaired`: `LossInv` counts. A read that is asked again, a profile that
  is begun again, an answer that will not come and a volume that no command under
  way will set (`Setbacks`) are never more than the messages lost. As both limits
  are two, a call that fails for one of these reasons has lost two.

**`AudioWriteProofs`**: `BytesInOrder` and `SuccessIsComplete` from `WriteInv`,
which adds to the two properties that the last byte on the wire is the one the
program's counters name.

**`InstanceLockProofs`**: `ExclusionInv` is the type, `OneHolder` and `OpenIsEntry`
together. A file has one holder, and without an overlap whoever has opened or
locked a file has the one the directory names, so two with the same directory
have the same file (`Exclusive`). An inode is used again only when no process and
no name has it (`Fresh`), and an overlap is over only when nobody is left
(`OverlapStays`).

**`ProcessesProofs`**

* `LockImplemented`: every step of the whole program is a step of `InstanceLock`
  or leaves its variables alone, so its theorems hold for the program.
* `PinsExclusive` from `HandlersInOrder`, which says what `atexit` has registered
  at each stage of a process; the property says nothing of the handlers that are
  still to run.
* `LastButton` from `LastInv`: when one process is left whose button is still to
  take effect (`Pending`), what it has to write (`Finish`) leads from the relays as
  they are to the wanted ones (`OnTheWay`); when none is, the relays are the wanted
  ones. Of two, one will be refused, which is excused, because while one runs the
  other can only wait for the lock. The exclusion is part of the argument, so
  `ExclusionInv` is carried along.

**`CommandInterpreterProofs`**. The commands are data, sequences of steps, and
what they have in common is proved of all of them first (`Whole`): a write follows
its open, the state of the beamer its signal, a jump goes over or back to a step
that may be reached so. Then:

* `TypeCorrect` from `Placed`: what is left to do is what follows the place
  reached in the command.
* `TaughtOutlives` from `KeptInv`: behind a guard the result is success
  (`GuardInv`), so where positions are saved they are the ones read
  (`TableInv`), and a file is without its data only between its two halves.
* `ToggleTracked` and `ToggleActs` from `ToggleInv`: between a signal to the
  beamer and the end of the save the state of the process agrees with the beamer,
  outside of it that in the file does. It holds after a signal whatever was before
  it, which is why the signal may end `disturbed`.
* `SoundComesFirst`, `MountIsPrepared` and `SuccessMeansAll` from `AgreeInv`: as
  long as the result is success, mixer, active profile, HDMI switch and beamer are
  as the last of the steps done that concerns them wants it. The two orders add
  that switching and driving are behind a guard (`SignalGuarded`, `GuardAt`); the
  step that is the last of a kind is found with the well-founded order of Nat.

**`IRTeachProofs`**: `TeachInv` tells the slots of the first frame from the later
ones. Until the slot behind the frame is passed, the edges captured are the
slots filled (`FirstFrame`); from then on the table has the frame and an empty
slot, whatever a repetition puts behind it (`LaterSlots`), and only then it is
saved (`WritesWhole`). What a torn save leaves of such a table plays a beginning of
the frame (`BeginningOf`), and only that (`Saved`).

**`PositionControlProofs`**

* The interlocks from `InterlockInv`: `LeftToWrite` says of what a process has
  still to write that it never sets both relays of an axis, and that before each
  set (or, for gier, right after it) the opposite relay is off or about to be
  cleared. Every sequence the program begins is `Orderly`, which is the same
  without looking at the relays, so a process that finds relays on needs no case
  of its own, nor does a kill, but the one `cut` records.
* `RemoteLocked` from `RemoteInv`: a sequence that starts a motor locks first
  (`LocksFirst`), one that unlocks does it last and has stopped what is on
  (`UnlocksLast`), and a move that is not over drives only what has not arrived
  (`MoveDrives`). For interlocks and lock the sensors play no part: they hold for
  any reading.
* `MoveArrivesAtTarget` and `MoveIsInTime` from `CourseInv`. The lemmas of the
  reading come first: two registers read around a motion of one unit give the
  angle before it, the one after it, or, where the high register changes, one
  that lies behind (`Sight`), and two such places are not next to each other
  (`NoSecondLag`). So an axis on its way has come at least as far as rounds have
  passed and not further than one unit beyond its target (`OnItsWay`), and one
  that has arrived coasts one unit at most (`Stopped`). After as many rounds as
  there are angles every axis has arrived, hence `MaxRounds > MaxAngle`: the code
  makes a round every 35 ms for sixty seconds, 1700 of them, and as a unit is more
  than half a degree an axis has less than 720. That a driven axis moves one such
  unit in a round is an assumption; nothing in the repository says how fast the
  mount is.

**`ZoomControlProofs`**: `ZoomIsKnown` from `ZoomInv`, which says where the zoom is
in the middle of a move: the way left is the time left (`OnTheWay`), and a
reference move has at least as much time left as way, also when disturbed
(`Referencing`); the latter is why its end may clear `disturbed`. `ZoomIsRecalled`
adds `RecallInv`: file and arrays have what was seen when an entry was taught
(`EntriesKept`), and a move has it as its goal to the end (`GoesToEntry`).

Model-checked only: everything under fairness (`Termination`, `TeachEnds`), which
the prover does not do. The findings are counterexamples of TLC.

## Assumptions and omissions

* The line loses, delays and garbles, and never turns one valid answer into
  another; bytes of an earlier process have drained before the port is opened
  again (`AC_open` flushes what has arrived).
* An axis moves at most one unit between the two registers of an angle.
* A GPIO level stays when the process ends. pigpio, the mixer, the remotes, the
  devices and the motors are outside the program and marked external in the map.
* An infrared signal that is sent arrives, and the taught sequences mean what
  `ComInt.c` says they do; sending a selection twice is sending it once.
* `RASPI_CONFIG_PTZ_CAM_ENABLED` is 0, its default: otherwise `PC_Move` does
  nothing. The documentation calls position and zoom control legacy; the code is
  all there and reachable from the command line, so it is modelled.
* The servo stays where it was last put when its process ends, the zoom takes one
  step a tick (at a reference move at least one), and six seconds cover its range.
* An axis that is driven and not stuck moves one unit of angle in a round, the
  mechanical ends lie within one turn, and a unit is more than the 0.5 degrees
  the code ignores.
* Not modelled: position indices beyond the tables (20 positions, none of the
  callers checks them), contents of the data files other than the values a
  property is about, how `AC_Execute` edits its command templates (a process sends
  one such command, so an edited template is never sent again), the log, formatting and parsing of characters, pulse
  lengths and carrier of infrared signals, averaging and programming of the
  sensors, the clock being set, the commissioning test, code nothing calls.

## Plan

Done: the audio profile and its write loop, the lock and the whole process
around a command, the interpreter with all its commands, infrared teaching,
camera moves with the reading of an angle, the zoom, and the proofs of all their
safety properties. Next:

1. The characters of an answer: `AC_ParseVolumeResponse` over bounded inputs
   against a definition of a well-formed answer.
2. A clock that is set while a timeout is pending.
3. Proofs: the counting lemmas of `Whole` shared by the families of commands.
