----------------------------- MODULE ZoomControl -----------------------------
(***************************************************************************)
(* The camcorder's zoom (ZoomControl.c) and what the camera mount does     *)
(* with it (PC_Move, PC_Teach). Nothing reports where the zoom is: a servo *)
(* is deflected for as long as the distance takes, and the position        *)
(* reached is remembered in a file, for the next process. Two positions    *)
(* are references, driven to for long enough to arrive from anywhere.      *)
(*                                                                         *)
(* A tick is the time the zoom takes for one step of its range, one        *)
(* hundredth of CalibrationTime. MaxZoom stands for the position 100.      *)
(***************************************************************************)
EXTENDS Integers, FiniteSets

CONSTANTS
    MaxZoom,        \* the end of the range, the code's 100
    RefTime,        \* ticks of a reference move, the code's six seconds
    MaxByte,        \* the largest position, the code's 255
    Positions,      \* the arguments of CI_ZOOM_MOVE
    LastEntry,      \* the entries of _AZ_ZoomValue that are used are 0..LastEntry
    Faults          \* what may go wrong: "kill", "late", "timeout", "open", "write"

ASSUME RangeAssumption == MaxZoom \in Nat \ {0} /\ MaxByte \in Nat /\ MaxByte >= MaxZoom
\* Six seconds are enough for the whole range.
ASSUME RefTimeAssumption == RefTime \in Nat /\ RefTime >= MaxZoom
ASSUME PositionsAssumption == Positions \subseteq 0..MaxByte
ASSUME EntriesAssumption == LastEntry \in Nat
ASSUME FaultsAssumption == Faults \subseteq {"kill", "late", "timeout", "open", "write"}

VARIABLES
    pc,         \* "none" without a process, else where ZoomControl.c is
    call,       \* the command that runs, or the last one that ran
    id,         \* the entry it is about
    goal,       \* _AZ_Next_Position
    home,       \* MoveToPos still has to go on to entry 0
    left,       \* what is left of _AZ_Move_Timeout
    value,      \* _AZ_ZoomValue in this process, its element 20 as `last'
    file,       \* zoomValues.bin
    servo,      \* the servo, which stays where it was put
    zoom,       \* where the zoom is
    disturbed,  \* something happened since the last reference move (see Kill,
                \* Late, MountTimeout, ...) that the program cannot know of
    seen        \* history: the zoom an entry was taught at

program == <<pc, call, id, goal, home, value>>
vars == <<program, left, file, servo, zoom, disturbed, seen>>

Deflections == {"left", "middle", "right"}
Entries == 0..LastEntry
References == {0, MaxZoom}
Unknown == -1
Nothing == [e \in Entries |-> Unknown]

\* A process starts with an array of zeros and reads what the file has.
ValuesIn(max) == [table : [Entries -> 0..max], last : 0..max]
Zeros == [table |-> [e \in Entries |-> 0], last |-> 0]

Calls == {"move", "calibrate", "test", "servo", "mount", "teach", "killed"}

TypeOK ==
    /\ pc \in {"none", "init", "move", "ended", "save", "opened", "return", "calibrating"}
    /\ call \in Calls
    /\ id \in Entries
    /\ goal \in 0..MaxByte
    /\ home \in BOOLEAN
    /\ left \in Nat
    /\ value \in ValuesIn(MaxByte)
    /\ file \in ValuesIn(MaxByte)
    /\ servo \in Deflections
    /\ zoom \in 0..MaxZoom
    /\ disturbed \in BOOLEAN
    /\ seen \in [Entries -> 0..MaxZoom \union {Unknown}]

-----------------------------------------------------------------------------
(* The calculations of the move task. *)

Abs(n) == IF n < 0 THEN -n ELSE n

Timeout_signed(to, from) == IF to \in References THEN RefTime ELSE to - from
Timeout_difference(to, from) == Abs(to - from)
Timeout(to, from) == IF to \in References THEN RefTime ELSE Abs(to - from)

Direction(to, from) ==
    IF to = 0 THEN "left" ELSE IF to = MaxZoom \/ to > from THEN "right" ELSE "left"

\* One tick of a deflected servo, up to the ends of the range.
Driven ==
    CASE servo = "left"  /\ zoom > 0       -> zoom - 1
      [] servo = "right" /\ zoom < MaxZoom -> zoom + 1
      [] OTHER -> zoom

-----------------------------------------------------------------------------
(* A command: ZoomControl_init and the function called after it.           *)

Init ==
    /\ pc = "none" /\ call = "killed" /\ id = 0 /\ goal = 0 /\ home = FALSE /\ left = 0
    /\ file \in ValuesIn(MaxZoom) /\ value = file
    /\ servo \in Deflections /\ zoom \in 0..MaxZoom
    /\ disturbed = TRUE /\ seen = Nothing

Start(c, e, position) ==
    /\ pc = "none" /\ pc' = "init"
    /\ call' = c /\ id' = e
    /\ value' = file
    /\ goal' = position
    /\ home' = (c # "mount" /\ position \in References)
    /\ UNCHANGED <<left, file, servo, zoom, disturbed, seen>>

MoveToPos(p)  == Start("move", 0, p)
Calibrate     == Start("calibrate", 0, 0)
TestPositions == Start("test", 0, MaxZoom)
MountMove(e)  == Start("mount", e, file.table[e])

\* _AZ_Next_Position in place of element 20: zero in a process that just started.
Taught_next(e) == [file EXCEPT !.table[e] = 0]
Taught(e) == [file EXCEPT !.table[e] = file.last]

MountTeach(e) ==
    /\ pc = "none" /\ pc' = "save"
    /\ call' = "teach" /\ id' = e
    /\ value' = Taught(e)
    /\ goal' = 0 /\ home' = FALSE
    /\ UNCHANGED <<left, file, servo, zoom, disturbed, seen>>

\* CI_ZOOM_SERVO_MOVE puts the servo somewhere and returns; any number that is
\* not a deflection is the middle.
ServoMove(to) ==
    /\ pc = "none"
    /\ call' = "servo" /\ servo' = to /\ value' = file /\ goal' = 0
    /\ disturbed' = (disturbed \/ to # "middle")
    /\ UNCHANGED <<pc, id, home, left, file, zoom, seen>>

-----------------------------------------------------------------------------
(* The move task. *)

\* AZ_TASK_INITIALIZE, the zoom being where it is to go: the servo is not touched.
NothingToDo ==
    /\ pc = "init" /\ goal = value.last /\ goal \notin References
    /\ pc' = "ended"
    /\ UNCHANGED <<call, id, goal, home, value, left, file, servo, zoom, disturbed, seen>>

\* AZ_TASK_INITIALIZE. A position beyond the range is timed like any other.
Begin ==
    /\ pc = "init" /\ (goal # value.last \/ goal \in References)
    /\ servo' = Direction(goal, value.last)
    /\ left' = Timeout(goal, value.last)
    /\ disturbed' = (disturbed \/ goal > MaxZoom)
    /\ pc' = "move"
    /\ UNCHANGED <<call, id, goal, home, value, file, zoom, seen>>

\* Time passes for a deflected servo, whether or not a process waits for it.
Tick ==
    /\ servo # "middle"
    /\ pc \in {"move", "calibrating"} => left > 0
    /\ left' = IF pc \in {"move", "calibrating"} THEN left - 1 ELSE left
    /\ zoom' = Driven
    /\ UNCHANGED <<program, file, servo, disturbed, seen>>

\* isExpired, for the time the servo was deflected for, and the end of wait.
TimeIsOver == left = 0

\* PC_Move calls the task only between two readings of its sensors, and is late.
Late ==
    /\ "late" \in Faults /\ pc = "move" /\ call = "mount" /\ TimeIsOver
    /\ zoom' = Driven
    /\ disturbed' = (disturbed \/ zoom' # zoom)
    /\ UNCHANGED <<program, left, file, servo, seen>>

\* AZ_TASK_MOVE, the time being over. After a reference move the zoom is where
\* the program believes it to be, whatever happened before.
Expire ==
    /\ pc = "move" /\ TimeIsOver
    /\ servo' = "middle"
    /\ value' = [value EXCEPT !.last = goal]
    /\ disturbed' = (disturbed /\ goal \notin References)
    /\ pc' = "ended"
    /\ UNCHANGED <<call, id, goal, home, left, file, zoom, seen>>

\* The 60 seconds of PC_Move end before the zoom's time does.
MountTimeout ==
    /\ "timeout" \in Faults /\ pc = "move" /\ call = "mount"
    /\ pc' = "save"
    /\ disturbed' = TRUE
    /\ UNCHANGED <<call, id, goal, home, value, left, file, servo, zoom, seen>>

\* PC_Move may call the idle task on, which puts the servo in the middle.
IdleTask ==
    /\ pc = "ended" /\ call = "mount"
    /\ servo' = "middle"
    /\ UNCHANGED <<program, left, file, zoom, disturbed, seen>>

\* MoveToPos goes on from a reference to the first entry.
GoHome ==
    /\ pc = "ended" /\ home
    /\ goal' = value.table[0] /\ home' = FALSE
    /\ pc' = "init"
    /\ UNCHANGED <<call, id, value, left, file, servo, zoom, disturbed, seen>>

MoveDone ==
    /\ pc = "ended" /\ ~home
    /\ pc' = "save"
    /\ UNCHANGED <<call, id, goal, home, value, left, file, servo, zoom, disturbed, seen>>

-----------------------------------------------------------------------------
(* ZoomControlwriteDatFile and what follows it. *)

\* Opening the file for writing empties it; an empty file reads as zeros.
OpenDat ==
    /\ pc = "save" /\ pc' = "opened"
    /\ file' = Zeros
    /\ UNCHANGED <<call, id, goal, home, value, left, servo, zoom, disturbed, seen>>

OpenFails ==
    /\ "open" \in Faults
    /\ pc = "save" /\ pc' = "return"
    /\ disturbed' = (disturbed \/ file.last # value.last)
    /\ UNCHANGED <<call, id, goal, home, value, left, file, servo, zoom, seen>>

WriteDat ==
    /\ pc = "opened" /\ pc' = "return"
    /\ file' = value
    /\ seen' = IF call = "teach"
                 THEN [seen EXCEPT ![id] = IF disturbed THEN Unknown ELSE zoom]
                 ELSE seen
    /\ UNCHANGED <<call, id, goal, home, value, left, servo, zoom, disturbed>>

\* Nobody looks at what fwrite and fclose return.
WriteFails ==
    /\ "write" \in Faults
    /\ pc = "opened" /\ pc' = "return"
    /\ disturbed' = TRUE /\ seen' = Nothing
    /\ UNCHANGED <<call, id, goal, home, value, left, file, servo, zoom>>

Return ==
    /\ pc = "return" /\ call \in {"move", "mount", "teach"}
    /\ pc' = "none"
    /\ UNCHANGED <<call, id, goal, home, value, left, file, servo, zoom, disturbed, seen>>

\* The test goes to its entries in turn; how many rounds is left open.
TestNext ==
    /\ pc = "return" /\ call = "test"
    /\ id' = (id + 1) % (LastEntry + 1)
    /\ \/ /\ pc' = "init"
          /\ goal' = value.table[id] /\ home' = (goal' \in References)
       \/ /\ id = 0 /\ pc' = "none" /\ UNCHANGED <<goal, home>>
    /\ UNCHANGED <<call, value, left, file, servo, zoom, disturbed, seen>>

\* From the first entry the zoom is driven for the time of the whole range,
\* and nothing remembers that.
CalibrationRun ==
    /\ pc = "return" /\ call = "calibrate"
    /\ servo' = "right" /\ left' = MaxZoom /\ disturbed' = TRUE
    /\ pc' = "calibrating"
    /\ UNCHANGED <<call, id, goal, home, value, file, zoom, seen>>

CalibrationEnd ==
    /\ pc = "calibrating" /\ TimeIsOver
    /\ servo' = "middle"
    /\ pc' = "none"
    /\ UNCHANGED <<call, id, goal, home, value, left, file, zoom, disturbed, seen>>

\* The process is killed: the servo stays, and so does what the file has.
Kill ==
    /\ "kill" \in Faults /\ pc # "none" /\ pc' = "none"
    /\ call' = "killed"
    /\ disturbed' = (disturbed \/ servo # "middle" \/ file.last # value.last \/ pc = "opened")
    /\ seen' = IF pc = "opened" THEN Nothing ELSE seen
    /\ UNCHANGED <<id, goal, home, value, left, file, servo, zoom>>

Next ==
    \/ \E p \in Positions : MoveToPos(p)
    \/ Calibrate \/ TestPositions
    \/ \E e \in Entries : MountMove(e) \/ MountTeach(e)
    \/ \E to \in Deflections : ServoMove(to)
    \/ NothingToDo \/ Begin \/ Tick \/ Late \/ Expire
    \/ MountTimeout \/ IdleTask \/ GoHome \/ MoveDone
    \/ OpenDat \/ OpenFails \/ WriteDat \/ WriteFails
    \/ Return \/ TestNext \/ CalibrationRun \/ CalibrationEnd
    \/ Kill

Spec == Init /\ [][Next]_vars

-----------------------------------------------------------------------------
(* Properties. *)

\* After a reference move, whatever came before it, and any number of moves and
\* processes without a disturbance, the zoom stands where zoomValues.bin says.
KnowsZoom == pc = "none" /\ ~disturbed => zoom = file.last /\ servo = "middle"

\* PC_Move to a taught position brings back the zoom it was taught with, with
\* any number of moves, tests, failures and reference moves in between.
RecallsZoom ==
    pc = "none" /\ call = "mount" /\ ~disturbed /\ seen[id] # Unknown => zoom = seen[id]
=============================================================================
