--------------------------- MODULE PositionControl ---------------------------
(***************************************************************************)
(* The relays of the camera mount: PC_Move, PC_MoveButton, PC_Test_Pos and *)
(* PC_shutdown of PositionControl.c, one process after another, each write *)
(* to a relay a step.                                                      *)
(*                                                                         *)
(* A relay keeps its level when the process that set it ends: a pressed    *)
(* button is one process, its release another, and a move that times out   *)
(* or is killed leaves behind what it has switched on.  The motors follow  *)
(* the relays while the program reads the angles, while it waits for the   *)
(* rest of the 35 ms of a round, and while no process runs.  A reading is  *)
(* two registers, 10 ms apart, so an axis that moves in between gives the  *)
(* high byte of one angle and the low byte of another.                     *)
(*                                                                         *)
(* One unit of angle is more than the 0.5 degrees below which an axis is   *)
(* not started, and what an axis moves in one round of the loop.           *)
(***************************************************************************)
EXTENDS Integers, Sequences

CONSTANTS
    MaxAngle,    \* the mechanical end of both axes
    LowByte,     \* angles the low register counts, the code's 64
    Targets,     \* taught positions
    MaxRounds,   \* rounds of the loop in 60 seconds
    MaxTests,    \* moves PC_Test_Pos makes in five minutes
    Faults       \* what may go wrong: "sensor", "stuck", "kill"

Axes   == {"nick", "gier"}
Angles == 0..MaxAngle

ASSUME MaxAngleAssumption == MaxAngle \in Nat \ {0}
ASSUME LowByteAssumption  == LowByte \in Nat \ {0} /\ (MaxAngle + 1) % LowByte = 0
ASSUME TargetsAssumption  == Targets \subseteq [Axes -> Angles]
ASSUME BoundsAssumption   == MaxRounds \in Nat /\ MaxTests \in Nat
ASSUME FaultsAssumption   == Faults \subseteq {"sensor", "stuck", "kill"}

\* The relay that makes an axis' angle grow, and the one that makes it shrink.
Rising  == [nick |-> "NICK_DOWN", gier |-> "GIER_RIGHT"]
Falling == [nick |-> "NICK_UP", gier |-> "GIER_LEFT"]
RelaysOf(A) == {Rising[a] : a \in A} \cup {Falling[a] : a \in A}
Motors  == RelaysOf(Axes)
LOCK    == "LOCK_REMOTE"
Relays  == Motors \cup {LOCK}

Set(r)   == [relay |-> r, level |-> TRUE]
Clear(r) == [relay |-> r, level |-> FALSE]
Levels   == [relay : Relays, level : BOOLEAN]

VARIABLES
    phase,      \* of the process: "idle" if there is none
    out,        \* relay levels it is about to write, in this order
    on,         \* relays that are switched on
    angle,      \* where the axes stand
    target,     \* position PC_Move moves to
    started,    \* axes PC_Move has started
    rising,     \* started axes whose angle has to grow: moveUp, moveRight
    moving,     \* moveDone: started axes that have not arrived
    zooming,    \* zoomState > AZ_TASK_IDLE
    rounds,     \* of PC_Move's loop
    early,      \* axes that have moved while this round read the angles
    tests,      \* moves of PC_Test_Pos, or -1 outside it
    stray,      \* history: a motor was left on, see Stray
    fault,      \* history: one of Faults has happened, see Fault
    cut         \* history: a kill has left both gier relays on, until one is off

move == <<target, started, rising, moving, zooming, rounds, early>>
vars == <<phase, out, on, angle, move, tests, stray, fault, cut>>

Init ==
    /\ phase = "idle" /\ out = <<>> /\ on = {}
    /\ angle \in [Axes -> Angles]
    /\ target \in Targets
    /\ started = {} /\ rising = {} /\ moving = {} /\ zooming = FALSE
    /\ rounds = 0 /\ early = {} /\ tests = -1
    /\ stray = FALSE /\ fault = FALSE /\ cut = FALSE

Ready(p) == phase = p /\ out = <<>>

\* A motor is stray if a move timed out on it, or if it was running when a move
\* or the test began, until all motors stand still.
Stray(event) == stray' = (stray \/ event)

\* A register could not be read, an axis did not move, a process was killed, or
\* a stray motor was read wrong when a move began.
Fault(event) == fault' = (fault \/ event)

-----------------------------------------------------------------------------
(* The writes                                                              *)

Press(up, down) == <<Set(LOCK), Clear(down), Set(up)>>
Release_unlockFirst ==
    <<Clear(LOCK), Clear("NICK_UP"), Clear("NICK_DOWN"), Clear("GIER_RIGHT"),
      Clear("GIER_LEFT")>>
Release == <<Clear("NICK_UP"), Clear("NICK_DOWN"), Clear("GIER_RIGHT"),
             Clear("GIER_LEFT"), Clear(LOCK)>>

\* PC_MoveButton: up, down, right, left, released, and any other ID, which locks
\* the remote before it does what a release does.
Undefined == <<Set(LOCK)>> \o Release
Buttons ==
    {Press("NICK_UP", "NICK_DOWN"), Press("NICK_DOWN", "NICK_UP"),
     Press("GIER_RIGHT", "GIER_LEFT"), Press("GIER_LEFT", "GIER_RIGHT"),
     Release, Undefined}

Shutdown == <<Clear("GIER_LEFT"), Clear("GIER_RIGHT"), Clear("NICK_UP"),
              Clear("NICK_DOWN"), Clear(LOCK)>>

\* The nick axis switches the opposite relay off first, the gier axis last.
NickStart_setFirst(up) ==
    IF up THEN <<Set("NICK_DOWN"), Clear("NICK_UP")>>
    ELSE <<Set("NICK_UP"), Clear("NICK_DOWN")>>
NickStart(up) ==
    IF up THEN <<Clear("NICK_UP"), Set("NICK_DOWN")>>
    ELSE <<Clear("NICK_DOWN"), Set("NICK_UP")>>
GierStart_oneSided(right) ==
    IF right THEN <<Set("GIER_RIGHT")>> ELSE <<Set("GIER_LEFT")>>
GierStart(right) ==
    IF right THEN <<Set("GIER_RIGHT"), Clear("GIER_LEFT")>>
    ELSE <<Set("GIER_LEFT"), Clear("GIER_RIGHT")>>

Starts(A, up) ==
    (IF "nick" \in A THEN NickStart("nick" \in up) ELSE <<>>)
    \o (IF "gier" \in A THEN GierStart("gier" \in up) ELSE <<>>)

\* What the loop switches off when an axis has arrived, started or not.
Stop(a) == Clear(IF a \in rising THEN Rising[a] ELSE Falling[a])
Stops(A) ==
    (IF "nick" \in A THEN <<Stop("nick")>> ELSE <<>>)
    \o (IF "gier" \in A THEN <<Stop("gier")>> ELSE <<>>)

-----------------------------------------------------------------------------
(* The axes                                                                *)

\* With both relays on an axis may move either way; one that is stuck does not.
Driven(a) ==
    LET up == Rising[a] \in on   down == Falling[a] \in on
    IN  (IF up = down THEN {angle[a]} ELSE {})
        \cup (IF up THEN {IF angle[a] = MaxAngle THEN MaxAngle ELSE angle[a] + 1} ELSE {})
        \cup (IF down THEN {IF angle[a] = 0 THEN 0 ELSE angle[a] - 1} ELSE {})
Turning == {a \in Axes : RelaysOf({a}) \cap on # {}}
Stuck(A) == \E a \in A : angle'[a] \notin Driven(a)
Move(A) ==
    /\ angle' \in [Axes -> Angles]
    /\ \A a \in A : angle'[a] \in Driven(a) \cup (IF "stuck" \in Faults THEN {angle[a]} ELSE {})
    /\ \A a \in Axes \ A : angle'[a] = angle[a]

\* PosDirect_readReg16: the sensor counts against the clock.  The high register
\* is read before the low one; if one of them cannot be read, the result is 0.
Register_lowFirst(before, after) == (after \div LowByte) * LowByte + (before % LowByte)
Register(before, after) == (before \div LowByte) * LowByte + (after % LowByte)
ReadReg16(a) == Register(MaxAngle - angle[a], MaxAngle - angle'[a])

\* PosDirect_angleR, clockwise: after a failed read the greatest angle.
AngleR(a) == MaxAngle - ReadReg16(a)

\* PC_calc_Angles. The offset of gier makes any angle of its greatest.
Reading(r) ==
    \/ \A a \in Axes : r[a] = AngleR(a)
    \/ "sensor" \in Faults /\ r["nick"] \in {AngleR("nick"), MaxAngle}
Misread(r) == \E a \in Axes : r[a] # AngleR(a)

-----------------------------------------------------------------------------
(* The processes                                                           *)

StartButton ==
    /\ phase = "idle"
    /\ out' \in Buttons \cup {Shutdown}
    /\ phase' = "exit"
    /\ UNCHANGED <<on, angle, move, tests, stray, fault, cut>>

\* PC_Move from its start to the first reading.
BeginMove(t) ==
    /\ target' = t
    /\ out' = <<Set(LOCK)>>
    /\ phase' = "aim"
    /\ Stray(on \cap Motors # {})
    /\ UNCHANGED <<on, angle, started, rising, moving, zooming, rounds, early, fault, cut>>

StartMove ==
    /\ phase = "idle"
    /\ \E t \in Targets : BeginMove(t)
    /\ UNCHANGED tests

StartTest ==
    /\ phase = "idle"
    /\ out' = <<Set(LOCK)>>
    /\ phase' = "test"
    /\ tests' = 0
    /\ Stray(on \cap Motors # {})
    /\ UNCHANGED <<on, angle, move, fault, cut>>

BothWays == {"GIER_LEFT", "GIER_RIGHT"} \subseteq on

Write ==
    /\ out # <<>>
    /\ out' = Tail(out)
    /\ on' = IF Head(out).level THEN on \cup {Head(out).relay}
                                ELSE on \ {Head(out).relay}
    /\ stray' = (stray /\ on' \cap Motors # {})
    /\ cut' = (cut /\ BothWays')
    /\ UNCHANGED <<phase, angle, move, tests, fault>>

\* An axis is started if it is off by more than 0.5 degrees; gier positions near
\* the turn are not moved to.
Aim ==
    /\ Ready("aim")
    /\ \E A \in SUBSET Turning, r \in [Axes -> Angles] :
        /\ Move(A) /\ Reading(r)
        /\ Fault(Stuck(A) \/ r # angle')
        /\ started' = {a \in Axes : /\ target[a] # r[a]
                                    /\ a = "gier" => target[a] \in 1..(MaxAngle - 1)}
        /\ rising' = {a \in started' : target[a] > r[a]}
    /\ moving' = started'
    /\ out' = Starts(started', rising')
    /\ zooming' \in BOOLEAN
    /\ rounds' = 0
    /\ phase' = "loop"
    /\ UNCHANGED <<on, target, early, tests, stray, cut>>

Expired_never == FALSE
Expired == rounds = MaxRounds
Busy == moving # {} \/ zooming

\* One round: read, stop what has arrived, let the zoom go on ...
Arrived_strict(r) ==
    {a \in Axes : IF a \in rising THEN target[a] < r[a] ELSE target[a] > r[a]}
Arrived(r) ==
    {a \in Axes : IF a \in rising THEN target[a] <= r[a] ELSE target[a] >= r[a]}
Round ==
    /\ Ready("loop")
    /\ ~Expired /\ Busy
    /\ early' \in SUBSET Turning
    /\ Move(early')
    /\ \E r \in [Axes -> Angles] :
        /\ Reading(r)
        /\ Fault(Stuck(early') \/ Misread(r))
        /\ out' = Stops(Arrived(r))
        /\ moving' = moving \ Arrived(r)
    /\ zooming' \in {FALSE, zooming}
    /\ phase' = "wait"
    /\ UNCHANGED <<on, target, started, rising, rounds, tests, stray, cut>>

\* ... and wait, while the others that are switched on move.
Wait ==
    /\ Ready("wait")
    /\ Move(Turning \ early) /\ Fault(Stuck(Turning \ early))
    /\ early' = {}
    /\ rounds' = rounds + 1
    /\ phase' = "loop"
    /\ UNCHANGED <<out, on, target, started, rising, moving, zooming, tests, stray, cut>>

\* All done, or 60 seconds are over: the remote is unlocked and the zoom value
\* written, and nothing else is switched.
Finish ==
    /\ Ready("loop")
    /\ Expired \/ ~Busy
    /\ out' = <<Clear(LOCK)>>
    /\ phase' = IF tests >= 0 THEN "test" ELSE "exit"
    /\ Stray(moving # {})
    /\ UNCHANGED <<on, angle, move, tests, fault, cut>>

\* PC_Test_Pos: any of its first five positions, until five minutes are over or
\* a zoom value could not be written.
TestMove ==
    /\ Ready("test")
    /\ tests < MaxTests
    /\ \E t \in Targets : BeginMove(t)
    /\ tests' = tests + 1

TestEnd ==
    /\ Ready("test")
    /\ out' = <<Clear(LOCK)>>
    /\ phase' = "exit"
    /\ tests' = -1
    /\ UNCHANGED <<on, angle, move, stray, fault, cut>>

\* The process ends; its memory is lost, the relays keep their levels.
End ==
    /\ phase' = "idle"
    /\ out' = <<>>
    /\ started' = {} /\ rising' = {} /\ moving' = {} /\ zooming' = FALSE
    /\ rounds' = 0 /\ early' = {} /\ tests' = -1
    /\ UNCHANGED <<on, angle, target, stray>>

Exit == Ready("exit") /\ End /\ UNCHANGED <<fault, cut>>
Kill == "kill" \in Faults /\ phase # "idle" /\ End /\ Fault(TRUE) /\ cut' = BothWays

\* What was left on runs on while no process runs, or the test waits a second.
Coast ==
    /\ Ready("idle") \/ Ready("test")
    /\ on \cap Motors # {}
    /\ Move(Turning) /\ Fault(Stuck(Turning))
    /\ UNCHANGED <<phase, out, on, move, tests, stray, cut>>

Next ==
    \/ StartButton \/ StartMove \/ StartTest \/ Write \/ Aim \/ Round \/ Wait
    \/ Finish \/ TestMove \/ TestEnd \/ Exit \/ Kill \/ Coast

Spec == Init /\ [][Next]_vars

-----------------------------------------------------------------------------
TypeOK ==
    /\ phase \in {"idle", "aim", "loop", "wait", "test", "exit"}
    /\ out \in Seq(Levels)
    /\ on \subseteq Relays
    /\ angle \in [Axes -> Angles]
    /\ target \in Targets
    /\ started \subseteq Axes /\ rising \subseteq started /\ moving \subseteq started
    /\ zooming \in BOOLEAN
    /\ rounds \in 0..MaxRounds
    /\ early \subseteq Axes
    /\ tests \in -1..MaxTests
    /\ stray \in BOOLEAN /\ fault \in BOOLEAN /\ cut \in BOOLEAN

\* The two relays of the nick axis are never on together, whatever an earlier
\* process left on and wherever a process is killed.
NickInterlock == ~({"NICK_UP", "NICK_DOWN"} \subseteq on)

\* Those of the gier axis are on together only until the next write of the same
\* process, or, if it was killed just before that, until a later one switches
\* one of them off: whatever a sensor says and whichever axis is stuck.
GierInterlock ==
    BothWays => \/ out # <<>> /\ Head(out) \in {Clear("GIER_LEFT"), Clear("GIER_RIGHT")}
                \/ cut

\* A motor runs while the hand-held remote is unlocked only if it is stray:
\* PC_Move and PC_MoveButton lock it before they start a motor, and unlock it
\* after they have stopped what they started.
LockedWhileMoving == on \cap Motors # {} => LOCK \in on \/ stray

\* A move that ends before its 60 seconds has stopped what it started, as long
\* as there was no fault, and never short of its target: a reading that mixes two
\* angles lags behind the motion, so that it stops the axis late by up to two
\* units, and never early.
MoveArrives ==
    ~fault /\ phase \in {"exit", "test"} /\ out = <<Clear(LOCK)>> /\ moving = {} =>
        \A a \in started :
            /\ on \cap RelaysOf({a}) = {}
            /\ angle[a] \in IF a \in rising THEN target[a]..(target[a] + 2)
                                           ELSE (target[a] - 2)..target[a]

\* And it ends before them.
MoveEndsInTime == ~fault /\ Expired => moving = {}
=============================================================================
