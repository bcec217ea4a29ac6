------------------------------ MODULE Processes ------------------------------
(***************************************************************************)
(* A whole process of RasPiAutomation, from only_one_instance to the       *)
(* handlers of atexit, next to others: InstanceLock decides which of them  *)
(* runs, SYSTEM_Initialize gives it the pins, and what it has switched at  *)
(* the mount stays when it ends.                                           *)
(*                                                                         *)
(* The direction buttons are the command that depends on the others most:  *)
(* each press is a process and the release one more.  An audio command     *)
(* stands for those that switch no relay; moves are in PositionControl.    *)
(***************************************************************************)
EXTENDS InstanceLock, Sequences

\* PC_MoveButton, in the order of its writes.  An undefined button ends as the
\* release does; PositionControl has its writes.
Do(op, relay) == [op |-> op, relay |-> relay]
Press_otherPin(r, opposite) == <<Do("set", "LOCK"), Do("clear", opposite), Do("set", "OUT_1")>>
Press(r, opposite) == <<Do("set", "LOCK"), Do("clear", opposite), Do("set", r)>>
Body(j) ==
    CASE j = "up"      -> Press("NICK_UP", "NICK_DOWN")
      [] j = "down"    -> Press("NICK_DOWN", "NICK_UP")
      [] j = "right"   -> Press("GIER_RIGHT", "GIER_LEFT")
      [] j = "left"    -> Press("GIER_LEFT", "GIER_RIGHT")
      [] j = "release" -> <<Do("clear", "NICK_UP"), Do("clear", "NICK_DOWN"),
                            Do("clear", "GIER_RIGHT"), Do("clear", "GIER_LEFT"),
                            Do("clear", "LOCK")>>
      [] j = "audio"   -> <<>>

Buttons == {"up", "down", "right", "left", "release"}
Jobs    == Buttons \cup {"audio"}
Relays  == {"NICK_UP", "NICK_DOWN", "GIER_RIGHT", "GIER_LEFT", "LOCK"}

\* The relays that are to be on when a button is used while R are: a press turns
\* its own axis and leaves the other as it is, the release stops both.
Effect(button, R) ==
    CASE button = "up"      -> (R \ {"NICK_DOWN"}) \cup {"NICK_UP", "LOCK"}
      [] button = "down"    -> (R \ {"NICK_UP"}) \cup {"NICK_DOWN", "LOCK"}
      [] button = "right"   -> (R \ {"GIER_LEFT"}) \cup {"GIER_RIGHT", "LOCK"}
      [] button = "left"    -> (R \ {"GIER_RIGHT"}) \cup {"GIER_LEFT", "LOCK"}
      [] button = "release" -> {}

VARIABLES
    job,        \* command of a process
    stage,      \* "locking", "main", "command"
    todo,       \* what its command has not done yet
    handlers,   \* functions registered with atexit, the first to run first
    driver,     \* processes between gpioInitialise and gpioTerminate
    on,         \* relays that are switched on
    wanted,     \* history: relays that are to be on after the buttons used
    latest,     \* history: processes of the last release and the presses since
    excused     \* history: see Excuse

history == <<wanted, latest, excused>>
program == <<job, stage, todo, handlers, driver, on, history>>

ProcessesInit ==
    /\ Init
    /\ job = [p \in Procs |-> "release"]
    /\ stage = [p \in Procs |-> "locking"]
    /\ todo = [p \in Procs |-> <<>>]
    /\ handlers = [p \in Procs |-> <<>>]
    /\ driver = {}
    /\ on = {}
    /\ wanted = {} /\ latest = {} /\ excused = FALSE

\* What the history says is forgotten as soon as it is excused.
Expect(relays, procs, excuse) ==
    /\ wanted' = (IF excuse THEN {} ELSE relays)
    /\ latest' = (IF excuse THEN {} ELSE procs)
    /\ excused' = excuse

\* A button has no effect, or not all of it, if its process is refused, killed,
\* gets no pins or cannot initialize the position control: a press is then lost
\* and a release leaves the motors running.
Excuse(p) == Expect(wanted, latest \ {p}, excused \/ p \in latest)

\* What the kernel takes back from a process that is gone; not the levels of the
\* pins.
Gone(p) ==
    /\ job' = [job EXCEPT ![p] = "release"]
    /\ stage' = [stage EXCEPT ![p] = "locking"]
    /\ todo' = [todo EXCEPT ![p] = <<>>]
    /\ handlers' = [handlers EXCEPT ![p] = <<>>]
    /\ driver' = driver \ {p}
    /\ UNCHANGED on

\* A release makes good what happened before it.  A button used while the lock
\* does not hold, after an overlap or because a process with another directory is
\* there, may act out of turn.
Launch(p, j) ==
    /\ OpenFile(p)
    /\ job' = [job EXCEPT ![p] = j]
    /\ IF j \in Buttons
       THEN Expect(Effect(j, wanted),
                   {p} \cup (IF j = "release" THEN {} ELSE latest),
                   \/ j # "release" /\ excused
                   \/ overlap
                   \/ \E q \in Procs : pc[q] # "idle" /\ dir[q] # dir'[p])
       ELSE UNCHANGED history
    /\ UNCHANGED <<stage, todo, handlers, driver, on>>

\* atexit: the handler registered last runs first.
Registered_last(h, hs) == Append(hs, h)
Registered(h, hs) == <<h>> \o hs

Enter(p) ==
    /\ Acquire(p)
    /\ stage' = [stage EXCEPT ![p] = "main"]
    /\ handlers' = [handlers EXCEPT ![p] = Registered("ooi_unlink", @)]
    /\ UNCHANGED <<job, todo, driver, on, history>>

Refuse(p) == Refused(p) /\ Gone(p) /\ Excuse(p)

\* The command.  For a button PC_Init is the first of it and fails with the
\* servo, a sensor or the position file; nothing is then written.
Execute(p) ==
    \/ /\ todo' = [todo EXCEPT ![p] = Body(job[p])]
       /\ UNCHANGED history
    \/ /\ job[p] \in Buttons
       /\ Excuse(p)
       /\ UNCHANGED todo

\* SYSTEM_Initialize: the library is loaded and takes the pins, and main goes on
\* to the command.
Initialize(p) ==
    /\ stage[p] = "main"
    /\ stage' = [stage EXCEPT ![p] = "command"]
    /\ handlers' = [handlers EXCEPT ![p] = Registered("RPI_Terminate", @)]
    /\ driver' = driver \cup {p}
    /\ Execute(p)
    /\ UNCHANGED <<vars, job, on>>

\* The library cannot be loaded, lacks a function, or does not start.  Without
\* two arguments main does not get this far either.
InitializeFails(p) ==
    /\ stage[p] = "main"
    /\ stage' = [stage EXCEPT ![p] = "command"]
    /\ Excuse(p)
    /\ UNCHANGED <<vars, job, todo, handlers, driver, on>>

\* RPI_Write.
Write(p) ==
    /\ stage[p] = "command" /\ todo[p] # <<>>
    /\ LET step == Head(todo[p]) IN
       on' = IF step.op = "set" THEN on \cup {step.relay} ELSE on \ {step.relay}
    /\ todo' = [todo EXCEPT ![p] = Tail(@)]
    /\ UNCHANGED <<vars, job, stage, handlers, driver, history>>

\* main returns when its command is done, and exit runs the handlers.
Runs(p, h) ==
    /\ stage[p] = "command" /\ todo[p] = <<>> /\ handlers[p] # <<>> /\ Head(handlers[p]) = h
    /\ handlers' = [handlers EXCEPT ![p] = Tail(@)]
    /\ UNCHANGED <<job, stage, todo, on>>

RPI_Terminate(p) ==
    /\ Runs(p, "RPI_Terminate")
    /\ driver' = driver \ {p}
    /\ UNCHANGED <<vars, history>>

OoiUnlink(p) ==
    /\ Runs(p, "ooi_unlink")
    /\ ReturnFromMain(p)
    /\ Expect(wanted, latest, excused \/ overlap')
    /\ UNCHANGED driver

Leave(p) ==
    /\ handlers[p] = <<>>
    /\ Exit(p) /\ Gone(p)
    /\ Expect(wanted, latest \ {p}, excused)

Killed(p) == Kill(p) /\ Gone(p) /\ Excuse(p)

ProcessesNext == \E p \in Procs :
    \/ \E j \in Jobs : Launch(p, j)
    \/ Enter(p) \/ Refuse(p) \/ Initialize(p) \/ InitializeFails(p)
    \/ Write(p) \/ RPI_Terminate(p) \/ OoiUnlink(p) \/ Leave(p) \/ Killed(p)

ProcessesSpec == ProcessesInit /\ [][ProcessesNext]_<<vars, program>>

-----------------------------------------------------------------------------
ProcessesTypeOK ==
    /\ job \in [Procs -> Jobs]
    /\ stage \in [Procs -> {"locking", "main", "command"}]
    /\ todo \in [Procs -> Seq([op : {"set", "clear"}, relay : Relays])]
    /\ handlers \in [Procs -> Seq({"ooi_unlink", "RPI_Terminate"})]
    /\ driver \subseteq Procs
    /\ on \subseteq Relays /\ wanted \subseteq Relays
    /\ latest \subseteq Procs /\ excused \in BOOLEAN

\* The lock file is removed only when the pins have been given back: as long as
\* no start has overlapped an exit, two processes with the same lock directory
\* never have the pins together, not even while one of them is leaving.
PinsNotShared ==
    ~overlap => \A p, q \in driver : dir[p] = dir[q] => p = q

\* Presses and their release are processes of their own, and still the buttons act
\* in the order they were used: when all processes are gone, each axis turns the
\* way of its last press, both after an up and a left, and after a release no
\* relay is on; unless a button since the last release, or this release itself,
\* had a process that was refused because another one was running, was killed,
\* got no pins or failed in PC_Init, or a start overlapped an exit.
LastButtonActs == ~excused /\ (\A p \in Procs : pc[p] = "idle") => on = wanted
=============================================================================
