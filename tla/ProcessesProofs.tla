--------------------------- MODULE ProcessesProofs ---------------------------
(***************************************************************************)
(* Proofs about Processes, for any number of processes and directories.    *)
(*                                                                         *)
(* Every step of a process is a step of InstanceLock or leaves the lock as *)
(* it is, so what is proved there holds here.  The pins are given back     *)
(* before the lock file is removed, because atexit runs its functions in   *)
(* the reverse order of their registration; HandlersInOrder says so in an  *)
(* inductive form.  With one process at the pins at a time, the relays end *)
(* as the buttons leave them one after the other (LastInv).                *)
(***************************************************************************)
EXTENDS Processes, InstanceLockProofs, SequenceTheorems

Handlers == {"ooi_unlink", "RPI_Terminate"}

\* What is registered follows from where the process is, and the pins are held
\* only as long as both handlers are still to run.
HandlersInOrder ==
    /\ stage \in [Procs -> {"locking", "main", "command"}]
    /\ handlers \in [Procs -> Seq(Handlers)]
    /\ \A p \in Procs :
        /\ stage[p] = "locking" => handlers[p] = <<>>
        /\ stage[p] = "main" => Running(p) /\ handlers[p] = <<"ooi_unlink">>
        /\ stage[p] # "locking" => Locked(p)
        /\ p \in driver =>
              Running(p) /\ handlers[p] = <<"RPI_Terminate", "ooi_unlink">>

PinsInv == TypeOK /\ HandlersInOrder /\ driver \subseteq Procs

\* What the registration of the two handlers builds.
LEMMA Registrations ==
  /\ Registered("ooi_unlink", <<>>) = <<"ooi_unlink">>
  /\ Registered("RPI_Terminate", <<"ooi_unlink">>) = <<"RPI_Terminate", "ooi_unlink">>
  /\ <<"ooi_unlink">> \in Seq(Handlers)
  /\ <<"RPI_Terminate", "ooi_unlink">> \in Seq(Handlers)
<1>1. /\ <<>> \in Seq(Handlers) /\ <<"ooi_unlink">> \in Seq(Handlers)
      /\ <<"RPI_Terminate">> \in Seq(Handlers)
      /\ <<"RPI_Terminate", "ooi_unlink">> \in Seq(Handlers)
  BY DEF Handlers
<1>2. <<"ooi_unlink">> \o <<>> = <<"ooi_unlink">>
  BY <1>1, ConcatEmptySeq
<1>3. <<"RPI_Terminate">> \o <<"ooi_unlink">> = <<"RPI_Terminate", "ooi_unlink">>
  <2> DEFINE s == <<"RPI_Terminate">>
             t == <<"ooi_unlink">>
             u == <<"RPI_Terminate", "ooi_unlink">>
  <2>1. s \o t \in Seq(Handlers) /\ Len(s \o t) = 2
    BY <1>1, ConcatProperties
  <2>2. (s \o t)[1] = "RPI_Terminate" /\ (s \o t)[2] = "ooi_unlink"
    BY <1>1, ConcatProperties
  <2>3. \A i \in 1..Len(s \o t) : (s \o t)[i] = u[i]
    BY <2>1, <2>2
  <2>4. QED
    BY <1>1, <2>1, <2>3, SeqEqual
<1>4. QED
  BY <1>1, <1>2, <1>3 DEF Registered

\* Each action of a process with the step of the lock it contains.
LEMMA LockStep == ProcessesNext => [Next]_vars
<1> SUFFICES ASSUME NEW p \in Procs,
                    \/ \E j \in Jobs : Launch(p, j)
                    \/ Enter(p) \/ Refuse(p) \/ Initialize(p) \/ InitializeFails(p)
                    \/ Write(p) \/ RPI_Terminate(p) \/ OoiUnlink(p) \/ Leave(p) \/ Killed(p)
             PROVE  [Next]_vars
  BY Zenon DEF ProcessesNext
<1>1. CASE \/ \E j \in Jobs : Launch(p, j)
           \/ Enter(p) \/ Refuse(p) \/ OoiUnlink(p) \/ Leave(p) \/ Killed(p)
  BY <1>1, Zenon DEF Launch, Enter, Refuse, OoiUnlink, Leave, Killed, Next
<1>2. CASE Initialize(p) \/ InitializeFails(p) \/ Write(p) \/ RPI_Terminate(p)
  BY <1>2, Zenon DEF Initialize, InitializeFails, Write, RPI_Terminate
<1>3. QED
  BY <1>1, <1>2

\* The lock inside the program is InstanceLock.
THEOREM LockImplemented == ProcessesSpec => Spec
<1>1. ProcessesInit => Init
  BY DEF ProcessesInit
<1>2. [ProcessesNext]_<<vars, program>> => [Next]_vars
  BY LockStep, Zenon
<1>3. QED
  BY <1>1, <1>2, PTL DEF ProcessesSpec, Spec

LEMMA InitPins == ProcessesInit => PinsInv
<1> SUFFICES ASSUME ProcessesInit PROVE PinsInv
  OBVIOUS
<1>1. TypeOK
  BY InitExclusion DEF ProcessesInit, ExclusionInv
<1>2. HandlersInOrder /\ driver \subseteq Procs
  BY DEF ProcessesInit, HandlersInOrder
<1>3. QED
  BY <1>1, <1>2 DEF PinsInv

LEMMA StepPins == PinsInv /\ [ProcessesNext]_<<vars, program>> => PinsInv'
<1> SUFFICES ASSUME PinsInv, [ProcessesNext]_<<vars, program>> PROVE PinsInv'
  OBVIOUS
<1>1. TypeOK'
  BY LockStep, StepType, Zenon DEF PinsInv
<1> DEFINE Goal == HandlersInOrder' /\ driver' \subseteq Procs
<1>2. Goal
  <2> USE DEF PinsInv, HandlersInOrder, TypeOK, Locked, Running
  <2>1. CASE UNCHANGED <<vars, program>>
    BY <2>1 DEF vars, program
  <2>2. ASSUME NEW p \in Procs, NEW j \in Jobs, Launch(p, j) PROVE Goal
    BY <2>2 DEF Launch, OpenFile
  <2>3. ASSUME NEW p \in Procs, Enter(p) PROVE Goal
    <3>1. /\ handlers[p] = <<>> /\ p \notin driver
          /\ handlers' = [handlers EXCEPT ![p] = <<"ooi_unlink">>]
      BY <2>3, Registrations DEF Enter, Acquire, Opened
    <3>2. /\ pc' = [pc EXCEPT ![p] = "running"]
          /\ stage' = [stage EXCEPT ![p] = "main"]
          /\ driver' = driver
      BY <2>3 DEF Enter, Acquire
    <3>3. handlers' \in [Procs -> Seq(Handlers)]
      BY <3>1, Registrations
    <3>4. \A q \in Procs \ {p} : /\ handlers'[q] = handlers[q] /\ stage'[q] = stage[q]
                                /\ pc'[q] = pc[q]
      BY <3>1, <3>2
    <3>5. /\ handlers'[p] = <<"ooi_unlink">> /\ stage'[p] = "main"
          /\ pc'[p] = "running" /\ p \notin driver'
      BY <3>1, <3>2
    <3>6. stage' \in [Procs -> {"locking", "main", "command"}]
      BY <3>2
    <3>7. QED
      BY <3>2, <3>3, <3>4, <3>5, <3>6
  <2>4. ASSUME NEW p \in Procs, Refuse(p) PROVE Goal
    BY <2>4 DEF Refuse, Refused, Gone, Opened
  <2>5. ASSUME NEW p \in Procs, Initialize(p) PROVE Goal
    <3>1. handlers' = [handlers EXCEPT ![p] = <<"RPI_Terminate", "ooi_unlink">>]
      BY <2>5, Registrations DEF Initialize
    <3>2. /\ stage' = [stage EXCEPT ![p] = "command"]
          /\ driver' = driver \cup {p} /\ pc' = pc /\ Running(p)
      BY <2>5 DEF Initialize, vars
    <3>3. QED
      BY <3>1, <3>2, Registrations
  <2>6. ASSUME NEW p \in Procs, InitializeFails(p) PROVE Goal
    BY <2>6 DEF InitializeFails, vars
  <2>7. ASSUME NEW p \in Procs, Write(p) PROVE Goal
    BY <2>7 DEF Write, vars
  <2>8. ASSUME NEW p \in Procs, RPI_Terminate(p) PROVE Goal
    BY <2>8 DEF RPI_Terminate, Runs, vars
  <2>9. ASSUME NEW p \in Procs, OoiUnlink(p) PROVE Goal
    BY <2>9 DEF OoiUnlink, Runs, ReturnFromMain
  <2>10. ASSUME NEW p \in Procs, Leave(p) PROVE Goal
    BY <2>10 DEF Leave, Exit, Gone
  <2>11. ASSUME NEW p \in Procs, Killed(p) PROVE Goal
    BY <2>11 DEF Killed, Kill, Gone
  <2>12. QED
    BY <2>1, <2>2, <2>3, <2>4, <2>5, <2>6, <2>7, <2>8, <2>9, <2>10, <2>11
    DEF ProcessesNext
<1>3. QED
  BY <1>1, <1>2 DEF PinsInv

\* For any number of processes and directories: as long as no start of the
\* program has overlapped an exit, two processes with the same lock directory
\* never have the pins together.
THEOREM PinsExclusive == ProcessesSpec => []PinsNotShared
<1>1. ProcessesSpec => []PinsInv
  BY InitPins, StepPins, PTL DEF ProcessesSpec
<1>2. ProcessesSpec => []ExclusiveWithoutOverlap
  BY LockImplemented, Exclusive, PTL
<1>3. PinsInv /\ ExclusiveWithoutOverlap => PinsNotShared
  BY DEF PinsInv, HandlersInOrder, ExclusiveWithoutOverlap, PinsNotShared
<1>4. QED
  BY <1>1, <1>2, <1>3, PTL

-----------------------------------------------------------------------------
(* The buttons.  A process that is not refused, killed or left without pins   *)
(* writes all of its command, and nobody else writes until it has left.       *)

Writes == [op : {"set", "clear"}, relay : Relays]

Written(step, R) == IF step.op = "set" THEN R \cup {step.relay} ELSE R \ {step.relay}

\* The relays after all of the writes s: the last write to a relay decides.
Finish(s, R) ==
    {r \in Relays :
        \/ \E i \in 1..Len(s) : /\ s[i] = Do("set", r)
                                /\ \A k \in 1..Len(s) : k > i => s[k].relay # r
        \/ r \in R /\ \A i \in 1..Len(s) : s[i].relay # r}

TodoInv ==
    /\ ProcessesTypeOK
    /\ \A p \in Procs :
        /\ job[p] = "audio" => todo[p] = <<>>
        /\ stage[p] # "command" \/ pc[p] = "exiting" => todo[p] = <<>>

\* A process that is going to switch relays, unless it is refused, killed or left
\* without pins; and those of them whose button is still to take effect.
Acting(q) == pc[q] \in {"opened", "running"} /\ job[q] \in Buttons
Pending   == {p \in latest : Acting(p)}

\* The process of the only button left to take effect will leave the relays as
\* they should be.  Others act only if that button is the release, and they have
\* written before it does, or not at all.
OnTheWay(p) ==
    /\ stage[p] # "command" => Effect(job[p], on) = wanted
    /\ stage[p] = "command" => Finish(todo[p], on) = wanted
    /\ \A q \in Procs \ {p} : Acting(q) =>
          job[p] = "release" /\ (pc[p] = "running" => pc[q] = "opened")

\* Of two buttons left to take effect one will be refused, or a start overlaps an
\* exit.
Last ==
    /\ ~overlap
    /\ \A p, q \in Procs : Acting(p) /\ Acting(q) => dir[p] = dir[q]
    /\ \A p \in Procs : Pending = {p} => OnTheWay(p)
    /\ Pending = {} => on = wanted /\ \A q \in Procs : ~Acting(q)

LastInv == ~excused => Last

\* A relay that is not the one written keeps its state, by the later writes too.
LEMMA FinishStep ==
    ASSUME NEW s \in Seq(Writes), s # <<>>, NEW R \in SUBSET Relays
    PROVE  /\ Head(s) \in Writes /\ Tail(s) \in Seq(Writes)
           /\ Written(Head(s), R) \in SUBSET Relays
           /\ Finish(Tail(s), Written(Head(s), R)) = Finish(s, R)
<1> DEFINE t == Tail(s)
           n == Len(s)
<1>1. /\ n \in Nat /\ n >= 1 /\ t \in Seq(Writes) /\ Len(t) = n - 1
      /\ \A i \in 1..(n - 1) : t[i] = s[i + 1]
      /\ Head(s) = s[1] /\ s[1] \in Writes
      /\ \A i \in 1..n : s[i] \in Writes
  OBVIOUS
<1> HIDE DEF t, n
<1>2. \A i \in 1..n : i = 1 \/ (i - 1 \in 1..(n - 1) /\ s[i] = t[i - 1])
  BY <1>1
<1>3. Written(s[1], R) \in SUBSET Relays
  BY <1>1 DEF Written, Writes
<1>4. ASSUME NEW r \in Relays
      PROVE  (\A i \in 1..(n - 1) : t[i].relay # r)
               <=> \A i \in 1..n : i > 1 => s[i].relay # r
  <2>1. ASSUME \A i \in 1..(n - 1) : t[i].relay # r, NEW i \in 1..n, i > 1
        PROVE  s[i].relay # r
    <3>1. i - 1 \in 1..(n - 1) /\ s[i] = t[i - 1]
      BY <1>2, <2>1
    <3>2. QED
      BY <2>1, <3>1
  <2>2. ASSUME \A i \in 1..n : i > 1 => s[i].relay # r, NEW i \in 1..(n - 1)
        PROVE  t[i].relay # r
    <3>1. i + 1 \in 1..n /\ i + 1 > 1 /\ t[i] = s[i + 1]
      BY <1>1, <2>2
    <3>2. QED
      BY <2>2, <3>1
  <2>3. QED
    BY <2>1, <2>2
<1>5. ASSUME NEW r \in Relays
      PROVE  (\E i \in 1..(n - 1) : /\ t[i] = Do("set", r)
                                    /\ \A k \in 1..(n - 1) : k > i => t[k].relay # r)
               <=> \E i \in 1..n : /\ i > 1 /\ s[i] = Do("set", r)
                                   /\ \A k \in 1..n : k > i => s[k].relay # r
  <2>1. ASSUME NEW i \in 1..(n - 1), t[i] = Do("set", r),
               \A k \in 1..(n - 1) : k > i => t[k].relay # r
        PROVE  /\ i + 1 \in 1..n /\ i + 1 > 1 /\ s[i + 1] = Do("set", r)
               /\ \A k \in 1..n : k > i + 1 => s[k].relay # r
    <3>1. i + 1 \in 1..n /\ i + 1 > 1 /\ t[i] = s[i + 1]
      BY <1>1
    <3>2. ASSUME NEW k \in 1..n, k > i + 1 PROVE s[k].relay # r
      <4>1. k - 1 \in 1..(n - 1) /\ k - 1 > i /\ s[k] = t[k - 1]
        BY <1>1, <1>2, <3>2
      <4>2. QED
        BY <2>1, <4>1
    <3>3. QED
      BY <2>1, <3>1, <3>2
  <2>2. ASSUME NEW i \in 1..n, i > 1, s[i] = Do("set", r),
               \A k \in 1..n : k > i => s[k].relay # r
        PROVE  /\ i - 1 \in 1..(n - 1) /\ t[i - 1] = Do("set", r)
               /\ \A k \in 1..(n - 1) : k > i - 1 => t[k].relay # r
    <3>1. i - 1 \in 1..(n - 1) /\ s[i] = t[i - 1]
      BY <1>2, <2>2
    <3>2. ASSUME NEW k \in 1..(n - 1), k > i - 1 PROVE t[k].relay # r
      <4>1. k + 1 \in 1..n /\ k + 1 > i /\ t[k] = s[k + 1]
        BY <1>1, <3>2
      <4>2. QED
        BY <2>2, <4>1
    <3>3. QED
      BY <2>2, <3>1, <3>2
  <2>3. QED
    BY <2>1, <2>2
<1>6. ASSUME NEW r \in Relays
      PROVE  r \in Finish(t, Written(s[1], R)) <=> r \in Finish(s, R)
  <2>1. r \in Finish(t, Written(s[1], R)) <=>
          \/ \E i \in 1..n : /\ i > 1 /\ s[i] = Do("set", r)
                             /\ \A k \in 1..n : k > i => s[k].relay # r
          \/ r \in Written(s[1], R) /\ \A i \in 1..n : i > 1 => s[i].relay # r
    <3>1. Len(t) = n - 1
      BY <1>1
    <3> DEFINE V == Written(s[1], R)
    <3> HIDE DEF V
    <3>2. r \in Finish(t, V) <=>
            \/ \E i \in 1..(n - 1) : /\ t[i] = Do("set", r)
                                     /\ \A k \in 1..(n - 1) : k > i => t[k].relay # r
            \/ r \in V /\ \A i \in 1..(n - 1) : t[i].relay # r
      BY <3>1 DEF Finish
    <3>3. r \in Finish(t, V) <=>
            \/ \E i \in 1..n : /\ i > 1 /\ s[i] = Do("set", r)
                               /\ \A k \in 1..n : k > i => s[k].relay # r
            \/ r \in V /\ \A i \in 1..n : i > 1 => s[i].relay # r
      BY <1>4, <1>5, <3>2, Zenon
    <3>4. QED
      BY <3>3 DEF V
  <2>2. r \in Finish(s, R) <=>
          \/ \E i \in 1..n : /\ s[i] = Do("set", r)
                             /\ \A k \in 1..n : k > i => s[k].relay # r
          \/ r \in R /\ \A i \in 1..n : s[i].relay # r
    BY <1>1 DEF Finish, n
  <2>3. CASE s[1].relay # r
    <3>1. s[1] # Do("set", r) /\ (r \in Written(s[1], R) <=> r \in R)
      BY <2>3 DEF Do, Written
    <3>2. \A i \in 1..n : i = 1 \/ i > 1
      BY <1>1
    <3>3. QED
      BY <1>1, <2>1, <2>2, <2>3, <3>1, <3>2
  <2>4. CASE s[1].relay = r
    <3>1. r \in Written(s[1], R) <=> s[1] = Do("set", r)
      BY <1>1, <2>4 DEF Do, Written, Writes
    <3>2. 1 \in 1..n /\ \A i \in 1..n : i = 1 \/ i > 1
      BY <1>1
    <3>3. QED
      BY <2>1, <2>2, <2>4, <3>1, <3>2
  <2>5. QED
    BY <2>3, <2>4
<1>7. Finish(t, Written(s[1], R)) = Finish(s, R)
  BY <1>6 DEF Finish
<1>8. QED
  BY <1>1, <1>3, <1>7 DEF t

LEMMA FinishEmpty ==
    ASSUME NEW R \in SUBSET Relays
    PROVE  Finish(<<>>, R) = R
<1>1. Len(<<>>) = 0
  OBVIOUS
<1>2. QED
  BY <1>1 DEF Finish

LEMMA ThreeWrites ==
    ASSUME NEW a \in Writes, NEW b \in Writes, NEW c \in Writes,
           NEW R \in SUBSET Relays
    PROVE  /\ <<a, b, c>> \in Seq(Writes)
           /\ Finish(<<a, b, c>>, R) = Written(c, Written(b, Written(a, R)))
<1> DEFINE u == <<a, b, c>> t == <<b, c>> s == <<c>>
<1>1. /\ u \in Seq(Writes) /\ u # <<>> /\ Head(u) = a
      /\ t \in Seq(Writes) /\ t # <<>> /\ Head(t) = b
      /\ s \in Seq(Writes) /\ s # <<>> /\ Head(s) = c
  OBVIOUS
<1>0. Tail(u) = t /\ Tail(t) = s /\ Tail(s) = <<>>
  BY <1>1
<1> HIDE DEF u, t, s
<1>2. Written(a, R) \in SUBSET Relays /\ Finish(u, R) = Finish(t, Written(a, R))
  BY <1>0, <1>1, FinishStep
<1>3. /\ Written(b, Written(a, R)) \in SUBSET Relays
      /\ Finish(t, Written(a, R)) = Finish(s, Written(b, Written(a, R)))
  BY <1>0, <1>1, <1>2, FinishStep
<1>4. /\ Written(c, Written(b, Written(a, R))) \in SUBSET Relays
      /\ Finish(s, Written(b, Written(a, R)))
           = Finish(<<>>, Written(c, Written(b, Written(a, R))))
  <2> DEFINE Q == Written(b, Written(a, R))
  <2>1. Q \in SUBSET Relays
    BY <1>3
  <2> HIDE DEF Q
  <2>2. /\ Written(c, Q) \in SUBSET Relays
        /\ Finish(s, Q) = Finish(Tail(s), Written(c, Q))
    BY <1>1, <2>1, FinishStep
  <2>3. QED
    BY <1>0, <2>2 DEF Q
<1>5. QED
  BY <1>1, <1>2, <1>3, <1>4, FinishEmpty DEF u

\* The five writes of the release are two and three more.
LEMMA BodyFinish ==
    ASSUME NEW b \in Buttons, NEW R \in SUBSET Relays
    PROVE  Body(b) \in Seq(Writes) /\ Finish(Body(b), R) = Effect(b, R)
<1>1. \A op \in {"set", "clear"}, r \in Relays : /\ Do(op, r) \in Writes
                                                /\ Do(op, r).op = op
                                                /\ Do(op, r).relay = r
  BY DEF Do, Writes
<1>2. ASSUME NEW r \in Relays, NEW o \in Relays
      PROVE  /\ Press(r, o) \in Seq(Writes)
             /\ Finish(Press(r, o), R) = ((R \cup {"LOCK"}) \ {o}) \cup {r}
  <2> DEFINE x == Do("set", "LOCK") y == Do("clear", o) z == Do("set", r)
  <2>1. /\ x \in Writes /\ x.op = "set" /\ x.relay = "LOCK"
        /\ y \in Writes /\ y.op = "clear" /\ y.relay = o
        /\ z \in Writes /\ z.op = "set" /\ z.relay = r
    BY <1>1 DEF Relays
  <2>2. Press(r, o) = <<x, y, z>>
    BY DEF Press
  <2> HIDE DEF x, y, z
  <2>3. Written(z, Written(y, Written(x, R))) = ((R \cup {"LOCK"}) \ {o}) \cup {r}
    BY <2>1 DEF Written
  <2>4. QED
    BY <2>1, <2>2, <2>3, ThreeWrites
<1>3. CASE b \in {"up", "down", "right", "left"}
  <2>1. CASE b = "up"
    <3>1. Body(b) = Press("NICK_UP", "NICK_DOWN")
      BY <2>1 DEF Body
    <3>2. Effect(b, R) = ((R \cup {"LOCK"}) \ {"NICK_DOWN"}) \cup {"NICK_UP"}
      BY <2>1 DEF Effect
    <3>3. QED
      BY <1>2, <3>1, <3>2 DEF Relays
  <2>2. CASE b = "down"
    <3>1. Body(b) = Press("NICK_DOWN", "NICK_UP")
      BY <2>2 DEF Body
    <3>2. Effect(b, R) = ((R \cup {"LOCK"}) \ {"NICK_UP"}) \cup {"NICK_DOWN"}
      BY <2>2 DEF Effect
    <3>3. QED
      BY <1>2, <3>1, <3>2 DEF Relays
  <2>3. CASE b = "right"
    <3>1. Body(b) = Press("GIER_RIGHT", "GIER_LEFT")
      BY <2>3 DEF Body
    <3>2. Effect(b, R) = ((R \cup {"LOCK"}) \ {"GIER_LEFT"}) \cup {"GIER_RIGHT"}
      BY <2>3 DEF Effect
    <3>3. QED
      BY <1>2, <3>1, <3>2 DEF Relays
  <2>4. CASE b = "left"
    <3>1. Body(b) = Press("GIER_LEFT", "GIER_RIGHT")
      BY <2>4 DEF Body
    <3>2. Effect(b, R) = ((R \cup {"LOCK"}) \ {"GIER_RIGHT"}) \cup {"GIER_LEFT"}
      BY <2>4 DEF Effect
    <3>3. QED
      BY <1>2, <3>1, <3>2 DEF Relays
  <2>5. QED
    BY <1>3, <2>1, <2>2, <2>3, <2>4
<1>4. CASE b = "release"
  <2> DEFINE v == Do("clear", "NICK_UP") w == Do("clear", "NICK_DOWN")
             x == Do("clear", "GIER_RIGHT") y == Do("clear", "GIER_LEFT")
             z == Do("clear", "LOCK")
  <2>1. /\ v \in Writes /\ v.op = "clear" /\ v.relay = "NICK_UP"
        /\ w \in Writes /\ w.op = "clear" /\ w.relay = "NICK_DOWN"
        /\ x \in Writes /\ x.op = "clear" /\ x.relay = "GIER_RIGHT"
        /\ y \in Writes /\ y.op = "clear" /\ y.relay = "GIER_LEFT"
        /\ z \in Writes /\ z.op = "clear" /\ z.relay = "LOCK"
    BY <1>1 DEF Relays
  <2>2. Body(b) = <<v, w, x, y, z>>
    BY <1>4 DEF Body
  <2> HIDE DEF v, w, x, y, z
  <2> DEFINE r == <<v, w, x, y, z>> u == <<w, x, y, z>> t == <<x, y, z>>
  <2>3. /\ r \in Seq(Writes) /\ r # <<>> /\ Head(r) = v
        /\ u \in Seq(Writes) /\ u # <<>> /\ Head(u) = w
    BY <2>1
  <2>0. Tail(r) = u /\ Tail(u) = t
    BY <2>3
  <2>4. \A R1 \in SUBSET Relays : Finish(t, R1) = Written(z, Written(y, Written(x, R1)))
    BY <2>1, ThreeWrites
  <2> HIDE DEF r, u, t
  <2>5. Written(v, R) \in SUBSET Relays /\ Finish(r, R) = Finish(u, Written(v, R))
    BY <2>0, <2>1, <2>3, FinishStep
  <2>6. /\ Written(w, Written(v, R)) \in SUBSET Relays
        /\ Finish(u, Written(v, R)) = Finish(t, Written(w, Written(v, R)))
    BY <2>0, <2>1, <2>3, <2>5, FinishStep
  <2>7. Finish(t, Written(w, Written(v, R)))
           = Written(z, Written(y, Written(x, Written(w, Written(v, R)))))
    BY <2>4, <2>6
  <2>8. Written(z, Written(y, Written(x, Written(w, Written(v, R))))) = {}
    BY <2>1 DEF Written, Relays
  <2>9. QED
    BY <1>4, <2>2, <2>3, <2>5, <2>6, <2>7, <2>8 DEF Effect, r
<1>5. QED
  BY <1>3, <1>4 DEF Buttons

LEMMA EffectType ==
    ASSUME NEW b \in Buttons, NEW R \in SUBSET Relays
    PROVE  Effect(b, R) \in SUBSET Relays
  BY DEF Effect, Relays, Buttons

LEMMA InitButtons == ProcessesInit => TodoInv /\ LastInv
<1> SUFFICES ASSUME ProcessesInit PROVE TodoInv /\ LastInv
  OBVIOUS
<1>1. "release" \in Jobs /\ "release" # "audio" /\ <<>> \in Seq(Writes)
  BY DEF Jobs, Buttons
<1>2. excused \in BOOLEAN
  BY Zenon DEF ProcessesInit
<1>3. ProcessesTypeOK
  BY <1>1, <1>2 DEF ProcessesInit, ProcessesTypeOK, Writes
<1>4. TodoInv
  BY <1>1, <1>3 DEF ProcessesInit, TodoInv
<1>5. ~overlap
  BY Zenon DEF ProcessesInit, Init
<1>6. LastInv
  BY <1>5 DEF ProcessesInit, Init, LastInv, Last, Pending, Acting
<1>7. QED
  BY <1>4, <1>6

\* What the history may become.
LEMMA Expected ==
    ASSUME NEW R, NEW S, NEW x \in BOOLEAN, Expect(R, S, x)
    PROVE  /\ excused' = x
           /\ x => wanted' = {} /\ latest' = {}
           /\ ~x => wanted' = R /\ latest' = S
<1>1. excused' = x
  BY Zenon DEF Expect
<1>2. CASE x
  BY <1>1, <1>2 DEF Expect
<1>3. CASE ~x
  BY <1>1, <1>3 DEF Expect
<1>4. QED
  BY <1>1, <1>2, <1>3

LEMMA ExpectedType ==
    ASSUME NEW R \in SUBSET Relays, NEW S \in SUBSET Procs, NEW x \in BOOLEAN,
           Expect(R, S, x)
    PROVE  wanted' \subseteq Relays /\ latest' \subseteq Procs /\ excused' \in BOOLEAN
<1>1. CASE x
  BY <1>1, Expected
<1>2. CASE ~x
  BY <1>2, Expected
<1>3. QED
  BY <1>1, <1>2

LEMMA StepTodo ==
    PinsInv /\ TodoInv /\ PinsInv' /\ [ProcessesNext]_<<vars, program>> => TodoInv'
<1> SUFFICES ASSUME PinsInv, TodoInv, PinsInv', [ProcessesNext]_<<vars, program>>
             PROVE  TodoInv'
  OBVIOUS
<1>1. \A p \in Procs :
        /\ stage[p] # "locking" => Locked(p)
        /\ stage[p] = "main" => Running(p)
  BY DEF PinsInv, HandlersInOrder
<1>2. /\ stage' \in [Procs -> {"locking", "main", "command"}]
      /\ handlers' \in [Procs -> Seq({"ooi_unlink", "RPI_Terminate"})]
      /\ driver' \subseteq Procs
  BY DEF PinsInv, HandlersInOrder, Handlers
<1>3. \A b \in Buttons : Body(b) \in Seq(Writes)
  BY BodyFinish
<1>4. \A j \in Jobs : Body(j) \in Seq(Writes) /\ (j = "audio" => Body(j) = <<>>)
  <2>1. Body("audio") = <<>> /\ <<>> \in Seq(Writes) /\ "audio" \notin Buttons
    BY DEF Body, Buttons
  <2>2. QED
    BY <1>3, <2>1 DEF Jobs
<1> DEFINE History == /\ wanted' \subseteq Relays /\ latest' \subseteq Procs
                      /\ excused' \in BOOLEAN
           Others == job' \in [Procs -> Jobs] /\ on' \subseteq Relays
           Todos == /\ todo' \in [Procs -> Seq(Writes)]
                    /\ \A p \in Procs :
                        /\ job'[p] = "audio" => todo'[p] = <<>>
                        /\ stage'[p] # "command" \/ pc'[p] = "exiting" => todo'[p] = <<>>
<1>5. History /\ Others /\ Todos => TodoInv'
  BY <1>2, Zenon DEF TodoInv, ProcessesTypeOK, Writes
<1>6. /\ wanted \in SUBSET Relays /\ latest \in SUBSET Procs /\ excused \in BOOLEAN
      /\ todo \in [Procs -> Seq(Writes)] /\ job \in [Procs -> Jobs]
      /\ on \subseteq Relays /\ overlap \in BOOLEAN /\ overlap' \in BOOLEAN
      /\ \A p \in Procs :
            /\ job[p] = "audio" => todo[p] = <<>>
            /\ stage[p] # "command" \/ pc[p] = "exiting" => todo[p] = <<>>
  BY DEF TodoInv, ProcessesTypeOK, Writes, PinsInv, TypeOK
<1>7. ASSUME NEW p \in Procs, Excuse(p) PROVE History
  <2>1. (excused \/ p \in latest) \in BOOLEAN /\ latest \ {p} \in SUBSET Procs
    BY <1>6
  <2>2. QED
    BY <1>6, <1>7, <2>1, ExpectedType DEF Excuse
<1>8. CASE UNCHANGED <<vars, program>>
  <2>1. History /\ Others /\ Todos
    BY <1>6, <1>8 DEF vars, program, history
  <2>2. QED
    BY <1>5, <2>1
<1>9. ASSUME NEW p \in Procs, NEW j \in Jobs, Launch(p, j) PROVE TodoInv'
  <2>1. /\ job' = [job EXCEPT ![p] = j] /\ stage' = stage /\ todo' = todo
        /\ pc' = [pc EXCEPT ![p] = "opened"] /\ on' = on /\ pc[p] = "idle"
    BY <1>9 DEF Launch, OpenFile
  <2>2. History
    <3>1. CASE j \in Buttons
      <4> DEFINE x == \/ j # "release" /\ excused
                      \/ overlap
                      \/ \E q \in Procs : pc[q] # "idle" /\ dir[q] # dir'[p]
                 S == {p} \cup (IF j = "release" THEN {} ELSE latest)
      <4>1. x \in BOOLEAN /\ S \in SUBSET Procs /\ Effect(j, wanted) \in SUBSET Relays
        BY <1>6, <3>1, EffectType
      <4>2. Expect(Effect(j, wanted), S, x)
        BY <1>9, <3>1, Zenon DEF Launch
      <4> HIDE DEF x, S
      <4>3. QED
        BY <4>1, <4>2, ExpectedType
    <3>2. CASE j \notin Buttons
      BY <1>6, <1>9, <3>2 DEF Launch, history
    <3>3. QED
      BY <3>1, <3>2
  <2>3. stage[p] # "command"
    BY <1>1, <2>1 DEF Locked
  <2>4. Others /\ Todos
    BY <1>6, <2>1, <2>3 DEF PinsInv, TypeOK
  <2>5. QED
    BY <1>5, <2>2, <2>4
<1>10. ASSUME NEW p \in Procs, Enter(p) PROVE TodoInv'
  <2>1. History
    BY <1>6, <1>10 DEF Enter, history
  <2>2. Others /\ Todos
    BY <1>1, <1>6, <1>10 DEF Enter, Acquire, Opened, Locked, PinsInv, TypeOK,
       HandlersInOrder
  <2>3. QED
    BY <1>5, <2>1, <2>2
<1>11. ASSUME NEW p \in Procs, Refuse(p) \/ Killed(p) \/ Leave(p) PROVE TodoInv'
  <2>1. Gone(p) /\ pc' = [pc EXCEPT ![p] = "idle"]
    BY <1>11 DEF Refuse, Killed, Leave, Refused, Kill, Exit
  <2>2. History
    <3>1. CASE Refuse(p) \/ Killed(p)
      BY <1>7, <3>1 DEF Refuse, Killed
    <3>2. CASE Leave(p)
      BY <1>6, <3>2, ExpectedType DEF Leave
    <3>3. QED
      BY <1>11, <3>1, <3>2
  <2>3. "release" \in Jobs /\ "release" # "audio" /\ <<>> \in Seq(Writes)
    BY DEF Jobs, Buttons
  <2>4. Others /\ Todos
    BY <1>6, <2>1, <2>3 DEF Gone, PinsInv, TypeOK, HandlersInOrder
  <2>5. QED
    BY <1>5, <2>2, <2>4
<1>12. ASSUME NEW p \in Procs, Initialize(p) PROVE TodoInv'
  <2>1. /\ job' = job /\ pc' = pc /\ on' = on /\ stage' = [stage EXCEPT ![p] = "command"]
        /\ stage[p] = "main" /\ pc[p] # "exiting"
    BY <1>1, <1>12 DEF Initialize, vars, Running
  <2>2. CASE todo' = [todo EXCEPT ![p] = Body(job[p])] /\ UNCHANGED history
    <3>1. History /\ Others /\ Todos
      BY <1>4, <1>6, <2>1, <2>2 DEF history, HandlersInOrder, PinsInv
    <3>2. QED
      BY <1>5, <3>1
  <2>3. CASE Excuse(p) /\ todo' = todo
    <3>1. Others /\ Todos
      BY <1>6, <2>1, <2>3 DEF HandlersInOrder, PinsInv
    <3>2. QED
      BY <1>5, <1>7, <2>3, <3>1
  <2>4. QED
    BY <1>12, <2>2, <2>3 DEF Initialize, Execute
<1>13. ASSUME NEW p \in Procs, InitializeFails(p) PROVE TodoInv'
  <2>1. Others /\ Todos
    BY <1>6, <1>13 DEF InitializeFails, vars, HandlersInOrder, PinsInv
  <2>2. QED
    BY <1>5, <1>7, <1>13, <2>1 DEF InitializeFails
<1>14. ASSUME NEW p \in Procs, Write(p) PROVE TodoInv'
  <2>1. /\ todo[p] # <<>> /\ stage[p] = "command"
        /\ todo' = [todo EXCEPT ![p] = Tail(@)] /\ job' = job /\ pc' = pc /\ stage' = stage
        /\ on' = Written(Head(todo[p]), on)
    BY <1>14 DEF Write, vars, Written
  <2>2. Tail(todo[p]) \in Seq(Writes) /\ on' \subseteq Relays
    BY <1>6, <2>1, FinishStep
  <2>3. Others /\ Todos
    BY <1>6, <2>1, <2>2
  <2>4. History
    BY <1>6, <1>14 DEF Write, history
  <2>5. QED
    BY <1>5, <2>3, <2>4
<1>15. ASSUME NEW p \in Procs, RPI_Terminate(p) PROVE TodoInv'
  <2>1. History /\ Others /\ Todos
    BY <1>6, <1>15 DEF RPI_Terminate, Runs, vars, history
  <2>2. QED
    BY <1>5, <2>1
<1>16. ASSUME NEW p \in Procs, OoiUnlink(p) PROVE TodoInv'
  <2>1. (excused \/ overlap') \in BOOLEAN
    BY <1>6
  <2>2. History
    BY <1>6, <1>16, <2>1, ExpectedType DEF OoiUnlink
  <2>3. Others /\ Todos
    BY <1>6, <1>16 DEF OoiUnlink, Runs, ReturnFromMain, PinsInv, TypeOK
  <2>4. QED
    BY <1>5, <2>2, <2>3
<1>17. QED
  BY <1>8, <1>9, <1>10, <1>11, <1>12, <1>13, <1>14, <1>15, <1>16 DEF ProcessesNext

\* For any number of processes: the variables of Processes have their types.
THEOREM ProcessesTypeCorrect == ProcessesSpec => []ProcessesTypeOK
<1>1. ProcessesSpec => []PinsInv
  BY InitPins, StepPins, PTL DEF ProcessesSpec
<1>2. ProcessesSpec => []TodoInv
  BY <1>1, InitButtons, StepTodo, PTL DEF ProcessesSpec
<1>3. TodoInv => ProcessesTypeOK
  BY DEF TodoInv
<1>4. QED
  BY <1>2, <1>3, PTL

\* While no start overlaps an exit, a process that is let in is alone in its
\* directory.
LEMMA AloneWhenEntered ==
    ASSUME ExclusionInv, ~overlap, NEW p \in Procs, Acquire(p),
           NEW q \in Procs \ {p}, dir[q] = dir[p]
    PROVE  pc[q] # "running"
<1> SUFFICES ASSUME pc[q] = "running" PROVE FALSE
  OBVIOUS
<1>1. fd[q] = fd[p]
  BY DEF ExclusionInv, OpenIsEntry, Acquire, Opened, Running
<1>2. q \in Holders(p)
  BY <1>1 DEF Holders, Locked
<1>3. QED
  BY <1>2 DEF Acquire

\* As long as the same processes are to act, and those that are have not moved,
\* nothing changes.
LEMMA StepAside ==
    ASSUME Last, ~overlap', wanted' = wanted, on' = on,
           Pending' = Pending, Pending \subseteq Procs,
           \A q \in Procs : Acting(q)' => Acting(q) /\ pc'[q] = pc[q] /\ dir'[q] = dir[q],
           \A q \in Pending : /\ job'[q] = job[q]
                              /\ stage'[q] = "command" <=> stage[q] = "command"
                              /\ stage[q] = "command" => todo'[q] = todo[q]
    PROVE  Last'
<1>1. \A q, r \in Procs : Acting(q)' /\ Acting(r)' => dir'[q] = dir'[r]
  BY DEF Last
<1>2. ASSUME NEW r \in Procs, Pending' = {r} PROVE OnTheWay(r)'
  <2>1. r \in Pending /\ OnTheWay(r) /\ r \in Pending'
    BY <1>2 DEF Last
  <2>2. pc'[r] = pc[r]
    BY <2>1 DEF Pending
  <2>3. QED
    BY <2>1, <2>2 DEF OnTheWay
<1>3. QED
  BY <1>1, <1>2 DEF Last

LEMMA StepLast ==
    ExclusionInv /\ PinsInv /\ TodoInv /\ LastInv /\ [ProcessesNext]_<<vars, program>>
        => LastInv'
<1> SUFFICES ASSUME ExclusionInv, PinsInv, TodoInv, LastInv,
                    [ProcessesNext]_<<vars, program>>, ~excused'
             PROVE  Last'
  BY Zenon DEF LastInv
<1>1. \A p \in Procs : /\ stage[p] # "locking" => Locked(p)
                       /\ stage[p] = "main" => Running(p)
  BY DEF PinsInv, HandlersInOrder
<1>2. /\ wanted \in SUBSET Relays /\ on \in SUBSET Relays /\ Pending \in SUBSET Procs
      /\ latest \in SUBSET Procs /\ excused \in BOOLEAN /\ overlap \in BOOLEAN
      /\ todo \in [Procs -> Seq(Writes)] /\ job \in [Procs -> Jobs]
      /\ stage \in [Procs -> {"locking", "main", "command"}]
      /\ pc \in [Procs -> {"idle", "opened", "running", "exiting"}]
      /\ dir \in [Procs -> Dirs]
      /\ \A p \in Procs :
            /\ job[p] = "audio" => todo[p] = <<>>
            /\ stage[p] # "command" \/ pc[p] = "exiting" => todo[p] = <<>>
  BY DEF TodoInv, ProcessesTypeOK, Writes, PinsInv, TypeOK, Pending
\* A process that is excused or has ended took no part any more.
<1>3. ASSUME NEW p \in Procs, Expect(wanted, latest \ {p}, excused \/ p \in latest)
      PROVE  /\ p \notin latest /\ ~excused
             /\ wanted' = wanted /\ latest' = latest
  <2>1. ~(excused \/ p \in latest)
    BY <1>3, Zenon DEF Expect
  <2>2. QED
    BY <1>2, <1>3, <2>1 DEF Expect
<1>4. CASE UNCHANGED <<vars, program>>
  <2>1. Last
    BY <1>4, Zenon DEF LastInv, vars, program, history
  <2>2. QED
    BY <1>4, <2>1 DEF vars, program, history, Last, Pending, OnTheWay, Acting
<1>5. ASSUME NEW p \in Procs, NEW j \in Buttons, Launch(p, j) PROVE Last'
  <2> DEFINE x == \/ j # "release" /\ excused
                  \/ overlap
                  \/ \E q \in Procs : pc[q] # "idle" /\ dir[q] # dir'[p]
             S == {p} \cup (IF j = "release" THEN {} ELSE latest)
  <2>1. Expect(Effect(j, wanted), S, x)
    BY <1>5, Zenon DEF Launch
  <2>2. ~x
    BY <2>1, Zenon DEF Expect
  <2>3. wanted' = Effect(j, wanted) /\ latest' = S
    <3> HIDE DEF x, S
    <3>1. QED
      BY <2>1, <2>2, Zenon DEF Expect
  <2>4. /\ job' = [job EXCEPT ![p] = j] /\ pc' = [pc EXCEPT ![p] = "opened"]
        /\ stage' = stage /\ todo' = todo /\ on' = on /\ pc[p] = "idle"
        /\ overlap' = overlap
        /\ \A q \in Procs \ {p} : dir'[q] = dir[q]
    BY <1>5 DEF Launch, OpenFile
  <2>5. ~overlap' /\ \A q \in Procs : pc[q] # "idle" => dir[q] = dir'[p]
    BY <2>2, <2>4
  <2>6. \A q \in Procs : Acting(q)' <=> q = p \/ Acting(q)
    BY <1>2, <2>4 DEF Acting
  <2>7. ~Acting(p) /\ \A q \in Procs : Acting(q) => q # p /\ dir[q] = dir'[p]
    BY <2>4, <2>5 DEF Acting
  <2>8. \A q, r \in Procs : Acting(q)' /\ Acting(r)' => dir'[q] = dir'[r]
    BY <2>4, <2>6, <2>7
  <2>9. p \in Pending'
    BY <2>3, <2>6 DEF Pending
  <2>10. stage[p] = "locking"
    BY <1>1, <1>2, <2>4 DEF Locked
  <2>11. ASSUME NEW r \in Procs, Pending' = {r} PROVE OnTheWay(r)'
    <3>1. r = p
      BY <2>9, <2>11
    <3>2. CASE j = "release"
      BY <1>2, <2>3, <2>4, <2>10, <3>1, <3>2 DEF OnTheWay, Effect
    <3>3. CASE j # "release"
      <4>1. Last
        BY <2>2, <3>3 DEF LastInv
      <4>2. Pending = {}
        <5>1. ASSUME NEW q \in Pending PROVE FALSE
          <6>1. q \in latest /\ Acting(q) /\ q \in Procs
            BY <1>2 DEF Pending
          <6>2. q \in Pending'
            BY <2>3, <2>6, <3>3, <6>1 DEF Pending
          <6>3. QED
            BY <2>7, <2>11, <3>1, <6>1, <6>2
        <5>2. QED
          BY <5>1
      <4>3. on = wanted /\ \A q \in Procs : ~Acting(q)
        BY <4>1, <4>2 DEF Last
      <4>4. job'[r] = j /\ stage'[r] # "command"
        BY <1>2, <2>4, <2>10, <3>1
      <4>5. Effect(job'[r], on') = wanted'
        BY <2>3, <2>4, <4>3, <4>4
      <4>6. QED
        BY <2>6, <3>1, <4>3, <4>4, <4>5 DEF OnTheWay
    <3>4. QED
      BY <3>2, <3>3
  <2>12. QED
    BY <2>5, <2>8, <2>9, <2>11 DEF Last
<1>6. ASSUME NEW p \in Procs, Launch(p, "audio") PROVE Last'
  <2>1. /\ wanted' = wanted /\ latest' = latest /\ excused' = excused
        /\ job' = [job EXCEPT ![p] = "audio"]
        /\ pc' = [pc EXCEPT ![p] = "opened"] /\ stage' = stage /\ pc[p] = "idle"
        /\ todo' = todo /\ on' = on /\ overlap' = overlap
        /\ \A q \in Procs \ {p} : dir'[q] = dir[q]
    BY <1>6 DEF Launch, OpenFile, Buttons, history
  <2>2. Last
    BY <2>1 DEF LastInv
  <2>3. \A q \in Procs : /\ Acting(q)' <=> Acting(q)
                         /\ Acting(q) => q # p /\ pc'[q] = pc[q] /\ dir'[q] = dir[q]
    BY <1>2, <2>1 DEF Acting, Buttons
  <2>4. Pending' = Pending /\ p \notin Pending
    BY <1>2, <2>1, <2>3 DEF Pending
  <2>5. \A q \in Pending : job'[q] = job[q]
    BY <1>2, <2>1, <2>4
  <2>6. ~overlap'
    BY <2>1, <2>2 DEF Last
  <2>7. QED
    BY <1>2, <2>1, <2>2, <2>3, <2>4, <2>5, <2>6, StepAside
<1>7. ASSUME NEW p \in Procs, Enter(p) PROVE Last'
  <2>1. /\ wanted' = wanted /\ latest' = latest /\ excused' = excused /\ job' = job
        /\ pc' = [pc EXCEPT ![p] = "running"] /\ pc[p] = "opened" /\ Acquire(p)
        /\ stage' = [stage EXCEPT ![p] = "main"] /\ todo' = todo /\ on' = on
        /\ dir' = dir /\ overlap' = overlap
    BY <1>7 DEF Enter, Acquire, Opened, history
  <2>2. Last /\ ~overlap
    BY <2>1 DEF LastInv, Last
  <2>3. \A q \in Procs \ {p} : dir[q] = dir[p] => pc[q] # "running"
    BY <2>1, <2>2, AloneWhenEntered
  <2>4. \A q \in Procs : Acting(q)' <=> Acting(q)
    BY <1>2, <2>1 DEF Acting
  <2>5. Pending' = Pending
    BY <1>2, <2>1, <2>4 DEF Pending
  <2>6. stage[p] = "locking"
    BY <1>1, <1>2, <2>1 DEF Locked
  <2>7. ASSUME NEW r \in Procs, Pending = {r} PROVE OnTheWay(r)'
    <3>1. OnTheWay(r) /\ Acting(r)
      BY <2>2, <2>7 DEF Last, Pending
    <3>2. /\ stage'[r] = "command" => stage[r] = "command"
          /\ stage'[r] # "command" => stage[r] # "command"
      BY <1>2, <2>1, <2>6
    <3>3. ASSUME NEW q \in Procs \ {r}, Acting(q)
          PROVE  job[r] = "release" /\ (pc'[r] = "running" => pc'[q] = "opened")
      <4>1. job[r] = "release" /\ (pc[r] = "running" => pc[q] = "opened")
        BY <3>1, <3>3 DEF OnTheWay
      <4>2. dir[q] = dir[r] /\ pc[q] \in {"opened", "running"}
        BY <2>2, <3>1, <3>3 DEF Last, Acting
      <4>3. CASE r = p
        BY <1>2, <2>1, <2>3, <4>1, <4>2, <4>3
      <4>4. CASE q = p
        BY <1>2, <2>1, <2>3, <4>1, <4>2, <4>4
      <4>5. CASE q # p /\ r # p
        BY <1>2, <2>1, <4>1, <4>5
      <4>6. QED
        BY <4>3, <4>4, <4>5
    <3>4. QED
      BY <2>1, <2>4, <3>1, <3>2, <3>3 DEF OnTheWay
  <2>8. QED
    BY <2>1, <2>2, <2>4, <2>5, <2>7 DEF Last
<1>8. ASSUME NEW p \in Procs, Refuse(p) \/ Killed(p) PROVE Last'
  <2>1. /\ Gone(p) /\ dir' = dir /\ pc' = [pc EXCEPT ![p] = "idle"]
        /\ overlap' = (overlap /\ ~Alone(p))
        /\ Excuse(p)
    BY <1>8 DEF Refuse, Killed, Refused, Kill, OverlapGoes
  <2>2. p \notin latest /\ ~excused /\ wanted' = wanted /\ latest' = latest
    BY <1>3, <2>1 DEF Excuse
  <2>3. Last /\ ~overlap
    BY <2>2 DEF LastInv, Last
  <2>4. \A q \in Procs : /\ Acting(q)' <=> Acting(q) /\ q # p
                         /\ q # p => /\ pc'[q] = pc[q] /\ dir'[q] = dir[q]
                                     /\ job'[q] = job[q] /\ stage'[q] = stage[q]
                                     /\ todo'[q] = todo[q]
    BY <1>2, <2>1 DEF Acting, Gone
  <2>5. Pending' = Pending /\ p \notin Pending
    BY <1>2, <2>2, <2>4 DEF Pending
  <2>6. ~overlap' /\ on' = on
    BY <2>1, <2>3 DEF Gone
  <2>7. QED
    BY <1>2, <2>2, <2>3, <2>4, <2>5, <2>6, StepAside
<1>9. ASSUME NEW p \in Procs, Leave(p) PROVE Last'
  <2>1. /\ Gone(p) /\ dir' = dir /\ pc' = [pc EXCEPT ![p] = "idle"]
        /\ overlap' = (overlap /\ ~Alone(p)) /\ pc[p] = "exiting"
        /\ Expect(wanted, latest \ {p}, excused)
    BY <1>9 DEF Leave, Exit, OverlapGoes
  <2>2. ~excused
    BY <1>9, Zenon DEF Leave, Expect
  <2>3. wanted' = wanted /\ latest' = latest \ {p}
    BY <2>1, <2>2, Zenon DEF Expect
  <2>4. Last /\ ~overlap
    BY <2>2 DEF LastInv, Last
  <2>5. \A q \in Procs : /\ Acting(q)' <=> Acting(q) /\ q # p
                         /\ q # p => /\ pc'[q] = pc[q] /\ dir'[q] = dir[q]
                                     /\ job'[q] = job[q] /\ stage'[q] = stage[q]
                                     /\ todo'[q] = todo[q]
    BY <1>2, <2>1 DEF Acting, Gone
  <2>6. Pending' = Pending /\ p \notin Pending
    <3>1. ~Acting(p)
      BY <2>1 DEF Acting
    <3>2. QED
      BY <1>2, <2>3, <2>5, <3>1 DEF Pending
  <2>7. ~overlap' /\ on' = on
    BY <2>1, <2>4 DEF Gone
  <2>8. QED
    BY <1>2, <2>3, <2>4, <2>5, <2>6, <2>7, StepAside
<1>10. ASSUME NEW p \in Procs, Initialize(p) PROVE Last'
  <2>1. /\ job' = job /\ dir' = dir /\ pc' = pc /\ on' = on /\ overlap' = overlap
        /\ stage' = [stage EXCEPT ![p] = "command"] /\ stage[p] = "main"
    BY <1>10 DEF Initialize, vars
  <2>2. CASE todo' = [todo EXCEPT ![p] = Body(job[p])] /\ UNCHANGED history
    <3>1. wanted' = wanted /\ latest' = latest /\ ~excused
      BY <2>2, Zenon DEF history
    <3>2. Last
      BY <3>1 DEF LastInv
    <3>3. \A q \in Procs : Acting(q)' <=> Acting(q)
      BY <2>1 DEF Acting
    <3>4. Pending' = Pending
      BY <1>2, <3>1, <3>3 DEF Pending
    <3>5. ASSUME NEW r \in Procs, Pending = {r} PROVE OnTheWay(r)'
      <4>1. OnTheWay(r) /\ Acting(r)
        BY <3>2, <3>5 DEF Last, Pending
      <4>2. CASE r = p
        <5>1. Finish(Body(job[p]), on) = wanted
          BY <1>2, <2>1, <4>1, <4>2, BodyFinish DEF OnTheWay, Acting
        <5>2. todo'[p] = Body(job[p]) /\ stage'[p] = "command"
          BY <1>2, <2>1, <2>2
        <5>3. QED
          BY <2>1, <3>1, <3>3, <4>1, <4>2, <5>1, <5>2 DEF OnTheWay
      <4>3. CASE r # p
        <5>1. todo'[r] = todo[r] /\ stage'[r] = stage[r]
          BY <1>2, <2>1, <2>2, <4>3
        <5>2. QED
          BY <2>1, <3>1, <3>3, <4>1, <5>1 DEF OnTheWay
      <4>4. QED
        BY <4>2, <4>3
    <3>6. QED
      BY <2>1, <3>1, <3>2, <3>3, <3>4, <3>5 DEF Last
  <2>3. CASE Excuse(p) /\ todo' = todo
    <3>1. p \notin latest /\ ~excused /\ wanted' = wanted /\ latest' = latest
      BY <1>3, <2>3 DEF Excuse
    <3>2. Last /\ ~overlap
      BY <3>1 DEF LastInv, Last
    <3>3. \A q \in Procs : Acting(q)' <=> Acting(q)
      BY <2>1 DEF Acting
    <3>4. Pending' = Pending /\ \A q \in Pending : stage'[q] = stage[q]
      BY <1>2, <2>1, <3>1, <3>3 DEF Pending
    <3>5. QED
      BY <1>2, <2>1, <2>3, <3>1, <3>2, <3>3, <3>4, StepAside
  <2>4. QED
    BY <1>10, <2>2, <2>3 DEF Initialize, Execute
<1>11. ASSUME NEW p \in Procs, InitializeFails(p) PROVE Last'
  <2>1. /\ job' = job /\ dir' = dir /\ pc' = pc /\ on' = on /\ overlap' = overlap
        /\ stage' = [stage EXCEPT ![p] = "command"] /\ todo' = todo /\ Excuse(p)
    BY <1>11 DEF InitializeFails, vars
  <2>2. p \notin latest /\ ~excused /\ wanted' = wanted /\ latest' = latest
    BY <1>3, <2>1 DEF Excuse
  <2>3. Last /\ ~overlap
    BY <2>2 DEF LastInv, Last
  <2>4. \A q \in Procs : Acting(q)' <=> Acting(q)
    BY <2>1 DEF Acting
  <2>5. Pending' = Pending /\ \A q \in Pending : stage'[q] = stage[q]
    BY <1>2, <2>1, <2>2, <2>4 DEF Pending
  <2>6. QED
    BY <1>2, <2>1, <2>2, <2>3, <2>4, <2>5, StepAside
<1>12. ASSUME NEW p \in Procs, Write(p) PROVE Last'
  <2>1. /\ wanted' = wanted /\ latest' = latest /\ excused' = excused /\ job' = job
        /\ dir' = dir /\ pc' = pc /\ overlap' = overlap
        /\ stage' = stage /\ stage[p] = "command" /\ todo[p] # <<>>
        /\ todo' = [todo EXCEPT ![p] = Tail(@)]
        /\ on' = Written(Head(todo[p]), on)
    BY <1>12 DEF Write, vars, history, Written
  <2>2. Last
    BY <2>1 DEF LastInv
  <2>3. \A q \in Procs : Acting(q)' <=> Acting(q)
    BY <2>1 DEF Acting
  <2>4. pc[p] = "running" /\ Acting(p)
    BY <1>1, <1>2, <2>1 DEF Locked, Acting, Jobs
  <2>5. Pending' = Pending
    BY <1>2, <2>1, <2>3 DEF Pending
  <2>6. ASSUME NEW r \in Procs, Pending = {r} PROVE OnTheWay(r)'
    <3>1. OnTheWay(r)
      BY <2>2, <2>6 DEF Last
    <3>2. CASE r = p
      <4>1. Finish(Tail(todo[p]), Written(Head(todo[p]), on)) = wanted
        BY <1>2, <2>1, <3>1, <3>2, FinishStep DEF OnTheWay
      <4>2. QED
        BY <1>2, <2>1, <2>3, <3>1, <3>2, <4>1 DEF OnTheWay
    <3>3. CASE r # p
      <4>1. job[r] = "release" /\ pc[r] # "running"
        BY <2>4, <3>1, <3>3 DEF OnTheWay
      <4>2. stage[r] # "command"
        <5>1. r \in Pending
          BY <2>6
        <5>2. QED
          BY <1>1, <4>1, <5>1 DEF Locked, Pending, Acting
      <4>3. Effect(job[r], on') = wanted
        BY <3>1, <4>1, <4>2 DEF OnTheWay, Effect
      <4>4. QED
        BY <2>1, <2>3, <3>1, <4>2, <4>3 DEF OnTheWay
    <3>4. QED
      BY <3>2, <3>3
  <2>7. Pending # {}
    BY <2>2, <2>4 DEF Last
  <2>8. QED
    BY <2>1, <2>2, <2>3, <2>5, <2>6, <2>7 DEF Last
<1>13. ASSUME NEW p \in Procs, RPI_Terminate(p) PROVE Last'
  <2>1. /\ wanted' = wanted /\ latest' = latest /\ ~excused /\ job' = job
        /\ dir' = dir /\ pc' = pc /\ overlap' = overlap
        /\ stage' = stage /\ todo' = todo /\ on' = on
    BY <1>13, Zenon DEF RPI_Terminate, Runs, vars, history
  <2>2. Last /\ ~overlap
    BY <2>1 DEF LastInv, Last
  <2>3. (\A q \in Procs : Acting(q)' <=> Acting(q)) /\ Pending' = Pending
    BY <2>1 DEF Acting, Pending
  <2>4. QED
    BY <1>2, <2>1, <2>2, <2>3, StepAside
<1>14. ASSUME NEW p \in Procs, OoiUnlink(p) PROVE Last'
  <2>1. /\ job' = job /\ dir' = dir /\ pc[p] = "running"
        /\ pc' = [pc EXCEPT ![p] = "exiting"] /\ stage[p] = "command" /\ todo[p] = <<>>
        /\ stage' = stage /\ todo' = todo /\ on' = on
        /\ Expect(wanted, latest, excused \/ overlap')
    BY <1>14 DEF OoiUnlink, Runs, ReturnFromMain, Running
  <2>2. ~excused /\ ~overlap'
    BY <1>14, Zenon DEF OoiUnlink, Expect
  <2>3. wanted' = wanted /\ latest' = latest
    BY <2>1, <2>2, Zenon DEF Expect
  <2>4. Last /\ ~overlap
    BY <2>2 DEF LastInv, Last
  <2>5. \A q \in Procs : dir[q] = dir[p] => pc[q] # "opened"
    BY <1>14, <2>2, Zenon DEF OoiUnlink, ReturnFromMain, Opened
  <2>6. \A q \in Procs \ {p} : dir[q] = dir[p] => pc[q] # "running"
    BY <2>1, <2>4 DEF ExclusionInv, OneHolder, OpenIsEntry, Locked, Running
  <2>7. \A q \in Procs : /\ Acting(q)' <=> Acting(q) /\ q # p
                         /\ q # p => pc'[q] = pc[q]
    BY <1>2, <2>1 DEF Acting
  <2>8. CASE p \in Pending
    <3>1. Acting(p)
      BY <2>8 DEF Pending
    <3>2. \A q \in Procs \ {p} : ~Acting(q)
      BY <2>4, <2>5, <2>6, <3>1 DEF Last, Acting
    <3>3. Pending = {p}
      BY <1>2, <2>8, <3>2 DEF Pending
    <3>4. on = wanted
      <4>1. Finish(todo[p], on) = wanted
        BY <2>1, <2>4, <3>3 DEF Last, OnTheWay
      <4>2. QED
        BY <1>2, <2>1, <4>1, FinishEmpty
    <3>5. \A q \in Procs : ~Acting(q)'
      BY <2>7, <3>2
    <3>6. Pending' = {}
      BY <1>2, <2>3, <3>5 DEF Pending
    <3>7. QED
      BY <2>1, <2>2, <2>3, <3>4, <3>5, <3>6 DEF Last
  <2>9. CASE p \notin Pending
    <3>1. Pending' = Pending
      BY <1>2, <2>3, <2>7, <2>9 DEF Pending
    <3>2. QED
      BY <1>2, <2>1, <2>2, <2>3, <2>4, <2>7, <2>9, <3>1, StepAside
  <2>10. QED
    BY <2>8, <2>9
<1>15. QED
  BY <1>4, <1>5, <1>6, <1>7, <1>8, <1>9, <1>10, <1>11, <1>12, <1>13, <1>14
  DEF ProcessesNext, Jobs

\* For any number of processes and directories: when all processes are gone, the
\* relays are what the buttons used since the last release add up to, one after
\* the other, unless one of their processes, the release's included, was refused,
\* killed, got no pins or failed in PC_Init, or a start overlapped an exit.
THEOREM LastButton == ProcessesSpec => []LastButtonActs
<1>1. ProcessesSpec => []PinsInv
  BY InitPins, StepPins, PTL DEF ProcessesSpec
<1>2. ProcessesSpec => []TodoInv
  BY <1>1, InitButtons, StepTodo, PTL DEF ProcessesSpec
<1>3. ProcessesSpec => []ExclusionInv
  BY LockImplemented, ExclusionInvariant, PTL
<1>4. ProcessesSpec => []LastInv
  BY <1>1, <1>2, <1>3, InitButtons, StepLast, PTL DEF ProcessesSpec
<1>5. TodoInv /\ LastInv => LastButtonActs
  <2> SUFFICES ASSUME TodoInv, LastInv, ~excused, \A p \in Procs : pc[p] = "idle"
               PROVE  on = wanted
    BY Zenon DEF LastButtonActs
  <2>1. Last /\ latest \subseteq Procs
    BY DEF TodoInv, ProcessesTypeOK, LastInv
  <2>2. Pending = {}
    BY <2>1 DEF Pending, Acting
  <2>3. QED
    BY <2>1, <2>2 DEF Last
<1>6. QED
  BY <1>2, <1>4, <1>5, PTL
=============================================================================
