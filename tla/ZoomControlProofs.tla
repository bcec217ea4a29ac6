-------------------------- MODULE ZoomControlProofs --------------------------
(***************************************************************************)
(* Proofs about ZoomControl, for every range, every length of the          *)
(* reference move that covers it, and any number of commands and faults:   *)
(* the zoom is where the program believes it to be (ZoomInv), and where it *)
(* was taught (RecallInv).                                                 *)
(***************************************************************************)
EXTENDS ZoomControl, TLAPS

USE RangeAssumption, RefTimeAssumption, PositionsAssumption, EntriesAssumption DEF Deflections

\* Outside a move nothing is under way, unless something disturbed the zoom.
AtRest ==
    ~disturbed /\ pc # "move" =>
        /\ servo = "middle" /\ pc # "calibrating"
        /\ zoom = IF pc = "none" THEN file.last ELSE value.last
        /\ pc = "return" => file.last = value.last

\* A timed move stops at its goal if it began where the program believed it to.
OnTheWay ==
    ~disturbed /\ pc = "move" /\ goal \notin References =>
        \/ servo = "right" /\ goal <= MaxZoom /\ zoom + left = goal
        \/ servo = "left" /\ goal <= MaxZoom /\ zoom - left = goal

\* The time left of a reference move covers the way left, wherever it began.
Referencing ==
    pc = "move" =>
        /\ goal = 0 => servo = "left" /\ zoom <= left
        /\ goal = MaxZoom => servo = "right" /\ MaxZoom - zoom <= left

ZoomInv == TypeOK /\ AtRest /\ OnTheWay /\ Referencing

-----------------------------------------------------------------------------

\* The records a process works with stay records of positions.
LEMMA ValueTypes ==
    ASSUME NEW v \in ValuesIn(MaxByte)
    PROVE  /\ v.last \in 0..MaxByte
           /\ \A e \in Entries : v.table[e] \in 0..MaxByte
           /\ \A p \in 0..MaxByte : [v EXCEPT !.last = p] \in ValuesIn(MaxByte)
           /\ \A p \in 0..MaxByte : [v EXCEPT !.last = p].last = p
           /\ \A e \in Entries, p \in 0..MaxByte :
                 /\ [v EXCEPT !.table[e] = p] \in ValuesIn(MaxByte)
                 /\ [v EXCEPT !.table[e] = p].last = v.last
    BY DEF ValuesIn, Entries

\* A file that was emptied reads as zeros, and an installed one as it was written.
LEMMA FileTypes ==
    /\ Zeros \in ValuesIn(MaxByte)
    /\ 0 \in Entries
    /\ \A v \in ValuesIn(MaxZoom) : v \in ValuesIn(MaxByte)
    BY DEF ValuesIn, Zeros, Entries

\* The operators of the move task yield what their variables hold.
LEMMA TaskTypes ==
    ASSUME NEW to \in 0..MaxByte, NEW from \in 0..MaxByte
    PROVE  /\ Timeout(to, from) \in Nat
           /\ Direction(to, from) \in {"left", "right"}
    BY DEF Timeout, Direction, Abs, References

\* The state of a fresh installation satisfies the invariant: nothing is claimed.
LEMMA InitZoom == Init => ZoomInv
<1> SUFFICES ASSUME Init PROVE ZoomInv
  OBVIOUS
<1>1. file \in ValuesIn(MaxByte) /\ value \in ValuesIn(MaxByte)
  BY FileTypes DEF Init
<1>2. seen \in [Entries -> 0..MaxZoom \union {Unknown}]
  BY DEF Init, Nothing
<1>3. home \in BOOLEAN /\ disturbed \in BOOLEAN
  BY Zenon DEF Init
<1>4. id \in Entries /\ call \in Calls
  BY FileTypes DEF Init, Calls
<1>5. TypeOK
  BY <1>1, <1>2, <1>3, <1>4 DEF Init, TypeOK
<1>6. AtRest /\ OnTheWay /\ Referencing
  BY DEF Init, AtRest, OnTheWay, Referencing
<1> QED BY <1>5, <1>6 DEF ZoomInv

\* Starting a command, or putting the servo somewhere.
LEMMA CommandKeepsZoom ==
    ASSUME ZoomInv,
           \/ \E p \in Positions : MoveToPos(p)
           \/ Calibrate \/ TestPositions
           \/ \E e \in Entries : MountMove(e) \/ MountTeach(e)
           \/ \E to \in Deflections : ServoMove(to)
    PROVE  ZoomInv'
<1> USE DEF ZoomInv
<1>0. file \in ValuesIn(MaxByte) /\ file.last \in 0..MaxByte
  BY ValueTypes DEF TypeOK
<1>1. ASSUME NEW c \in Calls, NEW e \in Entries, NEW p \in 0..MaxByte, Start(c, e, p)
      PROVE  ZoomInv'
  <2>1. TypeOK' BY <1>0, <1>1 DEF TypeOK, Start
  <2>2. AtRest' BY <1>1 DEF AtRest, Start
  <2>3. OnTheWay' /\ Referencing' BY <1>1 DEF OnTheWay, Referencing, Start
  <2> QED BY <2>1, <2>2, <2>3
<1>2. ASSUME NEW p \in Positions, MoveToPos(p) PROVE ZoomInv'
  BY <1>1, <1>2, FileTypes DEF MoveToPos, Calls
<1>3. CASE Calibrate
  BY <1>1, <1>3, FileTypes DEF Calibrate, Calls
<1>4. CASE TestPositions
  BY <1>1, <1>4, FileTypes DEF TestPositions, Calls
<1>5. ASSUME NEW e \in Entries, MountMove(e) PROVE ZoomInv'
  <2>1. file.table[e] \in 0..MaxByte BY <1>0, ValueTypes
  <2> QED BY <2>1, <1>1, <1>5 DEF MountMove, Calls
<1>6. ASSUME NEW e \in Entries, MountTeach(e) PROVE ZoomInv'
  <2>1. Taught(e) \in ValuesIn(MaxByte) /\ Taught(e).last = file.last
    BY <1>0, ValueTypes DEF Taught
  <2>2. home' \in BOOLEAN BY <1>6, Zenon DEF MountTeach
  <2>3. TypeOK' BY <2>1, <2>2, <1>6 DEF TypeOK, MountTeach, Calls
  <2>4. AtRest' BY <2>1, <1>6 DEF AtRest, MountTeach
  <2>5. OnTheWay' /\ Referencing' BY <1>6 DEF OnTheWay, Referencing, MountTeach
  <2> QED BY <2>3, <2>4, <2>5
<1>7. ASSUME NEW to \in Deflections, ServoMove(to) PROVE ZoomInv'
  <2>1. TypeOK' BY <1>0, <1>7 DEF TypeOK, ServoMove, Calls
  <2>2. AtRest' BY <1>7 DEF AtRest, ServoMove
  <2>3. OnTheWay' /\ Referencing' BY <1>7 DEF OnTheWay, Referencing, ServoMove
  <2> QED BY <2>1, <2>2, <2>3
<1> QED BY <1>2, <1>3, <1>4, <1>5, <1>6, <1>7

\* The move task, from its calculation to the end of its time.
LEMMA TaskKeepsZoom ==
    ASSUME ZoomInv,
           NothingToDo \/ Begin \/ Tick \/ Late \/ Expire \/ MountTimeout \/ IdleTask
    PROVE  ZoomInv'
<1> USE DEF ZoomInv
<1>0. value.last \in 0..MaxByte
  BY ValueTypes DEF TypeOK
<1>1. CASE NothingToDo
  BY <1>1 DEF NothingToDo, TypeOK, AtRest, OnTheWay, Referencing
<1>2. CASE Begin
  <2>1. TypeOK' BY <1>0, <1>2, TaskTypes DEF Begin, TypeOK
  <2>2. AtRest' BY <1>2 DEF AtRest, Begin
  <2>3. ASSUME ~disturbed', goal \notin References PROVE OnTheWay'
    <3>0. ~disturbed /\ ~(goal > MaxZoom)
      BY <1>2, <2>3, Zenon DEF Begin
    <3>1. zoom = value.last /\ goal <= MaxZoom /\ goal # value.last
      BY <1>2, <2>3, <3>0 DEF Begin, AtRest, TypeOK
    <3>2. CASE goal > value.last
      <4>1. servo' = "right" /\ left' = goal - value.last
        BY <1>0, <1>2, <2>3, <3>2 DEF Begin, TypeOK, Direction, Timeout, Abs, References
      <4> QED BY <1>0, <1>2, <3>1, <4>1 DEF OnTheWay, Begin, TypeOK
    <3>3. CASE goal < value.last
      <4>1. servo' = "left" /\ left' = value.last - goal
        BY <1>0, <1>2, <2>3, <3>3 DEF Begin, TypeOK, Direction, Timeout, Abs, References
      <4> QED BY <1>0, <1>2, <3>1, <4>1 DEF OnTheWay, Begin, TypeOK
    <3> QED BY <1>0, <3>1, <3>2, <3>3 DEF TypeOK
  <2>4. Referencing'
    BY <1>2 DEF Referencing, Begin, TypeOK, Direction, Timeout, References
  <2> QED BY <1>2, <2>1, <2>2, <2>3, <2>4 DEF Begin, OnTheWay
<1>3. CASE Tick
  <2>1. TypeOK' BY <1>3 DEF Tick, TypeOK, program, Driven
  <2>2. AtRest' BY <1>3 DEF AtRest, Tick, program, Driven
  <2>3. OnTheWay' BY <1>3 DEF OnTheWay, Tick, TypeOK, program, Driven, References
  <2>4. Referencing' BY <1>3 DEF Referencing, Tick, TypeOK, program, Driven
  <2> QED BY <2>1, <2>2, <2>3, <2>4
<1>4. CASE Late
  <2>1. TypeOK' BY <1>4 DEF Late, TimeIsOver, TypeOK, program, Driven
  <2>2. AtRest' BY <1>4 DEF AtRest, Late, program
  <2>3. OnTheWay' BY <1>4 DEF OnTheWay, Late, program
  <2>4. Referencing' BY <1>4 DEF Referencing, Late, TimeIsOver, TypeOK, program, Driven
  <2> QED BY <2>1, <2>2, <2>3, <2>4
<1>5. CASE Expire
  <2>1. value' \in ValuesIn(MaxByte) /\ value'.last = goal
    BY <1>5, ValueTypes DEF Expire, TypeOK
  <2>2. TypeOK' BY <2>1, <1>5 DEF Expire, TypeOK
  <2>3. ~disturbed' => zoom = goal
    BY <1>5 DEF Expire, TimeIsOver, OnTheWay, Referencing, References, TypeOK
  <2>4. AtRest' BY <2>1, <2>3, <1>5 DEF AtRest, Expire
  <2>5. OnTheWay' /\ Referencing' BY <1>5 DEF OnTheWay, Referencing, Expire
  <2> QED BY <2>2, <2>4, <2>5
<1>6. CASE MountTimeout
  BY <1>6 DEF MountTimeout, TypeOK, AtRest, OnTheWay, Referencing
<1>7. CASE IdleTask
  BY <1>7 DEF IdleTask, TypeOK, AtRest, OnTheWay, Referencing, program
<1> QED BY <1>1, <1>2, <1>3, <1>4, <1>5, <1>6, <1>7

\* What follows a move: the way home, the file, the next step of a loop, the end.
LEMMA ReturnKeepsZoom ==
    ASSUME ZoomInv,
           \/ GoHome \/ MoveDone \/ OpenDat \/ OpenFails \/ WriteDat \/ WriteFails
           \/ Return \/ TestNext \/ CalibrationRun \/ CalibrationEnd \/ Kill
    PROVE  ZoomInv'
<1> USE DEF ZoomInv
<1>0. /\ value \in ValuesIn(MaxByte)
      /\ \A e \in Entries : value.table[e] \in 0..MaxByte
  BY ValueTypes DEF TypeOK
<1>1. CASE GoHome
  BY <1>0, <1>1, FileTypes DEF GoHome, TypeOK, AtRest, OnTheWay, Referencing
<1>2. CASE MoveDone
  BY <1>2 DEF MoveDone, TypeOK, AtRest, OnTheWay, Referencing
<1>3. CASE OpenDat
  BY <1>3, FileTypes DEF OpenDat, TypeOK, AtRest, OnTheWay, Referencing
<1>4. CASE OpenFails
  BY <1>4 DEF OpenFails, TypeOK, AtRest, OnTheWay, Referencing
<1>5. CASE WriteDat
  <2>1. TypeOK' BY <1>0, <1>5 DEF WriteDat, TypeOK
  <2> QED BY <2>1, <1>5 DEF WriteDat, AtRest, OnTheWay, Referencing
<1>6. CASE WriteFails
  BY <1>6 DEF WriteFails, TypeOK, AtRest, OnTheWay, Referencing, Nothing
<1>7. CASE Return
  BY <1>7 DEF Return, TypeOK, AtRest, OnTheWay, Referencing
<1>8. CASE TestNext
  <2>1. (id + 1) % (LastEntry + 1) \in Entries BY <1>8 DEF TypeOK, Entries
  <2>2. home' \in BOOLEAN
    <3>1. home' = (goal' \in References) \/ home' = home
      BY <1>8, Zenon DEF TestNext
    <3>2. CASE home' = home BY <3>2, Zenon DEF TypeOK
    <3>3. CASE home' = (goal' \in References) BY <3>3, SMT
    <3> QED BY <3>1, <3>2, <3>3
  <2>3. TypeOK' BY <2>1, <2>2, <1>0, <1>8 DEF TestNext, TypeOK
  <2> QED BY <2>3, <1>8 DEF TestNext, AtRest, OnTheWay, Referencing
<1>9. CASE CalibrationRun
  BY <1>9 DEF CalibrationRun, TypeOK, AtRest, OnTheWay, Referencing
<1>10. CASE CalibrationEnd
  BY <1>10 DEF CalibrationEnd, TypeOK, AtRest, OnTheWay, Referencing
<1>11. CASE Kill
  <2>1. disturbed' \in BOOLEAN BY <1>11, Zenon DEF Kill, TypeOK
  <2>2. seen' \in [Entries -> 0..MaxZoom \union {Unknown}] BY <1>11 DEF Kill, TypeOK, Nothing
  <2>3. TypeOK' BY <2>1, <2>2, <1>11 DEF Kill, TypeOK, Calls
  <2>4. ASSUME ~disturbed' PROVE zoom = file.last /\ servo = "middle"
    <3>1. ~disturbed /\ servo = "middle" /\ file.last = value.last /\ pc # "none"
      BY <1>11, <2>4, Zenon DEF Kill
    <3>2. pc # "move" BY <3>1 DEF OnTheWay, Referencing, References
    <3> QED BY <3>1, <3>2 DEF AtRest
  <2>5. AtRest' BY <2>4, <1>11 DEF Kill, AtRest
  <2> QED BY <2>3, <2>5, <1>11 DEF Kill, OnTheWay, Referencing
<1> QED BY <1>1, <1>2, <1>3, <1>4, <1>5, <1>6, <1>7, <1>8, <1>9, <1>10, <1>11

\* Every step of the program, the zoom and the faults preserves the invariant.
LEMMA NextZoom == ZoomInv /\ [Next]_vars => ZoomInv'
<1> SUFFICES ASSUME ZoomInv, [Next]_vars PROVE ZoomInv'
  OBVIOUS
<1>1. CASE UNCHANGED vars
  BY <1>1 DEF vars, program, ZoomInv, TypeOK, AtRest, OnTheWay, Referencing
<1>2. CASE Next
  BY <1>2, CommandKeepsZoom, TaskKeepsZoom, ReturnKeepsZoom DEF Next
<1> QED BY <1>1, <1>2

\* The type of the variables, for every range and every set of positions.
THEOREM TypeCorrect == Spec => []TypeOK
<1>1. ZoomInv => TypeOK
  BY DEF ZoomInv
<1> QED BY InitZoom, NextZoom, <1>1, PTL DEF Spec

\* The zoom stands where zoomValues.bin says, once a reference move was made and
\* as long as nothing disturbs it, for every range and every number of commands.
THEOREM ZoomIsKnown == Spec => []KnowsZoom
<1>1. ZoomInv => KnowsZoom
  BY DEF ZoomInv, AtRest, KnowsZoom
<1> QED BY InitZoom, NextZoom, <1>1, PTL DEF Spec

-----------------------------------------------------------------------------
(* What is remembered of a taught entry, from the command that teaches it to  *)
(* the ones that go back to it.                                               *)

\* The files and the arrays of later processes have the zoom that was taught,
\* except while a process teaches the entry anew or has emptied the file.
EntriesKept ==
  \A e \in Entries : seen[e] # Unknown =>
    /\ pc # "opened" => file.table[e] = seen[e]
    /\ pc # "none" /\ ~(call = "teach" /\ id = e) => value.table[e] = seen[e]

\* A process that teaches has entered what it believes the zoom to be.
TeachesLast == pc # "none" /\ call = "teach" => value.table[id] = value.last

\* A process that moves to an entry has its zoom as its goal, and is there when
\* it has moved.
GoesToEntry ==
  call = "mount" =>
    /\ ~home
    /\ seen[id] # Unknown => goal = seen[id]
    /\ ~disturbed /\ pc \in {"ended", "save", "opened", "return"} => value.last = goal
    /\ ~disturbed /\ pc = "none" => file.last = goal

\* A process that teaches does not move.
TeachMoves == call = "teach" => pc \in {"none", "save", "opened", "return"}

RecallInv == EntriesKept /\ TeachesLast /\ GoesToEntry /\ TeachMoves

LEMMA InitRecall == Init => RecallInv
  BY DEF Init, RecallInv, EntriesKept, TeachesLast, GoesToEntry, TeachMoves, Nothing

LEMMA NextRecall == ZoomInv /\ RecallInv /\ [Next]_vars => RecallInv'
<1> SUFFICES ASSUME ZoomInv, RecallInv, [Next]_vars PROVE RecallInv'
  OBVIOUS
<1> USE DEF RecallInv, EntriesKept, TeachesLast, GoesToEntry, TeachMoves
<1>0. TypeOK /\ AtRest
  BY DEF ZoomInv
<1>1. CASE UNCHANGED vars
  BY <1>1 DEF vars, program
<1>2. ASSUME NEW p \in Positions, MoveToPos(p) PROVE RecallInv'
  BY <1>0, <1>2 DEF MoveToPos, Start, TypeOK
<1>3. CASE Calibrate \/ TestPositions
  BY <1>0, <1>3 DEF Calibrate, TestPositions, Start, TypeOK
<1>4. ASSUME NEW e \in Entries, MountMove(e) PROVE RecallInv'
  BY <1>0, <1>4 DEF MountMove, Start, TypeOK
<1>5. ASSUME NEW e \in Entries, MountTeach(e) PROVE RecallInv'
  <2>1. /\ value'.table[e] = file.last /\ value'.last = file.last
        /\ \A d \in Entries \ {e} : value'.table[d] = file.table[d]
    BY <1>0, <1>5 DEF MountTeach, Taught, TypeOK, ValuesIn
  <2> QED BY <1>0, <1>5, <2>1 DEF MountTeach, TypeOK
<1>6. ASSUME NEW to \in Deflections, ServoMove(to) PROVE RecallInv'
  BY <1>0, <1>6 DEF ServoMove, TypeOK
<1>7. CASE NothingToDo \/ Begin \/ Tick \/ MountTimeout \/ IdleTask \/ MoveDone
  BY <1>0, <1>7 DEF NothingToDo, Begin, Tick, MountTimeout, IdleTask, MoveDone, program
<1>8. CASE Late
  BY <1>0, <1>8 DEF Late, program
<1>9. CASE Expire
  <2>1. value'.table = value.table /\ value'.last = goal
    BY <1>0, <1>9 DEF Expire, TypeOK, ValuesIn
  <2> QED BY <1>0, <1>9, <2>1 DEF Expire, TypeOK
<1>10. CASE GoHome
  BY <1>0, <1>10 DEF GoHome
<1>11. CASE OpenDat \/ OpenFails
  <2>1. ~disturbed' => ~disturbed
    BY <1>11, Zenon DEF OpenDat, OpenFails
  <2> QED BY <1>0, <1>11, <2>1 DEF OpenDat, OpenFails
<1>12. CASE WriteDat
  <2>1. CASE call = "teach" /\ ~disturbed
    <3>1. zoom = value.last /\ seen' = [seen EXCEPT ![id] = zoom]
      BY <1>0, <1>12, <2>1 DEF WriteDat, AtRest
    <3> QED BY <1>0, <1>12, <2>1, <3>1 DEF WriteDat, TypeOK
  <2>2. CASE call = "teach" /\ disturbed
    <3>1. seen' = [seen EXCEPT ![id] = Unknown]
      BY <1>12, <2>2 DEF WriteDat
    <3> QED BY <1>0, <1>12, <2>2, <3>1 DEF WriteDat, TypeOK
  <2>3. CASE call # "teach"
    BY <1>0, <1>12, <2>3 DEF WriteDat
  <2> QED BY <2>1, <2>2, <2>3
<1>13. CASE WriteFails
  BY <1>0, <1>13 DEF WriteFails, Nothing, TypeOK
<1>14. CASE Return
  BY <1>0, <1>14 DEF Return, AtRest
<1>15. CASE TestNext \/ CalibrationRun \/ CalibrationEnd
  BY <1>0, <1>15 DEF TestNext, CalibrationRun, CalibrationEnd, AtRest
<1>16. CASE Kill
  BY <1>0, <1>16 DEF Kill, Nothing
<1> QED
  BY <1>1, <1>2, <1>3, <1>4, <1>5, <1>6, <1>7, <1>8, <1>9, <1>10, <1>11, <1>12,
     <1>13, <1>14, <1>15, <1>16 DEF Next

\* PC_Move to a taught entry brings back the zoom it was taught with, for every
\* number of entries, teaches, moves, failures and reference moves in between.
THEOREM ZoomIsRecalled == Spec => []RecallsZoom
<1>1. ZoomInv /\ RecallInv => RecallsZoom
  BY DEF ZoomInv, AtRest, RecallInv, GoesToEntry, RecallsZoom
<1> QED BY InitZoom, NextZoom, InitRecall, NextRecall, <1>1, PTL DEF Spec
=============================================================================
