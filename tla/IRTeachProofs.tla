--------------------------- MODULE IRTeachProofs ---------------------------
(***************************************************************************)
(* Proofs about IRTeach: for every size of a sequence and every frame, a   *)
(* taught sequence plays the first frame that was sent, and wherever a     *)
(* save fails or the program is killed, the file plays the old sequence or *)
(* a beginning of that frame.                                              *)
(***************************************************************************)
EXTENDS IRTeach, TLAPS

USE SizeAssumption, FramesAssumption DEF Slots, Table

\* A table that has the first n edges of the frame in its first slots and none
\* after them.
HasEdges(t, n) ==
  /\ frame < SEQ_SIZE
  /\ \A k \in 0..(n - 1) : t[k] = k + 1
  /\ t[n] = 0
HasFrame(t) == HasEdges(t, frame)
HasBeginning(t) == \E n \in 0..frame : HasEdges(t, n)

\* Until the slot after the frame is passed, the edges are where they belong and
\* none of a repetition is among them.
FirstFrame ==
  i <= frame => /\ sent = i
                /\ \A k \in Slots : table[k] = IF k < i THEN k + 1 ELSE 0
                /\ pc \in {"edge", "scan"} => ~paused

\* What comes later leaves the frame and the empty slot after it alone.
LaterSlots ==
  i > frame => HasFrame(table) /\ sent >= frame

\* The table is written only when it has the whole frame.
WritesWhole ==
  /\ pc = "edge" => i = 0
  /\ pc \in {"open", "write"} => frame <= i

Saved ==
  /\ save = "torn" \/ file \in {Cleared, Taught0} \/ HasFrame(file)
  /\ file \in {Cleared, Taught0} \/ HasBeginning(file)
  /\ save = "done" => HasFrame(file)
  /\ save = "none" => i <= frame
  /\ pc = "write" => save = "torn"

TeachInv == TypeOK /\ FirstFrame /\ LaterSlots /\ WritesWhole /\ Saved

-----------------------------------------------------------------------------
(* What a table plays, and what the number of edges says of the frames.    *)

LEMMA PlayedEdges ==
  ASSUME NEW t \in Table, frame \in Nat \ {0}, NEW n \in 0..frame, HasEdges(t, n)
  PROVE  Played(t) = [k \in 1..n |-> k]
<1> DEFINE empty == {k \in Slots : t[k] = 0}
<1>1. n \in empty /\ \A k \in empty : n <= k
  BY DEF HasEdges
<1>2. Min(empty) = n
  BY <1>1 DEF Min
<1>3. Played(t) = [k \in 1..n |-> t[k - 1]]
  BY <1>1, <1>2 DEF Played
<1>4. \A k \in 1..n : t[k - 1] = k
  BY DEF HasEdges
<1>5. QED
  BY <1>3, <1>4

LEMMA PlayedNothing == Played(Cleared) = [k \in 1..0 |-> k]
<1> DEFINE empty == {k \in Slots : Cleared[k] = 0}
<1>1. 0 \in empty /\ \A k \in empty : 0 <= k
  BY DEF Cleared
<1>2. Min(empty) = 0
  BY <1>1 DEF Min
<1>3. Played(Cleared) = [k \in 1..0 |-> Cleared[k - 1]]
  BY <1>1, <1>2 DEF Played
<1>4. QED
  BY <1>3

\* The first pieces of a table that has the whole frame.
LEMMA BeginningOf ==
  ASSUME table \in Table, frame \in Nat \ {0}, HasFrame(table), NEW n \in 0..SEQ_SIZE
  PROVE  Beginning(n) \in Table /\ HasBeginning(Beginning(n))
<1>1. Beginning(n) \in Table
  BY DEF Beginning
<1>2. CASE n <= frame
  <2>1. HasEdges(Beginning(n), n)
    BY <1>2 DEF HasFrame, HasEdges, Beginning
  <2>2. QED
    BY <1>1, <1>2, <2>1 DEF HasBeginning
<1>3. CASE n > frame
  <2>1. HasEdges(Beginning(n), frame)
    BY <1>3 DEF HasFrame, HasEdges, Beginning
  <2>2. QED
    BY <1>1, <2>1 DEF HasBeginning
<1>4. QED
  BY <1>2, <1>3

\* Between two frames a multiple of the frame has been sent, and before the end
\* of a frame there is room for its next edge.
LEMMA EdgesOfFrames ==
  ASSUME NEW f \in Nat \ {0}, NEW m \in Nat \ {0}, NEW s \in 0..(f * m)
  PROVE  /\ 0 < s /\ s < f => s % f # 0
         /\ ~(s > 0 /\ s % f = 0) => s < f * m
<1>1. ASSUME s < f PROVE s % f = s
  BY <1>1
<1>2. (f * m) % f = 0
  OBVIOUS
<1>3. f * m > 0 /\ f * m \in Nat
  OBVIOUS
<1>4. ASSUME ~(s > 0 /\ s % f = 0) PROVE s < f * m
  <2>1. s # f * m
    BY <1>2, <1>3, <1>4
  <2>2. QED
    BY <2>1, <1>3
<1>5. QED
  BY <1>1, <1>4

-----------------------------------------------------------------------------
LEMMA InitTeach == Init => TeachInv
<1> SUFFICES ASSUME Init PROVE TeachInv
  OBVIOUS
<1>1. frame \in Nat \ {0} /\ Cleared \in Table /\ Taught0 \in Table
  BY DEF Init, Cleared, Taught0
<1>2. 0 \in 0..(frame * MaxFrames)
  BY <1>1
<1>3. paused \in BOOLEAN /\ save = "none"
  BY Zenon DEF Init
<1>4. TypeOK
  BY <1>1, <1>2, <1>3 DEF Init, TypeOK
<1>5. FirstFrame /\ LaterSlots /\ WritesWhole /\ Saved
  BY <1>1 DEF Init, FirstFrame, LaterSlots, WritesWhole, Saved, Cleared
<1>6. QED
  BY <1>4, <1>5 DEF TeachInv

\* Polling leaves the file as it is.
LEMMA FileStays ==
  ASSUME Saved, pc = "scan", pc' # "write", file' = file, save' = save, frame' = frame,
         save = "none" => i' <= frame
  PROVE  Saved'
<1>1. (HasFrame(file)' <=> HasFrame(file)) /\ (HasBeginning(file)' <=> HasBeginning(file))
  BY DEF HasFrame, HasBeginning, HasEdges
<1>2. Cleared' = Cleared /\ Taught0' = Taught0
  BY DEF Cleared, Taught0
<1>3. QED
  BY <1>1, <1>2 DEF Saved

LEMMA EdgeTeach == ASSUME TeachInv, Edge PROVE TeachInv'
<1> USE DEF TeachInv
<1>1. /\ frame \in FrameSizes /\ frame \in Nat \ {0} /\ frame' = frame
      /\ i \in 0..(SEQ_SIZE - 1) /\ sent \in Nat /\ table \in Table
      /\ sent \in 0..(frame * MaxFrames)
  BY DEF TypeOK, Edge
<1>2. sent < frame * MaxFrames
  BY <1>1, EdgesOfFrames DEF Edge, FrameDone
<1>3. /\ sent' = sent + 1 /\ sent' \in 0..(frame * MaxFrames)
      /\ i' = i + 1 /\ table' = [table EXCEPT ![i] = sent + 1]
      /\ file' = file /\ save' = save /\ paused' = FALSE
      /\ pc' = IF i + 1 = SEQ_SIZE THEN "success" ELSE "scan"
  <2>1. /\ sent' = sent + 1 /\ table' = [table EXCEPT ![i] = sent']
        /\ file' = file /\ save' = save /\ paused' = FALSE
        /\ i' = i + 1 /\ pc' = IF i' = SEQ_SIZE THEN "success" ELSE "scan"
    BY Zenon DEF Edge, Capture, NextSlot
  <2>2. sent' \in 0..(frame * MaxFrames)
    BY <1>1, <1>2, <2>1
  <2>3. QED
    BY <2>1, <2>2
<1>4. TypeOK'
  <2>1. table' \in Table /\ i' \in 0..SEQ_SIZE /\ (i' = SEQ_SIZE <=> pc' = "success")
    BY <1>1, <1>3
  <2>2. file' \in Table /\ paused' \in BOOLEAN /\ save' \in {"none", "failed", "torn", "done"}
    BY <1>3, Zenon DEF TypeOK
  <2>3. QED
    BY <1>1, <1>3, <2>1, <2>2 DEF TypeOK
<1>5. CASE i < frame
  <2>1. sent = i /\ \A k \in Slots : table[k] = IF k < i THEN k + 1 ELSE 0
    BY <1>5, <1>1 DEF FirstFrame
  <2>2. \A k \in Slots : table'[k] = IF k < i' THEN k + 1 ELSE 0
    BY <1>1, <1>3, <2>1
  <2>3. FirstFrame' /\ LaterSlots'
    BY <1>1, <1>3, <1>5, <2>1, <2>2 DEF FirstFrame, LaterSlots, HasFrame, HasEdges
  <2>4. QED
    BY <1>1, <1>3, <1>4, <1>5, <2>3, FileStays DEF WritesWhole, Edge
<1>6. i # frame
  <2>1. ASSUME i = frame PROVE FALSE
    <3>1. sent = frame /\ ~paused
      BY <2>1, <1>1 DEF FirstFrame, Edge
    <3>2. sent % frame = 0
      BY <3>1, <1>1
    <3>3. QED
      BY <3>1, <3>2, <1>1 DEF Edge, FrameDone
  <2>2. QED
    BY <2>1
<1>7. CASE i > frame
  <2>1. HasFrame(table)' /\ sent' >= frame
    BY <1>1, <1>3, <1>7 DEF LaterSlots, HasFrame, HasEdges
  <2>2. FirstFrame' /\ LaterSlots' /\ WritesWhole'
    BY <1>1, <1>3, <1>7, <2>1 DEF FirstFrame, LaterSlots, WritesWhole
  <2>3. save # "none"
    BY <1>1, <1>7 DEF Saved
  <2>4. Saved'
    BY <1>1, <1>3, <2>3, FileStays DEF Edge
  <2>5. QED
    BY <1>4, <2>2, <2>4
<1>8. QED
  BY <1>1, <1>5, <1>6, <1>7

\* The receiver is quiet only between two frames, so not before the first is over.
LEMMA PauseTeach == ASSUME TeachInv, Pause PROVE TeachInv'
<1> USE DEF TeachInv
<1>1. /\ frame \in Nat \ {0} /\ i \in 0..(SEQ_SIZE - 1)
      /\ sent \in 0..(frame * MaxFrames)
  BY DEF TypeOK, Pause
<1>2. frame <= i
  BY <1>1, EdgesOfFrames DEF Pause, Quiet, FrameDone, FirstFrame
<1>3. TypeOK'
  BY <1>1 DEF Pause, TypeOK
<1>4. QED
  <2>1. FirstFrame' /\ LaterSlots' /\ WritesWhole'
    BY <1>1, <1>2 DEF Pause, FirstFrame, LaterSlots, WritesWhole, HasFrame, HasEdges
  <2>2. save = "none" => i <= frame
    BY DEF Saved
  <2>3. Saved'
    BY <2>2, FileStays DEF Pause
  <2>4. QED
    BY <1>3, <2>1, <2>3

LEMMA SaveTeach == ASSUME TeachInv, Open \/ Write PROVE TeachInv'
<1> USE DEF TeachInv
<1>1. /\ frame \in Nat \ {0} /\ frame' = frame /\ i \in frame..(SEQ_SIZE - 1)
      /\ table \in Table /\ file \in Table /\ table' = table /\ sent' = sent
      /\ paused' = paused /\ sent \in Nat /\ save \in {"none", "failed", "torn", "done"}
  <2>1. /\ frame \in Nat \ {0} /\ table \in Table /\ file \in Table /\ sent \in Nat
        /\ i \in 0..SEQ_SIZE /\ save \in {"none", "failed", "torn", "done"}
    BY DEF TypeOK
  <2>2. frame' = frame /\ table' = table /\ sent' = sent /\ paused' = paused
    BY Zenon DEF Open, Write
  <2>3. pc \in {"open", "write"}
    BY Zenon DEF Open, Write
  <2>4. i # SEQ_SIZE
    BY <2>3 DEF TypeOK
  <2>5. i \in frame..(SEQ_SIZE - 1)
    BY <2>1, <2>3, <2>4 DEF WritesWhole
  <2>6. QED
    BY <2>1, <2>2, <2>5
<1>2. HasFrame(table)
  BY <1>1 DEF FirstFrame, LaterSlots, HasFrame, HasEdges
<1>3. Cleared \in Table
  BY DEF Cleared
<1>4. sent >= frame
  BY <1>1 DEF FirstFrame, LaterSlots
<1>5. \A t : (HasFrame(t)' <=> HasFrame(t)) /\ (HasBeginning(t)' <=> HasBeginning(t))
  BY <1>1 DEF HasFrame, HasBeginning, HasEdges
<1>6. ASSUME NextSlot, file' \in Table, save' \in {"failed", "torn", "done"},
             \/ file' = file /\ (save' = save \/ (save' = "failed" /\ save = "none"))
             \/ file' = table /\ save' = "done"
             \/ HasBeginning(file') /\ save' = "torn"
      PROVE  TeachInv'
  <2>1. i' = i + 1 /\ pc' = IF i + 1 = SEQ_SIZE THEN "success" ELSE "scan"
    BY <1>6 DEF NextSlot
  <2>2. TypeOK'
    BY <1>1, <1>6, <2>1 DEF TypeOK
  <2>3. FirstFrame' /\ LaterSlots' /\ WritesWhole'
    BY <1>1, <1>2, <1>4, <1>5, <2>1 DEF FirstFrame, LaterSlots, WritesWhole
  <2>4. Cleared' = Cleared /\ Taught0' = Taught0
    BY DEF Cleared, Taught0
  <2>5. HasFrame(file') => HasBeginning(file')
    BY <1>1 DEF HasFrame, HasBeginning
  <2>6. Saved'
    BY <1>2, <1>5, <1>6, <2>1, <2>4, <2>5 DEF Saved
  <2>7. QED
    BY <2>2, <2>3, <2>6
<1>7. CASE Open /\ file' = Cleared /\ save' = "torn" /\ pc' = "write" /\ UNCHANGED i
  <2>1. TypeOK'
    BY <1>1, <1>3, <1>7 DEF TypeOK
  <2>2. FirstFrame' /\ LaterSlots' /\ WritesWhole'
    BY <1>1, <1>7 DEF FirstFrame, LaterSlots, WritesWhole, HasFrame, HasEdges
  <2>3. Cleared' = Cleared
    BY DEF Cleared
  <2>4. Saved'
    BY <1>7, <2>3 DEF Saved
  <2>5. QED
    BY <2>1, <2>2, <2>4
<1>8. CASE Open /\ save' = (IF save = "none" THEN "failed" ELSE save) /\ NextSlot /\ UNCHANGED file
  BY <1>1, <1>6, <1>8
<1>9. CASE Write
  <2>1. NextSlot /\ save = "torn"
    BY <1>9, Zenon DEF Write, Saved
  <2>2. CASE file' = table /\ save' = "done"
    BY <1>1, <1>6, <2>1, <2>2
  <2>3. CASE (\E n \in Slots : file' = Beginning(n)) /\ UNCHANGED save
    <3>1. file' \in Table /\ HasBeginning(file')
      <4>1. PICK n \in Slots : file' = Beginning(n)
        BY <2>3, Zenon
      <4>2. n \in 0..SEQ_SIZE
        BY <4>1 DEF Slots
      <4>3. QED
        BY <1>1, <1>2, <4>1, <4>2, BeginningOf
    <3>2. QED
      BY <1>6, <2>1, <2>3, <3>1
  <2>4. QED
    BY <1>9, <2>2, <2>3, Zenon DEF Write
<1>10. QED
  BY <1>7, <1>8, <1>9 DEF Open

\* A process killed while it saves leaves a torn file; otherwise the file stays.
LEMMA KillTeach == ASSUME TeachInv, Kill PROVE TeachInv'
<1> USE DEF TeachInv
<1>1. /\ UNCHANGED <<i, table, frame, sent, paused, save>> /\ pc' = "killed" /\ pc # "success"
      /\ frame \in Nat \ {0} /\ table \in Table /\ file \in Table
  BY DEF Kill, TypeOK
<1>2. \/ file' = file
      \/ save = "torn" /\ file' \in Table /\ HasBeginning(file')
  <2>1. ASSUME pc = "write", NEW n \in 0..SEQ_SIZE, file' = Beginning(n)
        PROVE  save = "torn" /\ file' \in Table /\ HasBeginning(file')
    <3>1. HasFrame(table) /\ save = "torn"
      BY <1>1, <2>1 DEF WritesWhole, FirstFrame, LaterSlots, Saved, TypeOK, HasFrame, HasEdges
    <3>2. QED
      BY <1>1, <2>1, <3>1, BeginningOf
  <2>2. QED
    BY <2>1 DEF Kill
<1>3. TypeOK'
  BY <1>1, <1>2 DEF TypeOK
<1>4. FirstFrame' /\ LaterSlots' /\ WritesWhole'
  BY <1>1 DEF FirstFrame, LaterSlots, WritesWhole, HasFrame, HasEdges
<1>5. \A t : (HasFrame(t)' <=> HasFrame(t)) /\ (HasBeginning(t)' <=> HasBeginning(t))
  BY <1>1 DEF HasFrame, HasBeginning, HasEdges
<1>6. Cleared' = Cleared /\ Taught0' = Taught0
  BY DEF Cleared, Taught0
<1>7. Saved'
  BY <1>1, <1>2, <1>5, <1>6 DEF Saved
<1>8. QED
  BY <1>3, <1>4, <1>7

LEMMA NextTeach == TeachInv /\ [Next]_vars => TeachInv'
<1> SUFFICES ASSUME TeachInv, [Next]_vars PROVE TeachInv'
  OBVIOUS
<1>1. CASE UNCHANGED vars \/ Timeout \/ LeadingEdge
  <2>1. UNCHANGED <<i, table, file, frame, sent, paused, save>>
    BY <1>1, Zenon DEF vars, Timeout, LeadingEdge
  <2>2. \/ pc' = pc
        \/ pc = "edge" /\ pc' \in {"timeout", "scan"}
    <3>1. CASE UNCHANGED vars
      BY <3>1 DEF vars
    <3>2. CASE Timeout \/ LeadingEdge
      BY <3>2 DEF Timeout, LeadingEdge
    <3>3. QED
      BY <1>1, <3>1, <3>2
  <2>3. TypeOK'
    BY <2>1, <2>2 DEF TeachInv, TypeOK
  <2>4. FirstFrame' /\ LaterSlots' /\ WritesWhole'
    BY <2>1, <2>2 DEF TeachInv, FirstFrame, LaterSlots, WritesWhole, HasFrame, HasEdges, Cleared, Taught0
  <2>5. (HasFrame(file)' <=> HasFrame(file)) /\ (HasBeginning(file)' <=> HasBeginning(file))
    BY <2>1 DEF HasFrame, HasBeginning, HasEdges
  <2>6. Saved'
    BY <2>1, <2>2, <2>5 DEF TeachInv, Saved, WritesWhole, Cleared, Taught0, TypeOK
  <2>7. QED
    BY <2>3, <2>4, <2>6 DEF TeachInv
<1>2. QED
  BY <1>1, EdgeTeach, PauseTeach, SaveTeach, KillTeach DEF Next

-----------------------------------------------------------------------------
LEMMA TeachAlways == Spec => []TeachInv
  BY InitTeach, NextTeach, PTL DEF Spec

\* For every size of a sequence: captured numbers and slots stay in their range,
\* and the loop ends with its last slot.
THEOREM TypeCorrect == Spec => []TypeOK
<1>1. TeachInv => TypeOK
  BY DEF TeachInv
<1>2. QED
  BY TeachAlways, <1>1, PTL

\* IR_SequenceIn teaches the frame that was sent first, for every size of a
\* sequence and every frame that fits into it: so the file plays it after every
\* save that went through, and at the end unless every save failed.
THEOREM TaughtIsTheFrame == Spec => []PlaysTheFrame
<1>1. TeachInv => PlaysTheFrame
  <2> SUFFICES ASSUME TeachInv, frame < SEQ_SIZE,
                      save = "done" \/ (pc = "success" /\ save = "none")
               PROVE  Played(file) = [k \in 1..frame |-> k]
    BY DEF PlaysTheFrame
  <2>1. frame \in Nat \ {0} /\ file \in Table /\ (pc = "success" => i = SEQ_SIZE)
    BY DEF TeachInv, TypeOK
  <2>2. HasFrame(file)
    BY <2>1 DEF TeachInv, Saved
  <2>3. QED
    BY <2>1, <2>2, PlayedEdges DEF HasFrame
<1>2. QED
  BY TeachAlways, <1>1, PTL

\* Wherever a save fails or is torn and wherever the program is killed, IR_Dat.bin
\* plays the old sequence or a beginning of the first frame, and a part of that
\* only where a save was torn.
THEOREM OnlyItsBeginning == Spec => []OnlyABeginning
<1>1. TeachInv => OnlyABeginning
  <2> SUFFICES ASSUME TeachInv PROVE OnlyABeginning
    OBVIOUS
  <2>1. frame \in Nat \ {0} /\ file \in Table
    BY DEF TeachInv, TypeOK
  <2>2. CASE file = Taught0
    BY <2>2 DEF OnlyABeginning
  <2>3. CASE file = Cleared
    BY <2>1, <2>3, PlayedNothing DEF OnlyABeginning
  <2>4. CASE HasFrame(file)
    BY <2>1, <2>4, PlayedEdges DEF OnlyABeginning, HasFrame
  <2>5. CASE HasBeginning(file) /\ save = "torn"
    BY <2>1, <2>5, PlayedEdges DEF OnlyABeginning, HasBeginning
  <2>6. QED
    BY <2>2, <2>3, <2>4, <2>5 DEF TeachInv, Saved
<1>2. QED
  BY TeachAlways, <1>1, PTL
=============================================================================
