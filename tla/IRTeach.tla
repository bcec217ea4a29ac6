------------------------------- MODULE IRTeach -------------------------------
(***************************************************************************)
(* IR_SequenceIn of IRcontrol.c: an infrared sequence is taught by polling *)
(* the receiver, and IR_SequenceOut plays what IR_Dat.bin then holds.      *)
(*                                                                         *)
(* A sequence is a table of SEQ_SIZE slots; 0 is an empty slot, and a slot *)
(* holds the number of the edge captured in it.  Playing stops at the      *)
(* first empty slot.  The remote sends a frame of edges less than 60 ms    *)
(* apart, pauses for longer, and may repeat it.                            *)
(***************************************************************************)
EXTENDS Integers, FiniteSetsExt

CONSTANTS
    SEQ_SIZE,    \* slots of a sequence
    FrameSizes,  \* numbers of edges after the leading one the remotes send
    MaxFrames,   \* frames it sends before it is silent
    Faults       \* what may go wrong: "file", "kill"

ASSUME SizeAssumption   == SEQ_SIZE \in Nat \ {0}
ASSUME FramesAssumption == FrameSizes \subseteq Nat \ {0} /\ MaxFrames \in Nat \ {0}
ASSUME FaultsAssumption == Faults \subseteq {"file", "kill"}

Slots == 0..(SEQ_SIZE - 1)
Table == [Slots -> Nat]
Cleared == [i \in Slots |-> 0]
Taught0 == [i \in Slots |-> 1]       \* what was taught before

VARIABLES
    pc,        \* "edge": waiting for the leading edge, "scan", "open", "write",
               \* "success", "timeout", "killed"
    i,         \* slot to capture into
    table,     \* IR_sequences[seqID]
    file,      \* the same sequence in IR_Dat.bin, which holds them all
    frame,     \* edges of the frame the remote sends
    sent,      \* edges sent after the leading one
    paused,    \* the remote has paused since the last edge
    save       \* history: "none", "failed": the file could not be opened so far,
               \* else how the last save that emptied it went, "torn" or "done"

vars == <<pc, i, table, file, frame, sent, paused, save>>

Init ==
    /\ pc = "edge" /\ i = 0
    /\ table = Cleared
    /\ file \in {Cleared, Taught0}
    /\ frame \in FrameSizes
    /\ sent = 0 /\ paused = FALSE
    /\ save = "none"

-----------------------------------------------------------------------------
\* Nine seconds without the leading edge: nothing is saved.
Timeout ==
    /\ pc = "edge"
    /\ pc' = "timeout"
    /\ UNCHANGED <<i, table, file, frame, sent, paused, save>>

LeadingEdge ==
    /\ pc = "edge"
    /\ pc' = "scan"
    /\ UNCHANGED <<i, table, file, frame, sent, paused, save>>

\* The for loop ends after the last slot, whatever it captured.
NextSlot_none == UNCHANGED i /\ pc' = "scan"
NextSlot_past == i' = i + 1 /\ pc' = IF i' > SEQ_SIZE THEN "success" ELSE "scan"
NextSlot == i' = i + 1 /\ pc' = IF i' = SEQ_SIZE THEN "success" ELSE "scan"

Capture_shifted(n) == table' = [table EXCEPT ![(i + 1) % SEQ_SIZE] = n]
Capture(n) == table' = [table EXCEPT ![i] = n]

\* Within a frame an edge comes before the 60 ms are over, and restarts them.
FrameDone == sent > 0 /\ sent % frame = 0
Edge ==
    /\ pc = "scan"
    /\ FrameDone => paused /\ sent < frame * MaxFrames
    /\ sent' = sent + 1
    /\ Capture(sent')
    /\ paused' = FALSE
    /\ NextSlot
    /\ UNCHANGED <<file, frame, save>>

\* isExpired(IR_SEQUENCE_TEACHED, &timeoutTimer)
Quiet_sinceLeadingEdge == sent > 0
Quiet == FrameDone

\* No edge for 60 ms: the table is written, but only the inner loop is left.
\* The slot stays empty, and the timer is not restarted, so that the remaining
\* slots are passed in the same way unless an edge comes in between.
Pause ==
    /\ pc = "scan"
    /\ Quiet
    /\ paused' = TRUE
    /\ pc' = "open"
    /\ UNCHANGED <<i, table, file, frame, sent, save>>

\* IR_writeDatFile, its result unused: fopen empties the file, so that it reads
\* as tables without any slot ...
Open ==
    /\ pc = "open"
    /\ \/ /\ file' = Cleared /\ save' = "torn"
          /\ pc' = "write"
          /\ UNCHANGED i
       \/ /\ "file" \in Faults
          /\ save' = IF save = "none" THEN "failed" ELSE save
          /\ NextSlot
          /\ UNCHANGED file
    /\ UNCHANGED <<table, frame, sent, paused>>

\* ... and fwrite and fclose, neither of them checked, write all sequences in
\* several pieces.  IR_readDatFile does not check what fread returns, so what is
\* missing of a file that ends before reads as empty slots.
Beginning(n) == [k \in Slots |-> IF k < n THEN table[k] ELSE 0]

Write ==
    /\ pc = "write"
    /\ \/ file' = table /\ save' = "done"
       \/ "file" \in Faults /\ (\E n \in Slots : file' = Beginning(n)) /\ UNCHANGED save
    /\ NextSlot
    /\ UNCHANGED <<table, frame, sent, paused>>

\* Between two pieces as well.
Kill ==
    /\ "kill" \in Faults /\ pc \in {"edge", "scan", "open", "write"}
    /\ pc' = "killed"
    /\ \/ UNCHANGED file
       \/ pc = "write" /\ \E n \in 0..SEQ_SIZE : file' = Beginning(n)
    /\ UNCHANGED <<i, table, frame, sent, paused, save>>

Next == Timeout \/ LeadingEdge \/ Edge \/ Pause \/ Open \/ Write \/ Kill

Spec == Init /\ [][Next]_vars

\* The program polls and never blocks, and a frame once begun is sent to its end.
FairSpec == Spec /\ WF_vars(Timeout) /\ WF_vars(Edge \/ Pause \/ Open \/ Write)

-----------------------------------------------------------------------------
TypeOK ==
    /\ pc \in {"edge", "scan", "open", "write", "success", "timeout", "killed"}
    /\ i \in 0..SEQ_SIZE
    /\ i = SEQ_SIZE <=> pc = "success"
    /\ table \in Table
    /\ file \in Table
    /\ paused \in BOOLEAN /\ save \in {"none", "failed", "torn", "done"}
    /\ frame \in FrameSizes
    /\ sent \in 0..(frame * MaxFrames)

\* IR_SequenceOut plays the slots before the first empty one.
Played(t) ==
    LET empty == {k \in Slots : t[k] = 0}
        n == IF empty = {} THEN SEQ_SIZE ELSE Min(empty)
    IN  [k \in 1..n |-> t[k - 1]]

\* A taught sequence plays the frame that was sent first, edge by edge: not a
\* part of it, and nothing of its repetitions.  So it is at the end, unless the
\* frame does not fit or the file could not be written, and from the first save
\* that went through, unless a later one is torn.
PlaysTheFrame ==
    frame < SEQ_SIZE /\ (save = "done" \/ (pc = "success" /\ save = "none")) =>
        Played(file) = [k \in 1..frame |-> k]

\* Wherever a save fails or the program is killed, the file plays what it did
\* before, or a beginning of the first frame: never slots of both, nor of two
\* frames; and a part of the frame only if a disk full or a kill has torn the
\* save, never because the capture saved too early.
OnlyABeginning ==
    \/ Played(file) = Played(Taught0)
    \/ \E n \in 0..frame : /\ Played(file) = [k \in 1..n |-> k]
                           /\ save = "torn" \/ n \in {0, frame}

\* Software documentation: a taught sequence is measured and persisted.
SuccessMeansSaved == pc = "success" => Played(file) = Played(table)

\* The capture ends, with the last slot if not before, or is killed.
TeachEnds == <>(pc \in {"success", "timeout", "killed"})
=============================================================================
