------------------------- MODULE InstanceLockProofs -------------------------
(***************************************************************************)
(* Proofs about InstanceLock, for any number of processes and directories. *)
(* ExclusionInv is inductive: the lock of a file has one holder, and until *)
(* a start overlaps an exit, everybody in a directory is on the file that  *)
(* the directory names, so that one holder is the only one running.        *)
(***************************************************************************)
EXTENDS InstanceLock, TLAPS

LEMMA InitExclusion == Init => ExclusionInv
<1> SUFFICES ASSUME Init PROVE ExclusionInv
  OBVIOUS
<1>1. TypeOK
  <2>1. overlap \in BOOLEAN
    BY Zenon DEF Init
  <2>2. QED
    BY <2>1 DEF Init, TypeOK
<1>2. \A p \in Procs : ~Locked(p) /\ ~Opened(p) /\ ~Running(p)
  BY DEF Init, Locked, Opened, Running
<1>3. QED
  BY <1>1, <1>2 DEF ExclusionInv, OneHolder, OpenIsEntry

\* A new file is none that is there.
LEMMA Fresh == FreeInodes # {} => FreshInode \in FreeInodes
  BY DEF FreshInode

\* An overlap stays what it is until the last process goes.
LEMMA OverlapStays ==
    ASSUME TypeOK, NEW p \in Procs, OverlapGoes(p), pc' = [pc EXCEPT ![p] = "idle"]
    PROVE  /\ overlap' \in BOOLEAN
           /\ ~overlap' => ~overlap \/ \A q \in Procs : pc'[q] = "idle"
<1>1. overlap' \in BOOLEAN
  BY Zenon DEF OverlapGoes
<1>2. ~overlap' => ~overlap \/ Alone(p)
  BY Zenon DEF OverlapGoes
<1>3. QED
  BY <1>1, <1>2 DEF TypeOK, Alone

LEMMA StepType == TypeOK /\ [Next]_vars => TypeOK'
<1> SUFFICES ASSUME TypeOK, [Next]_vars PROVE TypeOK'
  OBVIOUS
<1> USE InodesAssumption DEF TypeOK, Inodes, NoFile
<1>1. CASE UNCHANGED vars
  BY <1>1 DEF vars
<1>2. ASSUME NEW p \in Procs, OpenFile(p) PROVE TypeOK'
  BY <1>2, Fresh DEF OpenFile, FreeInodes
<1>3. ASSUME NEW p \in Procs, Acquire(p) PROVE TypeOK'
  BY <1>3 DEF Acquire
<1>4. ASSUME NEW p \in Procs, Refused(p) PROVE TypeOK'
  BY <1>4, OverlapStays DEF Refused, EntryAfterRefusal
<1>5. ASSUME NEW p \in Procs, ReturnFromMain(p) PROVE TypeOK'
  BY <1>5 DEF ReturnFromMain, Unlink
<1>6. ASSUME NEW p \in Procs, Exit(p) PROVE TypeOK'
  BY <1>6, OverlapStays DEF Exit
<1>7. ASSUME NEW p \in Procs, Kill(p) PROVE TypeOK'
  BY <1>7, OverlapStays DEF Kill
<1>8. QED
  BY <1>1, <1>2, <1>3, <1>4, <1>5, <1>6, <1>7 DEF Next

\* Only Acquire makes a holder, and it does so when the file has none.
LEMMA StepOneHolder == TypeOK /\ OneHolder /\ [Next]_vars => OneHolder'
<1> SUFFICES ASSUME TypeOK, OneHolder, [Next]_vars PROVE OneHolder'
  OBVIOUS
<1> USE DEF TypeOK, OneHolder, Locked
<1>1. CASE UNCHANGED vars
  BY <1>1 DEF vars
<1>2. ASSUME NEW p \in Procs, OpenFile(p) PROVE OneHolder'
  BY <1>2 DEF OpenFile
<1>3. ASSUME NEW p \in Procs, Acquire(p) PROVE OneHolder'
  BY <1>3 DEF Acquire, Holders
<1>4. ASSUME NEW p \in Procs, Refused(p) PROVE OneHolder'
  BY <1>4 DEF Refused, EntryAfterRefusal
<1>5. ASSUME NEW p \in Procs, ReturnFromMain(p) PROVE OneHolder'
  BY <1>5 DEF ReturnFromMain, Running
<1>6. ASSUME NEW p \in Procs, Exit(p) PROVE OneHolder'
  BY <1>6 DEF Exit
<1>7. ASSUME NEW p \in Procs, Kill(p) PROVE OneHolder'
  BY <1>7 DEF Kill
<1>8. QED
  BY <1>1, <1>2, <1>3, <1>4, <1>5, <1>6, <1>7 DEF Next

\* A new file is made only where the directory had none, hence where nobody
\* had it open; a name is removed only by the one holder of its file.
LEMMA StepOpenIsEntry ==
  TypeOK /\ OneHolder /\ OpenIsEntry /\ [Next]_vars => OpenIsEntry'
<1> SUFFICES ASSUME TypeOK, OneHolder, OpenIsEntry, [Next]_vars PROVE OpenIsEntry'
  OBVIOUS
<1> USE DEF TypeOK, OpenIsEntry, Opened, Running, Inodes, NoFile
<1>1. CASE UNCHANGED vars
  BY <1>1 DEF vars
<1>2. ASSUME NEW p \in Procs, OpenFile(p) PROVE OpenIsEntry'
  BY <1>2, InodesAssumption, Fresh DEF OpenFile, FreeInodes
<1>3. ASSUME NEW p \in Procs, Acquire(p) PROVE OpenIsEntry'
  BY <1>3 DEF Acquire
<1>4. ASSUME NEW p \in Procs, Refused(p) PROVE OpenIsEntry'
  BY <1>4, OverlapStays DEF Refused, EntryAfterRefusal
<1>5. ASSUME NEW p \in Procs, ReturnFromMain(p) PROVE OpenIsEntry'
  <2> SUFFICES ASSUME ~overlap', NEW q \in Procs, (Opened(q) \/ Running(q))'
               PROVE  fd'[q] = entry'[dir'[q]] /\ fd'[q] # NoFile
    BY DEF Opened, Running
  <2>1. q # p /\ (Opened(q) \/ Running(q)) /\ ~overlap
    BY <1>5 DEF ReturnFromMain
  <2>2. fd[q] = entry[dir[q]] /\ fd[p] = entry[dir[p]] /\ fd[q] # NoFile
    BY <1>5, <2>1 DEF ReturnFromMain
  <2>3. dir[q] # dir[p]
    <3> SUFFICES ASSUME dir[q] = dir[p] PROVE FALSE
      OBVIOUS
    <3>1. ~Opened(q)
      BY <1>5 DEF ReturnFromMain
    <3>2. Locked(q) /\ Locked(p) /\ fd[q] = fd[p]
      BY <1>5, <2>1, <2>2, <3>1 DEF ReturnFromMain, Locked
    <3> QED
      BY <2>1, <3>2 DEF OneHolder
  <2> QED
    BY <1>5, <2>2, <2>3 DEF ReturnFromMain, Unlink
<1>6. ASSUME NEW p \in Procs, Exit(p) PROVE OpenIsEntry'
  BY <1>6, OverlapStays DEF Exit
<1>7. ASSUME NEW p \in Procs, Kill(p) PROVE OpenIsEntry'
  BY <1>7, OverlapStays DEF Kill
<1>8. QED
  BY <1>1, <1>2, <1>3, <1>4, <1>5, <1>6, <1>7 DEF Next

LEMMA ExclusionInvariant == Spec => []ExclusionInv
<1>1. ExclusionInv /\ [Next]_vars => ExclusionInv'
  BY StepType, StepOneHolder, StepOpenIsEntry DEF ExclusionInv
<1>2. QED
  BY <1>1, InitExclusion, PTL DEF Spec

\* The variables of InstanceLock always have their types.
THEOREM TypeCorrect == Spec => []TypeOK
<1>1. ExclusionInv => TypeOK
  BY DEF ExclusionInv
<1>2. QED
  BY <1>1, ExclusionInvariant, PTL

\* For any number of processes and directories: until a start overlaps an exit,
\* every process that is about to lock, or runs, has the file open that a new
\* process would open.
THEOREM OpenFileIsCurrent == Spec => []OpenIsEntry
<1>1. ExclusionInv => OpenIsEntry
  BY DEF ExclusionInv
<1>2. QED
  BY <1>1, ExclusionInvariant, PTL

\* For any number of processes and directories: two instances with the same
\* lock directory run together only after a start of the program overlapped an
\* exit, between the open and the fcntl of only_one_instance, and before all of
\* them are gone.
THEOREM Exclusive == Spec => []ExclusiveWithoutOverlap
<1>1. ExclusionInv => ExclusiveWithoutOverlap
  BY DEF ExclusionInv, OneHolder, OpenIsEntry, ExclusiveWithoutOverlap, Locked, Running
<1>2. QED
  BY <1>1, ExclusionInvariant, PTL
=============================================================================
