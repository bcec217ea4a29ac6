---------------------------- MODULE InstanceLock ----------------------------
(***************************************************************************)
(* only_one_instance and ooi_unlink of main.c, for processes that are      *)
(* started, end and are killed at any time.                                *)
(*                                                                         *)
(* The lock is a POSIX record lock on a file, so it belongs to the inode   *)
(* the process opened.  The file is found by name when it is opened and    *)
(* removed by name when the program exits; the lock itself is released by  *)
(* the kernel when the process ends.                                       *)
(***************************************************************************)
EXTENDS Integers

CONSTANTS
    Procs,        \* processes, each one may run the program again and again
    Dirs,         \* candidates for the directory of the lock file
    MaxInodes     \* bound on the lock files there are at the same time

ASSUME InodesAssumption == MaxInodes \in Nat

NoFile == 0
Inodes == 1..MaxInodes

VARIABLES
    pc,       \* "idle", "opened" the file, "running", "exiting" after atexit
    dir,      \* directory of the process's ooi_path
    fd,       \* inode the process has open
    entry,    \* inode a directory has under the name of the lock file
    overlap   \* history: some exit unlinked the file while another process
              \* had opened the lock file of that directory but not locked it,
              \* and since then there was always a process

vars == <<pc, dir, fd, entry, overlap>>

Init ==
    /\ pc = [p \in Procs |-> "idle"]
    /\ dir \in [Procs -> Dirs]
    /\ fd = [p \in Procs |-> NoFile]
    /\ entry = [d \in Dirs |-> NoFile]
    /\ overlap = FALSE

Running(p) == pc[p] = "running"
Opened(p)  == pc[p] = "opened"

\* When the last process is gone, so is every lock on a file without a name.
Alone(p) == \A q \in Procs \ {p} : pc[q] = "idle"
OverlapGoes(p) == overlap' = (overlap /\ ~Alone(p))

\* The kernel keeps a lock until its process is gone, also during atexit.
Locked(p) == pc[p] \in {"running", "exiting"}

\* open(2) with O_CREAT gives an inode that no name and no process has, perhaps
\* one that was used before; the next directory is tried, and the program left,
\* when it fails.
FreeInodes == Inodes \ ({fd[p] : p \in Procs} \cup {entry[d] : d \in Dirs})
FreshInode_failed == -1
FreshInode == CHOOSE i \in FreeInodes : TRUE

\* Which candidate is the first that can be opened depends on the environment
\* of the process.  O_CREAT makes a new file when the name has none.
OpenFile(p) ==
    /\ pc[p] = "idle"
    /\ \E d \in Dirs :
          /\ dir' = [dir EXCEPT ![p] = d]
          /\ \/ /\ entry[d] # NoFile
                /\ fd' = [fd EXCEPT ![p] = entry[d]]
                /\ UNCHANGED entry
             \/ /\ entry[d] = NoFile
                /\ FreeInodes # {}
                /\ entry' = [entry EXCEPT ![d] = FreshInode]
                /\ fd' = [fd EXCEPT ![p] = FreshInode]
    /\ pc' = [pc EXCEPT ![p] = "opened"]
    /\ UNCHANGED overlap

\* F_SETLK on the open file: granted unless another process has it.
Holders_running(p) == {q \in Procs \ {p} : pc[q] = "exiting" /\ fd[q] = fd[p]}
Holders(p) == {q \in Procs \ {p} : Locked(q) /\ fd[q] = fd[p]}

Acquire(p) ==
    /\ Opened(p) /\ Holders(p) = {}
    /\ pc' = [pc EXCEPT ![p] = "running"]
    /\ UNCHANGED <<dir, fd, entry, overlap>>

\* ooi_unlink removes whatever now has the name.
Unlink(d) == [entry EXCEPT ![d] = NoFile]

\* "Another instance of this program is running": exit(1), and because atexit
\* was not called yet the file stays.
EntryAfterRefusal_removed(d) == Unlink(d)
EntryAfterRefusal(d) == entry

Refused(p) ==
    /\ Opened(p) /\ Holders(p) # {}
    /\ pc' = [pc EXCEPT ![p] = "idle"]
    /\ fd' = [fd EXCEPT ![p] = NoFile]
    /\ entry' = EntryAfterRefusal(dir[p])
    /\ OverlapGoes(p)
    /\ UNCHANGED dir

ReturnFromMain(p) ==
    /\ Running(p)
    /\ pc' = [pc EXCEPT ![p] = "exiting"]
    /\ entry' = Unlink(dir[p])
    /\ overlap' = (overlap \/ \E q \in Procs : Opened(q) /\ dir[q] = dir[p])
    /\ UNCHANGED <<dir, fd>>

\* The process is gone and with it its lock.
Exit(p) ==
    /\ pc[p] = "exiting"
    /\ pc' = [pc EXCEPT ![p] = "idle"]
    /\ fd' = [fd EXCEPT ![p] = NoFile]
    /\ OverlapGoes(p)
    /\ UNCHANGED <<dir, entry>>

\* A signal ends the process wherever it is; atexit does not run.
Kill(p) ==
    /\ Opened(p) \/ Running(p)
    /\ pc' = [pc EXCEPT ![p] = "idle"]
    /\ fd' = [fd EXCEPT ![p] = NoFile]
    /\ OverlapGoes(p)
    /\ UNCHANGED <<dir, entry>>

Next == \E p \in Procs :
    OpenFile(p) \/ Acquire(p) \/ Refused(p) \/ ReturnFromMain(p) \/ Exit(p) \/ Kill(p)

Spec == Init /\ [][Next]_vars

-----------------------------------------------------------------------------
TypeOK ==
    /\ pc \in [Procs -> {"idle", "opened", "running", "exiting"}]
    /\ dir \in [Procs -> Dirs]
    /\ fd \in [Procs -> Inodes \cup {NoFile}]
    /\ entry \in [Dirs -> Inodes \cup {NoFile}]
    /\ overlap \in BOOLEAN

\* The lock does its work as long as no start overlaps an exit, and again when all
\* processes of such an overlap are gone: two instances that agree on the
\* directory are never both past only_one_instance, however many were started,
\* refused or killed before.
ExclusiveWithoutOverlap ==
    ~overlap => \A p, q \in Procs :
        Running(p) /\ Running(q) /\ dir[p] = dir[q] => p = q

\* What the comment on only_one_instance says: an instance exits if another
\* one is running, so no two run together.
OnlyOneInstance == \A p, q \in Procs : Running(p) /\ Running(q) => p = q

-----------------------------------------------------------------------------
\* Strengthening of ExclusiveWithoutOverlap.  A file has one lock; without an
\* overlap everybody who is about to lock or has locked and not left is on the
\* file the directory names, and directories never share a file.
OneHolder ==
    \A p, q \in Procs : Locked(p) /\ Locked(q) /\ fd[p] = fd[q] => p = q

OpenIsEntry ==
    ~overlap => \A p \in Procs :
        Opened(p) \/ Running(p) => fd[p] = entry[dir[p]] /\ fd[p] # NoFile

ExclusionInv == TypeOK /\ OneHolder /\ OpenIsEntry
=============================================================================
