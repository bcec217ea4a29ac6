----------------------------- MODULE AudioWrite -----------------------------
(***************************************************************************)
(* AC_WriteAllWith of AudioControlWrite.c under the callers of AC_write:   *)
(* a series of commands is written to the serial port, each one by as many *)
(* write(2) calls as the kernel makes necessary, and the series ends with  *)
(* the first command that cannot be written.                               *)
(***************************************************************************)
EXTENDS Integers, Sequences

CONSTANTS
    Length,        \* bytes of a command
    NumCommands    \* commands the caller has to send

ASSUME LengthAssumption   == Length \in Nat \ {0}
ASSUME CommandsAssumption == NumCommands \in Nat \ {0}

AC_SUCCESS   == 0
AC_TX_FAILED == 32

\* Byte i of command k.
Byte == (1..NumCommands) \X (1..Length)

\* The byte that has to follow another one on the wire.
Following(b) == IF b[2] < Length THEN <<b[1], b[2] + 1>> ELSE <<b[1] + 1, 1>>

VARIABLES
    pc,         \* "call" AC_write, "write" in its loop, "done" with the series
    open,       \* uart0_filestream is a descriptor
    command,    \* number of the command being written
    written,    \* its bytes the kernel took over so far
    result,
    wire        \* everything the kernel took over, in order

vars == <<pc, open, command, written, result, wire>>

Init ==
    /\ pc = "call"
    /\ open \in BOOLEAN
    /\ command = 1
    /\ written = 0
    /\ result = AC_SUCCESS
    /\ wire = <<>>

\* AC_write refuses to write to a closed port.
RefuseClosedPort ==
    /\ pc = "call" /\ ~open
    /\ pc' = "done"
    /\ result' = AC_TX_FAILED
    /\ UNCHANGED <<open, command, written, wire>>

\* AC_WriteAllWith starts to count anew.
Call ==
    /\ pc = "call" /\ open
    /\ pc' = "write"
    /\ written' = 0
    /\ UNCHANGED <<open, command, result, wire>>

\* write(2) is given what is left of the buffer and takes a part of it.
Chunk_fromStart(k, from, n) == [i \in 1..n |-> <<k, i>>]
Chunk_shifted(k, from, n) == [i \in 1..n |-> <<k, from + i + 1>>]
Chunk(k, from, n) == [i \in 1..n |-> <<k, from + i>>]

Remaining == Length - written

TakesPart ==
    /\ pc = "write" /\ written < Length
    /\ \E n \in 1..Remaining :
          /\ wire' = wire \o Chunk(command, written, n)
          /\ written' = written + n
    /\ UNCHANGED <<pc, open, command, result>>

\* EINTR: nothing was taken, the same bytes are offered again.
Interrupted ==
    /\ pc = "write" /\ written < Length
    /\ UNCHANGED vars

\* write(2) returns 0, fails with another errno, or claims more than it was
\* given; none of the three took a byte, and the caller gives up the series.
WriteFails ==
    /\ pc = "write" /\ written < Length
    /\ result' = AC_TX_FAILED
    /\ pc' = "done"
    /\ UNCHANGED <<open, command, written, wire>>

\* The loop ends when it has written the whole length.
Complete_almost == written >= Length - 1
Complete == written >= Length

CommandWritten ==
    /\ pc = "write" /\ Complete
    /\ \/ /\ command < NumCommands
          /\ command' = command + 1
          /\ pc' = "call"
       \/ /\ command = NumCommands
          /\ pc' = "done"
          /\ UNCHANGED command
    /\ UNCHANGED <<open, written, result, wire>>

Next == RefuseClosedPort \/ Call \/ TakesPart \/ Interrupted \/ WriteFails \/ CommandWritten

Spec == Init /\ [][Next]_vars

-----------------------------------------------------------------------------
TypeOK ==
    /\ pc \in {"call", "write", "done"}
    /\ open \in BOOLEAN
    /\ command \in 1..NumCommands
    /\ written \in 0..Length
    /\ result \in {AC_SUCCESS, AC_TX_FAILED}
    /\ wire \in Seq(Byte)

\* However the kernel splits the writes, every byte is on the wire once and in
\* the order of the commands: a part is neither repeated nor left out, and no
\* command follows a torn one.
InOrder ==
    \A p \in 1..Len(wire) :
        wire[p] = IF p = 1 THEN <<1, 1>> ELSE Following(wire[p - 1])

\* Success is reported exactly when the last byte of the last command is out.
SuccessMeansSent ==
    pc = "done" =>
        (result = AC_SUCCESS <=>
            wire # <<>> /\ wire[Len(wire)] = <<NumCommands, Length>>)

-----------------------------------------------------------------------------
\* Strengthening of the two: where the wire stands is where the program thinks
\* it stands.
Sent == IF pc = "call" THEN 0 ELSE written

LastByte ==
    IF wire = <<>>
    THEN command = 1 /\ Sent = 0
    ELSE IF Sent > 0
    THEN wire[Len(wire)] = <<command, Sent>>
    ELSE command > 1 /\ wire[Len(wire)] = <<command - 1, Length>>

Outcome ==
    /\ ~open => command = 1 /\ written = 0
    /\ pc = "write" => open
    /\ pc # "done" => result = AC_SUCCESS
    /\ pc = "done" /\ result = AC_SUCCESS => command = NumCommands /\ written = Length
    /\ pc = "done" /\ result # AC_SUCCESS => written < Length

WriteInv == TypeOK /\ InOrder /\ LastByte /\ Outcome
=============================================================================
