-------------------------- MODULE AudioWriteProofs --------------------------
(***************************************************************************)
(* Proofs about AudioWrite, for commands of any length and any way the     *)
(* kernel splits, interrupts or refuses a write.                           *)
(***************************************************************************)
EXTENDS AudioWrite, SequenceTheorems, TLAPS

\* The bytes of a chunk, and where they are after the chunk is on the wire.
LEMMA ChunkOnWire ==
  ASSUME TypeOK, NEW n \in 1..Remaining
  PROVE  /\ wire \o Chunk(command, written, n) \in Seq(Byte)
         /\ Len(wire \o Chunk(command, written, n)) = Len(wire) + n
         /\ \A p \in 1..Len(wire) : (wire \o Chunk(command, written, n))[p] = wire[p]
         /\ \A i \in 1..n : (wire \o Chunk(command, written, n))[Len(wire) + i]
                             = <<command, written + i>>
<1> DEFINE c == Chunk(command, written, n)
<1>1. n \in Nat /\ wire \in Seq(Byte)
  BY LengthAssumption DEF TypeOK, Remaining
<1>2. c \in Seq(Byte) /\ Len(c) = n /\ \A i \in 1..n : c[i] = <<command, written + i>>
  <2>1. \A i \in 1..n : <<command, written + i>> \in Byte
    BY LengthAssumption DEF TypeOK, Remaining, Byte
  <2>2. QED
    BY <1>1, <2>1 DEF Chunk
<1> HIDE DEF c
<1>3. wire \o c \in Seq(Byte) /\ Len(wire \o c) = Len(wire) + n
  <2>1. wire \o c \in Seq(Byte)
    BY <1>1, <1>2
  <2>2. Len(wire \o c) = Len(wire) + Len(c)
    BY <1>1, <1>2, ConcatProperties
  <2>3. QED
    BY <1>2, <2>1, <2>2
<1>4. \A p \in 1..Len(wire) : (wire \o c)[p] = wire[p]
  BY <1>1, <1>2
<1>5. \A i \in 1..n : (wire \o c)[Len(wire) + i] = c[i]
  BY <1>1, <1>2
<1>6. QED
  BY <1>2, <1>3, <1>4, <1>5 DEF c

LEMMA InitWrite == Init => WriteInv
<1> SUFFICES ASSUME Init PROVE WriteInv
  OBVIOUS
<1> USE LengthAssumption, CommandsAssumption DEF Init
<1>1. open \in BOOLEAN
  BY Zenon
<1>2. TypeOK
  BY <1>1 DEF TypeOK, AC_SUCCESS, AC_TX_FAILED
<1>3. QED
  BY <1>2 DEF WriteInv, InOrder, LastByte, Sent, Outcome

LEMMA TakesPartKeeps == WriteInv /\ TakesPart => WriteInv'
<1> SUFFICES ASSUME WriteInv, TakesPart PROVE WriteInv'
  OBVIOUS
<1> USE LengthAssumption, CommandsAssumption DEF WriteInv
<1>1. PICK n \in 1..Remaining :
        /\ wire' = wire \o Chunk(command, written, n)
        /\ written' = written + n
  BY DEF TakesPart
<1>2. /\ wire' \in Seq(Byte)
      /\ Len(wire') = Len(wire) + n
      /\ \A p \in 1..Len(wire) : wire'[p] = wire[p]
      /\ \A i \in 1..n : wire'[Len(wire) + i] = <<command, written + i>>
  BY <1>1, ChunkOnWire
<1>3. /\ pc = "write" /\ UNCHANGED <<pc, open, command, result>>
      /\ written < Length /\ wire \in Seq(Byte) /\ Len(wire) \in Nat
      /\ written \in 0..Length /\ command \in 1..NumCommands /\ n \in Nat \ {0}
  BY DEF TakesPart, TypeOK, Remaining
<1>4. written' \in 0..Length
  BY <1>1, <1>3 DEF Remaining
<1>5. TypeOK'
  BY <1>2, <1>3, <1>4 DEF TypeOK
<1>6. LastByte'
  BY <1>1, <1>2, <1>3 DEF LastByte, Sent
<1>7. InOrder'
  <2> SUFFICES ASSUME NEW p \in 1..Len(wire')
               PROVE  wire'[p] = IF p = 1 THEN <<1, 1>> ELSE Following(wire'[p - 1])
    BY DEF InOrder
  <2>1. CASE p \in 1..Len(wire)
    BY <1>2, <1>3, <2>1 DEF InOrder
  <2>2. CASE p = Len(wire) + 1
    <3>1. wire'[p] = <<command, written + 1>>
      BY <1>2, <1>3, <2>2
    <3>2. CASE wire = <<>>
      BY <1>3, <2>2, <3>1, <3>2 DEF LastByte, Sent
    <3>3. CASE wire # <<>>
      <4>1. p # 1 /\ wire'[p - 1] = wire[Len(wire)]
        BY <1>2, <1>3, <2>2, <3>3
      <4>2. Following(wire[Len(wire)]) = <<command, written + 1>>
        <5>1. CASE written > 0
          BY <1>3, <3>3, <5>1 DEF LastByte, Sent, Following
        <5>2. CASE written = 0
          <6>1. wire[Len(wire)] = <<command - 1, Length>>
            BY <1>3, <3>3, <5>2 DEF LastByte, Sent
          <6>2. QED
            BY <1>3, <5>2, <6>1 DEF Following
        <5>3. QED
          BY <1>3, <5>1, <5>2
      <4>3. QED
        BY <3>1, <4>1, <4>2
    <3>4. QED
      BY <3>2, <3>3
  <2>3. CASE p > Len(wire) + 1
    <3>1. PICK i \in 2..n : p = Len(wire) + i
      <4>1. p - Len(wire) \in 2..n /\ p = Len(wire) + (p - Len(wire))
        BY <1>2, <1>3, <2>3
      <4>2. QED
        BY <4>1
    <3>2. wire'[p] = <<command, written + i>> /\ p # 1
      BY <1>2, <1>3, <3>1
    <3>3. wire'[p - 1] = <<command, written + (i - 1)>>
      <4>1. i - 1 \in 1..n /\ p - 1 = Len(wire) + (i - 1)
        BY <1>3, <3>1
      <4>2. QED
        BY <1>2, <4>1
    <3>4. written + (i - 1) < Length
      BY <1>1, <1>3, <3>1 DEF Remaining
    <3>5. QED
      BY <1>3, <3>1, <3>2, <3>3, <3>4 DEF Following
  <2>4. QED
    BY <1>2, <1>3, <2>1, <2>2, <2>3
<1>8. Outcome'
  BY <1>3 DEF Outcome
<1>9. QED
  BY <1>5, <1>6, <1>7, <1>8

LEMMA NextWrite == WriteInv /\ [Next]_vars => WriteInv'
<1> SUFFICES ASSUME WriteInv, [Next]_vars PROVE WriteInv'
  OBVIOUS
<1> USE LengthAssumption, CommandsAssumption
        DEF WriteInv, TypeOK, InOrder, LastByte, Sent, Outcome, AC_SUCCESS, AC_TX_FAILED
<1>1. CASE RefuseClosedPort
  BY <1>1 DEF RefuseClosedPort
<1>2. CASE Call
  BY <1>2 DEF Call
<1>3. CASE TakesPart
  BY <1>3, TakesPartKeeps
<1>4. CASE Interrupted \/ UNCHANGED vars
  BY <1>4 DEF Interrupted, vars
<1>5. CASE WriteFails
  BY <1>5 DEF WriteFails
<1>6. CASE CommandWritten
  <2>1. /\ written = Length /\ pc = "write" /\ wire # <<>>
        /\ wire[Len(wire)] = <<command, Length>>
        /\ UNCHANGED <<open, written, result, wire>>
    BY <1>6 DEF CommandWritten, Complete
  <2>2. CASE command < NumCommands
    BY <1>6, <2>1, <2>2 DEF CommandWritten
  <2>3. CASE command = NumCommands
    BY <1>6, <2>1, <2>3 DEF CommandWritten
  <2>4. QED
    BY <2>2, <2>3
<1>7. QED
  BY <1>1, <1>2, <1>3, <1>4, <1>5, <1>6 DEF Next

LEMMA WriteInvariant == Spec => []WriteInv
  BY InitWrite, NextWrite, PTL DEF Spec

\* The write loop never counts past the command, for any length of a command.
THEOREM TypeCorrect == Spec => []TypeOK
<1>1. WriteInv => TypeOK
  BY DEF WriteInv
<1>2. QED
  BY <1>1, WriteInvariant, PTL

\* Whatever partial writes, interruptions and errors there are, the bytes on
\* the wire are those of the commands, each once and in order.
THEOREM BytesInOrder == Spec => []InOrder
<1>1. WriteInv => InOrder
  BY DEF WriteInv
<1>2. QED
  BY <1>1, WriteInvariant, PTL

\* AC_SUCCESS is returned exactly when the last byte went out.
THEOREM SuccessIsComplete == Spec => []SuccessMeansSent
<1>1. WriteInv => SuccessMeansSent
  BY LengthAssumption, CommandsAssumption
  DEF WriteInv, TypeOK, LastByte, Sent, Outcome, SuccessMeansSent, AC_SUCCESS, AC_TX_FAILED
<1>2. QED
  BY <1>1, WriteInvariant, PTL
=============================================================================
