------------------------ MODULE PositionControlProofs ------------------------
(***************************************************************************)
(* Proofs about PositionControl: its types, the interlocks of the relays   *)
(* and the lock of the remote, for any range of the axes, any positions,   *)
(* any time, all faults and whatever the sensors say; and, of moves        *)
(* without a fault, where and when they end (CourseInv), which rests on    *)
(* what two registers say of an axis that moves while they are read.       *)
(***************************************************************************)
EXTENDS PositionControl, SequenceTheorems, TLAPS

-----------------------------------------------------------------------------
(* Writes and the sequences of them                                        *)

\* What a write is; the lemmas below need no more of Set and Clear.
LEMMA Writes ==
    /\ \A r \in Relays : Set(r) \in Levels /\ Clear(r) \in Levels
    /\ \A r, s : /\ Set(r) = Set(s) <=> r = s
                 /\ Clear(r) = Clear(s) <=> r = s
                 /\ Set(r) # Clear(s)
    /\ \A r : /\ Set(r).relay = r /\ Set(r).level = TRUE
              /\ Clear(r).relay = r /\ Clear(r).level = FALSE
    /\ \A x \in Levels : \E r \in Relays : x = Set(r) \/ x = Clear(r)
<1>1. \A r, s : /\ Set(r) = Set(s) <=> r = s
                /\ Clear(r) = Clear(s) <=> r = s
                /\ Set(r) # Clear(s)
  BY DEF Set, Clear
<1>2. \A r \in Relays : Set(r) \in Levels /\ Clear(r) \in Levels
  BY DEF Set, Clear, Levels
<1>3. \A x \in Levels : \E r \in Relays : x = Set(r) \/ x = Clear(r)
  BY DEF Set, Clear, Levels
<1>4. \A r : /\ Set(r).relay = r /\ Set(r).level = TRUE
              /\ Clear(r).relay = r /\ Clear(r).level = FALSE
  BY DEF Set, Clear
<1>5. QED
  BY <1>1, <1>2, <1>3, <1>4

\* The names are different.
LEMMA RelayNames ==
    /\ Relays = {"NICK_UP", "NICK_DOWN", "GIER_LEFT", "GIER_RIGHT", "LOCK_REMOTE"}
    /\ Motors = {"NICK_UP", "NICK_DOWN", "GIER_LEFT", "GIER_RIGHT"}
    /\ LOCK = "LOCK_REMOTE" /\ LOCK \notin Motors
    /\ Rising["nick"] = "NICK_DOWN" /\ Falling["nick"] = "NICK_UP"
    /\ Rising["gier"] = "GIER_RIGHT" /\ Falling["gier"] = "GIER_LEFT"
BY DEF Relays, Motors, RelaysOf, LOCK, Rising, Falling, Axes

LEMMA ShortSequences ==
    ASSUME NEW S, NEW a \in S, NEW b \in S, NEW c \in S, NEW d \in S, NEW e \in S
    PROVE  /\ <<a>> \in Seq(S) /\ <<a, b>> \in Seq(S) /\ <<a, b, c>> \in Seq(S)
           /\ <<a, b, c, d>> \in Seq(S) /\ <<a, b, c, d, e>> \in Seq(S)
OBVIOUS

\* Concatenation of sequences as short as those of this module.
LEMMA Joined ==
    \A a, b, c, d : /\ <<a>> \o <<b>> = <<a, b>>
                    /\ <<a, b>> \o <<c, d>> = <<a, b, c, d>>
<1> TAKE a, b, c, d
<1> DEFINE S == {a, b, c, d}
           s == <<a>>
           t == <<b>>
           u == <<a, b>>
           v == <<c, d>>
           w == <<a, b, c, d>>
<1>1. s \in Seq(S) /\ t \in Seq(S) /\ u \in Seq(S) /\ v \in Seq(S) /\ w \in Seq(S)
  OBVIOUS
<1>2. s \o t = u
  <2>1. s \o t \in Seq(S) /\ Len(s \o t) = 2 /\ (s \o t)[1] = a /\ (s \o t)[2] = b
    BY <1>1, ConcatProperties
  <2>2. \A i \in 1..Len(s \o t) : (s \o t)[i] = u[i]
    BY <2>1
  <2>3. QED
    BY <1>1, <2>1, <2>2, SeqEqual
<1>3. u \o v = w
  <2>1. /\ u \o v \in Seq(S) /\ Len(u \o v) = 4
        /\ (u \o v)[1] = a /\ (u \o v)[2] = b /\ (u \o v)[3] = c /\ (u \o v)[4] = d
    BY <1>1, ConcatProperties
  <2>2. \A i \in 1..Len(u \o v) : (u \o v)[i] = w[i]
    BY <2>1
  <2>3. QED
    BY <1>1, <2>1, <2>2, SeqEqual
<1>4. QED
  BY <1>2, <1>3

\* The relay that drives an axis where U says, and the other one.
Way(a, U)  == IF a \in U THEN Rising[a] ELSE Falling[a]
Back(a, U) == IF a \in U THEN Falling[a] ELSE Rising[a]

\* What PC_Move writes when it starts axes, and when it stops some that arrived.
LEMMA StartSequences ==
    ASSUME NEW A, NEW U
    PROVE  Starts(A, U) =
             IF "nick" \in A
             THEN IF "gier" \in A
                  THEN <<Clear(Back("nick", U)), Set(Way("nick", U)),
                         Set(Way("gier", U)), Clear(Back("gier", U))>>
                  ELSE <<Clear(Back("nick", U)), Set(Way("nick", U))>>
             ELSE IF "gier" \in A
                  THEN <<Set(Way("gier", U)), Clear(Back("gier", U))>>
                  ELSE <<>>
<1>1. NickStart("nick" \in U) = <<Clear(Back("nick", U)), Set(Way("nick", U))>>
  BY RelayNames DEF NickStart, Back, Way
<1>2. GierStart("gier" \in U) = <<Set(Way("gier", U)), Clear(Back("gier", U))>>
  BY RelayNames DEF GierStart, Back, Way
<1>3. \A a \in Axes : Way(a, U) \in Relays /\ Back(a, U) \in Relays
  BY RelayNames DEF Way, Back, Axes
<1>4. /\ Clear(Back("nick", U)) \in Levels /\ Set(Way("nick", U)) \in Levels
      /\ Clear(Back("gier", U)) \in Levels /\ Set(Way("gier", U)) \in Levels
  BY <1>3, Writes DEF Axes
<1>5. /\ NickStart("nick" \in U) \in Seq(Levels)
      /\ GierStart("gier" \in U) \in Seq(Levels)
  <2>1. /\ <<Clear(Back("nick", U)), Set(Way("nick", U))>> \in Seq(Levels)
        /\ <<Set(Way("gier", U)), Clear(Back("gier", U))>> \in Seq(Levels)
    BY <1>4, ShortSequences
  <2>2. QED
    BY <1>1, <1>2, <2>1
<1>6. /\ NickStart("nick" \in U) \o <<>> = NickStart("nick" \in U)
      /\ <<>> \o GierStart("gier" \in U) = GierStart("gier" \in U)
      /\ <<>> \o <<>> = <<>>
  BY <1>5, EmptySeq, ConcatEmptySeq
<1>7. NickStart("nick" \in U) \o GierStart("gier" \in U)
        = <<Clear(Back("nick", U)), Set(Way("nick", U)),
            Set(Way("gier", U)), Clear(Back("gier", U))>>
  <2>1. <<Clear(Back("nick", U)), Set(Way("nick", U))>>
          \o <<Set(Way("gier", U)), Clear(Back("gier", U))>>
        = <<Clear(Back("nick", U)), Set(Way("nick", U)),
            Set(Way("gier", U)), Clear(Back("gier", U))>>
    BY Joined, Zenon
  <2>2. QED
    BY <1>1, <1>2, <2>1
<1>8. QED
  BY <1>1, <1>2, <1>6, <1>7 DEF Starts

LEMMA StopSequences ==
    ASSUME NEW A
    PROVE  Stops(A) =
             IF "nick" \in A
             THEN IF "gier" \in A
                  THEN <<Clear(Way("nick", rising)), Clear(Way("gier", rising))>>
                  ELSE <<Clear(Way("nick", rising))>>
             ELSE IF "gier" \in A THEN <<Clear(Way("gier", rising))>> ELSE <<>>
<1>1. \A a \in Axes : Stop(a) = Clear(Way(a, rising)) /\ Stop(a) \in Levels
  BY RelayNames, Writes DEF Stop, Way, Axes
<1>2. /\ "nick" \in Axes /\ "gier" \in Axes
      /\ <<Stop("nick")>> \in Seq(Levels) /\ <<Stop("gier")>> \in Seq(Levels)
  BY <1>1 DEF Axes
<1>3. /\ <<Stop("nick")>> \o <<>> = <<Stop("nick")>>
      /\ <<>> \o <<Stop("gier")>> = <<Stop("gier")>>
      /\ <<>> \o <<>> = <<>>
  BY <1>2, EmptySeq, ConcatEmptySeq
<1>4. <<Stop("nick")>> \o <<Stop("gier")>> = <<Stop("nick"), Stop("gier")>>
  BY <1>1, <1>2, Joined
<1>5. QED
  BY <1>1, <1>2, <1>3, <1>4 DEF Stops

-----------------------------------------------------------------------------
(* Types                                                                   *)

\* A round is counted only if it began in time.
TypeInv == TypeOK /\ (phase = "wait" => rounds < MaxRounds)

LEMMA SequenceTypes ==
    /\ \A s \in Buttons \cup {Shutdown} : s \in Seq(Levels)
    /\ <<>> \in Seq(Levels) /\ <<Set(LOCK)>> \in Seq(Levels)
    /\ <<Clear(LOCK)>> \in Seq(Levels)
    /\ \A A, U : Starts(A, U) \in Seq(Levels)
    /\ \A A : Stops(A) \in Seq(Levels)
<1>1. \A s \in Buttons \cup {Shutdown} : s \in Seq(Levels)
  <2>1. \A r \in Relays : Set(r) \in Levels /\ Clear(r) \in Levels
    BY Writes
  <2>2. \A x, y, z, u, v \in Levels :
            <<x, y, z>> \in Seq(Levels) /\ <<x, y, z, u, v>> \in Seq(Levels)
    BY ShortSequences
  <2>3. Release \in Seq(Levels) /\ Shutdown \in Seq(Levels) /\ Undefined \in Seq(Levels)
    BY <2>1, <2>2, RelayNames DEF Release, Shutdown, Undefined
  <2>4. \A x, y \in Relays : Press(x, y) \in Seq(Levels)
    BY <2>1, <2>2, RelayNames DEF Press
  <2>5. QED
    BY <2>3, <2>4, RelayNames DEF Buttons
<1>2. /\ <<>> \in Seq(Levels) /\ <<Set(LOCK)>> \in Seq(Levels)
      /\ <<Clear(LOCK)>> \in Seq(Levels)
  BY Writes, RelayNames
<1>3. \A U : \A a \in Axes :
        /\ Set(Way(a, U)) \in Levels /\ Clear(Way(a, U)) \in Levels
        /\ Clear(Back(a, U)) \in Levels
  BY Writes, RelayNames DEF Way, Back, Axes
<1>4. ASSUME NEW A, NEW U PROVE Starts(A, U) \in Seq(Levels)
  <2>1. \A x, y, z, u \in Levels :
            <<x, y>> \in Seq(Levels) /\ <<x, y, z, u>> \in Seq(Levels)
    BY ShortSequences
  <2>2. "nick" \in Axes /\ "gier" \in Axes
    BY DEF Axes
  <2>3. /\ Set(Way("nick", U)) \in Levels /\ Clear(Back("nick", U)) \in Levels
        /\ Set(Way("gier", U)) \in Levels /\ Clear(Back("gier", U)) \in Levels
    BY <1>3, <2>2, Zenon
  <2>4. /\ <<Clear(Back("nick", U)), Set(Way("nick", U)),
             Set(Way("gier", U)), Clear(Back("gier", U))>> \in Seq(Levels)
        /\ <<Clear(Back("nick", U)), Set(Way("nick", U))>> \in Seq(Levels)
        /\ <<Set(Way("gier", U)), Clear(Back("gier", U))>> \in Seq(Levels)
    BY <2>1, <2>3, Zenon
  <2>5. QED
    BY <1>2, <2>4, StartSequences, Zenon
<1>5. ASSUME NEW A PROVE Stops(A) \in Seq(Levels)
  <2>1. \A x, y \in Levels : <<x>> \in Seq(Levels) /\ <<x, y>> \in Seq(Levels)
    BY ShortSequences
  <2>2. "nick" \in Axes /\ "gier" \in Axes
    BY DEF Axes
  <2>3. /\ <<Clear(Way("nick", rising)), Clear(Way("gier", rising))>> \in Seq(Levels)
        /\ <<Clear(Way("nick", rising))>> \in Seq(Levels)
        /\ <<Clear(Way("gier", rising))>> \in Seq(Levels)
    BY <1>3, <2>1, <2>2, Zenon
  <2>4. QED
    BY <1>2, <2>3, StopSequences, Zenon
<1>6. QED
  BY <1>1, <1>2, <1>4, <1>5

LEMMA InitType == Init => TypeInv
<1> SUFFICES ASSUME Init PROVE TypeInv
  OBVIOUS
<1>1. tests \in -1..MaxTests /\ rounds \in 0..MaxRounds
  BY BoundsAssumption DEF Init
<1>2. out \in Seq(Levels) /\ on \subseteq Relays
  BY SequenceTypes DEF Init
<1>3. QED
  BY <1>1, <1>2 DEF Init, TypeInv, TypeOK

LEMMA StepType == TypeInv /\ [Next]_vars => TypeInv'
<1> SUFFICES ASSUME TypeInv, [Next]_vars PROVE TypeInv'
  OBVIOUS
<1> USE BoundsAssumption, SequenceTypes DEF TypeInv, TypeOK
<1>1. CASE UNCHANGED vars
  BY <1>1 DEF vars, move
<1>2. CASE StartButton
  BY <1>2 DEF StartButton, move
<1>3. CASE StartMove
  BY <1>3 DEF StartMove, BeginMove, Stray
<1>4. CASE StartTest
  BY <1>4 DEF StartTest, Stray, move
<1>5. CASE Write
  <2>1. Tail(out) \in Seq(Levels) /\ Head(out) \in Levels
    BY <1>5, HeadTailProperties DEF Write
  <2>2. on' \subseteq Relays
    BY <1>5, <2>1 DEF Write, Levels
  <2>3. QED
    BY <1>5, <2>1, <2>2 DEF Write, move
<1>6. CASE Aim
  BY <1>6 DEF Aim, Move, Fault
<1>7. CASE Round
  <2>1. rounds < MaxRounds
    BY <1>7 DEF Round, Expired
  <2>2. early' \subseteq Axes /\ angle' \in [Axes -> Angles]
    BY <1>7 DEF Round, Turning, Move
  <2>3. /\ out' \in Seq(Levels) /\ moving' \subseteq started /\ fault' \in BOOLEAN
    BY <1>7 DEF Round, Fault
  <2>4. QED
    BY <1>7, <2>1, <2>2, <2>3 DEF Round
<1>8. CASE Wait
  BY <1>8 DEF Wait, Ready, Move, Fault
<1>9. CASE Finish
  BY <1>9 DEF Finish, Stray, move
<1>10. CASE TestMove
  BY <1>10 DEF TestMove, BeginMove, Stray
<1>11. CASE TestEnd
  BY <1>11 DEF TestEnd, move
<1>12. CASE Exit
  <2>1. tests' \in -1..MaxTests /\ rounds' \in 0..MaxRounds
    BY <1>12 DEF Exit, End
  <2>2. out' \in Seq(Levels)
    BY <1>12 DEF Exit, End
  <2>3. QED
    BY <1>12, <2>1, <2>2 DEF Exit, End
<1>13. CASE Kill
  <2>1. tests' \in -1..MaxTests /\ rounds' \in 0..MaxRounds
    BY <1>13 DEF Kill, End
  <2>2. out' \in Seq(Levels) /\ fault' \in BOOLEAN
    BY <1>13 DEF Kill, End, Fault
  <2>3. cut' \in BOOLEAN
    BY <1>13, Zenon DEF Kill, BothWays
  <2>4. QED
    BY <1>13, <2>1, <2>2, <2>3 DEF Kill, End
<1>14. CASE Coast
  BY <1>14 DEF Coast, Move, Fault, move
<1>15. QED
  BY <1>1, <1>2, <1>3, <1>4, <1>5, <1>6, <1>7, <1>8, <1>9, <1>10, <1>11, <1>12,
     <1>13, <1>14 DEF Next

\* The variables stay in their types for any range, positions and bounds: only
\* relays are written, and no round is counted beyond the sixty seconds.
THEOREM TypeCorrect == Spec => []TypeOK
<1>1. TypeInv => TypeOK
  BY DEF TypeInv
<1>2. QED
  BY <1>1, InitType, StepType, PTL DEF Spec

-----------------------------------------------------------------------------
(* The interlocks                                                          *)

Nicks == {"NICK_UP", "NICK_DOWN"}
Opposite ==
    [r \in Motors |-> CASE r = "NICK_UP" -> "NICK_DOWN" [] r = "NICK_DOWN" -> "NICK_UP"
                        [] r = "GIER_LEFT" -> "GIER_RIGHT" [] r = "GIER_RIGHT" -> "GIER_LEFT"]

In(x, s) == \E k \in 1..Len(s) : s[k] = x
ClearedBefore(x, k, s) == \E j \in 1..(k - 1) : s[j] = Clear(x)
ClearedNext(x, k, s) == k < Len(s) /\ s[k + 1] = Clear(x)

\* What the program is about to write when it begins: it never sets both relays
\* of an axis, and clears the opposite one before it sets one, or right after it
\* if the axis is gier.
Orderly(s) ==
    \A r \in Motors : \A k \in 1..Len(s) : s[k] = Set(r) =>
        /\ ~In(Set(Opposite[r]), s)
        /\ \/ ClearedBefore(Opposite[r], k, s)
           \/ r \notin Nicks /\ ClearedNext(Opposite[r], k, s)

\* The same of what is left to write, with what is on already.
LeftToWrite ==
    \A r \in Motors : \A k \in 1..Len(out) : out[k] = Set(r) =>
        /\ ~In(Set(Opposite[r]), out)
        /\ \/ Opposite[r] \notin on
           \/ ClearedBefore(Opposite[r], k, out)
           \/ r \notin Nicks /\ ClearedNext(Opposite[r], k, out)

InterlockInv ==
    /\ TypeInv
    /\ NickInterlock /\ GierInterlock /\ LeftToWrite
    /\ phase = "idle" => out = <<>>

LEMMA Opposites ==
    /\ \A r \in Motors : Opposite[r] \in Motors /\ Opposite[r] # r
    /\ Opposite["NICK_UP"] = "NICK_DOWN" /\ Opposite["NICK_DOWN"] = "NICK_UP"
    /\ Opposite["GIER_LEFT"] = "GIER_RIGHT" /\ Opposite["GIER_RIGHT"] = "GIER_LEFT"
    /\ \A U : \A a \in Axes :
          /\ Way(a, U) \in Motors /\ Back(a, U) \in Motors
          /\ Opposite[Way(a, U)] = Back(a, U) /\ Way(a, U) # Back(a, U)
    /\ \A U : Way("nick", U) \in Nicks /\ Way("gier", U) \notin Nicks
BY RelayNames DEF Opposite, Way, Back, Axes, Nicks

\* What an undefined button ID writes: the lock, then what a release does.
LEMMA UndefinedWrites ==
    /\ Len(Release) = 5 /\ Len(Undefined) = 6 /\ Undefined[1] = Set(LOCK)
    /\ \A k \in 1..5 : Undefined[k + 1] = Release[k]
    /\ Release[5] = Clear(LOCK)
    /\ \A k \in 1..4 : \E m \in Motors : Release[k] = Clear(m)
    /\ \A m \in Motors : \E k \in 1..4 : Release[k] = Clear(m)
    /\ \A k \in 2..6 : Undefined[k] = Release[k - 1]
<1>1. Release \in Seq(Levels) /\ <<Set(LOCK)>> \in Seq(Levels) /\ Len(Release) = 5
  BY SequenceTypes DEF Buttons, Release
<1> DEFINE s == <<Set(LOCK)>>
           t == Release
<1>2. s \in Seq(Levels) /\ t \in Seq(Levels) /\ Len(s) = 1 /\ Len(t) = 5 /\ s[1] = Set(LOCK)
  BY <1>1
<1> HIDE DEF s, t
<1>3. /\ Len(s \o t) = 6 /\ (s \o t)[1] = Set(LOCK)
      /\ \A k \in 2..6 : (s \o t)[k] = t[k - 1]
  <2>1. /\ Len(s \o t) = Len(s) + Len(t)
        /\ \A k \in 1..(Len(s) + Len(t)) :
              (s \o t)[k] = IF k <= Len(s) THEN s[k] ELSE t[k - Len(s)]
    BY <1>2, ConcatProperties
  <2>2. QED
    BY <1>2, <2>1
<1>4. \A k \in 1..5 : k + 1 \in 2..6 /\ (k + 1) - 1 = k
  OBVIOUS
<1>5. /\ Release[5] = Clear(LOCK)
      /\ \A k \in 1..4 : \E m \in Motors : Release[k] = Clear(m)
      /\ \A m \in Motors : \E k \in 1..4 : Release[k] = Clear(m)
  BY RelayNames DEF Release
<1>6. QED
  BY <1>1, <1>3, <1>4, <1>5 DEF Undefined, s, t

LEMMA OrderlySequences ==
    /\ \A s \in Buttons \cup {Shutdown} : Orderly(s)
    /\ Orderly(<<>>) /\ Orderly(<<Set(LOCK)>>) /\ Orderly(<<Clear(LOCK)>>)
    /\ \A A, U : Orderly(Starts(A, U))
    /\ \A A : Orderly(Stops(A))
<1>1. \A r, s : /\ Set(r) = Set(s) <=> r = s
                /\ Set(r) # Clear(s)
  BY Writes
<1>2. Orderly(<<>>) /\ Orderly(<<Set(LOCK)>>) /\ Orderly(<<Clear(LOCK)>>)
  BY <1>1, RelayNames DEF Orderly
<1>3. ASSUME NEW up \in Motors PROVE Orderly(Press(up, Opposite[up]))
  BY <1>1, <1>3, RelayNames, Opposites DEF Press, Orderly, In, ClearedBefore
<1>4. Orderly(Release) /\ Orderly(Shutdown) /\ Orderly(Undefined)
  <2>1. Orderly(Undefined)
    BY <1>1, RelayNames, UndefinedWrites DEF Orderly
  <2>2. QED
    BY <1>1, <2>1 DEF Release, Shutdown, Orderly
<1>5. \A s \in Buttons \cup {Shutdown} : Orderly(s)
  <2>1. Buttons = {Press(up, Opposite[up]) : up \in Motors} \cup {Release, Undefined}
    BY RelayNames, Opposites DEF Buttons
  <2>2. QED
    BY <1>3, <1>4, <2>1
<1>6. ASSUME NEW A, NEW U PROVE Orderly(Starts(A, U))
  <2> DEFINE n == Way("nick", U)
             g == Way("gier", U)
             nb == Back("nick", U)
             gb == Back("gier", U)
  <2>1. /\ n \in Nicks /\ nb \in Motors /\ Opposite[n] = nb /\ n # nb
        /\ g \notin Nicks /\ gb \in Motors /\ Opposite[g] = gb /\ g # gb
        /\ n \in Motors /\ g \in Motors /\ g # n /\ gb # n /\ nb # g
    BY Opposites, RelayNames DEF Axes, Nicks, Way, Back
  <2> HIDE DEF n, g, nb, gb
  <2>2. /\ Orderly(<<Clear(nb), Set(n), Set(g), Clear(gb)>>)
        /\ Orderly(<<Clear(nb), Set(n)>>)
        /\ Orderly(<<Set(g), Clear(gb)>>)
    BY <1>1, <2>1 DEF Orderly, In, ClearedBefore, ClearedNext
  <2>3. QED
    BY <1>2, <2>2, StartSequences, Zenon DEF n, g, nb, gb
<1>7. ASSUME NEW A PROVE Orderly(Stops(A))
  <2>1. \A x, y : Orderly(<<Clear(x), Clear(y)>>) /\ Orderly(<<Clear(x)>>)
    BY <1>1 DEF Orderly
  <2>2. QED
    BY <1>2, <2>1, StopSequences, Zenon
<1>8. QED
  BY <1>2, <1>5, <1>6, <1>7

LEMMA InitInterlock == Init => InterlockInv
BY InitType DEF Init, InterlockInv, NickInterlock, GierInterlock, BothWays, LeftToWrite

\* A step that is no write leaves the relays, and begins a new sequence only
\* where the last one is finished or was cut off by a kill.
LEMMA OtherSteps ==
    ASSUME TypeInv, phase = "idle" => out = <<>>, [Next]_vars, ~Write
    PROVE  /\ on' = on
           /\ \/ out' = out /\ cut' = cut
              \/ out = <<>> /\ Orderly(out') /\ cut' = cut
              \/ out' = <<>> /\ cut' = BothWays
           /\ phase' = "idle" => out' = <<>>
<1> USE OrderlySequences DEF Ready, TypeInv, TypeOK
<1>1. CASE UNCHANGED vars
  BY <1>1 DEF vars
<1>2. CASE StartButton
  BY <1>2 DEF StartButton
<1>3. CASE StartMove
  BY <1>3 DEF StartMove, BeginMove
<1>4. CASE StartTest
  BY <1>4 DEF StartTest
<1>5. CASE Aim
  BY <1>5 DEF Aim
<1>6. CASE Round
  BY <1>6 DEF Round
<1>7. CASE Wait
  BY <1>7 DEF Wait
<1>8. CASE Finish
  BY <1>8 DEF Finish
<1>9. CASE TestMove
  BY <1>9 DEF TestMove, BeginMove
<1>10. CASE TestEnd
  BY <1>10 DEF TestEnd
<1>11. CASE Exit
  BY <1>11 DEF Exit, End
<1>12. CASE Kill
  BY <1>12 DEF Kill, End
<1>13. CASE Coast
  BY <1>13 DEF Coast
<1>14. QED
  BY <1>1, <1>2, <1>3, <1>4, <1>5, <1>6, <1>7, <1>8, <1>9, <1>10, <1>11, <1>12,
     <1>13 DEF Next

\* A write sets or clears one relay, the first of those left.
LEMMA WriteStep ==
    ASSUME TypeInv, Write
    PROVE  /\ Len(out) \in Nat \ {0} /\ Len(out') = Len(out) - 1
           /\ \A k \in 1..Len(out') : out'[k] = out[k + 1]
           /\ phase' = phase /\ cut' = (cut /\ BothWays')
           /\ \E r \in Relays : \/ out[1] = Set(r) /\ on' = on \cup {r}
                                \/ out[1] = Clear(r) /\ on' = on \ {r}
<1>1. out \in Seq(Levels) /\ out # <<>>
  BY DEF Write, TypeInv, TypeOK
<1>2. /\ Len(out) \in Nat \ {0} /\ Len(Tail(out)) = Len(out) - 1
      /\ \A k \in 1..Len(Tail(out)) : Tail(out)[k] = out[k + 1]
      /\ Head(out) = out[1] /\ out[1] \in Levels
  BY <1>1, HeadTailProperties, EmptySeq, LenProperties, ElementOfSeq
<1>3. \E r \in Relays : \/ out[1] = Set(r) /\ on' = on \cup {r}
                        \/ out[1] = Clear(r) /\ on' = on \ {r}
  <2>1. PICK r \in Relays : out[1] = Set(r) \/ out[1] = Clear(r)
    BY <1>2, Writes
  <2>2. on' = IF out[1].level THEN on \cup {out[1].relay} ELSE on \ {out[1].relay}
    BY <1>2 DEF Write
  <2>3. QED
    BY <2>1, <2>2, Writes
<1>4. QED
  BY <1>2, <1>3 DEF Write

LEMMA WriteInterlock == InterlockInv /\ Write => InterlockInv'
<1> SUFFICES ASSUME InterlockInv, Write PROVE InterlockInv'
  OBVIOUS
<1>1. TypeInv'
  BY StepType DEF InterlockInv, Next
<1>2. PICK r \in Relays : \/ out[1] = Set(r) /\ on' = on \cup {r}
                          \/ out[1] = Clear(r) /\ on' = on \ {r}
  BY WriteStep DEF InterlockInv
<1>3. /\ Len(out) \in Nat \ {0} /\ Len(out') = Len(out) - 1
      /\ \A k \in 1..Len(out') : out'[k] = out[k + 1]
      /\ phase' = phase /\ cut' = (cut /\ BothWays')
  BY WriteStep DEF InterlockInv
<1>4. \A x, y : /\ Set(x) = Set(y) <=> x = y
                /\ Clear(x) = Clear(y) <=> x = y
                /\ Set(x) # Clear(y)
  BY Writes
<1>5. LeftToWrite'
  <2> SUFFICES ASSUME NEW m \in Motors, NEW k \in 1..Len(out'), out'[k] = Set(m)
               PROVE  /\ ~In(Set(Opposite[m]), out')
                      /\ \/ Opposite[m] \notin on'
                         \/ ClearedBefore(Opposite[m], k, out')
                         \/ m \notin Nicks /\ ClearedNext(Opposite[m], k, out')
    BY DEF LeftToWrite
  <2>1. k + 1 \in 1..Len(out) /\ out[k + 1] = Set(m)
    BY <1>3
  <2>2. /\ ~In(Set(Opposite[m]), out)
        /\ \/ Opposite[m] \notin on
           \/ ClearedBefore(Opposite[m], k + 1, out)
           \/ m \notin Nicks /\ ClearedNext(Opposite[m], k + 1, out)
    BY <2>1 DEF InterlockInv, LeftToWrite
  <2>3. ~In(Set(Opposite[m]), out')
    BY <1>3, <2>2 DEF In
  <2>4. out[1] # Set(Opposite[m])
    BY <1>3, <2>2 DEF In
  <2>5. CASE Opposite[m] \notin on
    BY <1>2, <2>3, <2>4, <2>5
  <2>6. CASE ClearedBefore(Opposite[m], k + 1, out)
    <3>1. PICK j \in 1..k : out[j] = Clear(Opposite[m])
      BY <2>6 DEF ClearedBefore
    <3>2. CASE j = 1
      <4>1. out[1] = Clear(Opposite[m])
        BY <3>1, <3>2
      <4>2. r = Opposite[m] /\ on' = on \ {r}
        BY <1>2, <1>4, <4>1
      <4>3. QED
        BY <2>3, <4>2
    <3>3. CASE j # 1
      <4>1. j - 1 \in 1..(k - 1) /\ j - 1 \in 1..Len(out') /\ (j - 1) + 1 = j
        BY <1>3, <3>1, <3>3
      <4>2. out'[j - 1] = Clear(Opposite[m])
        BY <1>3, <3>1, <4>1
      <4>3. QED
        BY <2>3, <4>1, <4>2 DEF ClearedBefore
    <3>4. QED
      BY <3>2, <3>3
  <2>7. CASE m \notin Nicks /\ ClearedNext(Opposite[m], k + 1, out)
    BY <1>3, <2>3, <2>7 DEF ClearedNext
  <2>8. QED
    BY <2>2, <2>5, <2>6, <2>7
\* What is on together after the write.
<1>6. ASSUME NEW m \in Motors, m \in on', Opposite[m] \in on',
             ~(m \in on /\ Opposite[m] \in on)
      PROVE  /\ m \notin Nicks
             /\ \/ ClearedNext(Opposite[m], 1, out) /\ out[1] = Set(m)
                \/ ClearedNext(m, 1, out) /\ out[1] = Set(Opposite[m])
  <2>1. r = m \/ r = Opposite[m]
    BY <1>2, <1>6
  <2>2. out[1] = Set(r) /\ on' = on \cup {r}
    BY <1>2, <1>6
  <2>3. r \in Motors /\ Opposite[r] \in on /\ (r = m \/ m = Opposite[r])
    BY <1>6, <2>1, <2>2, RelayNames, Opposites
  <2>4. r \notin Nicks /\ ClearedNext(Opposite[r], 1, out)
    <3>1. ~ClearedBefore(Opposite[r], 1, out)
      BY DEF ClearedBefore
    <3>2. QED
      BY <1>3, <2>2, <2>3, <3>1 DEF InterlockInv, LeftToWrite
  <2>5. r \notin Nicks => m \notin Nicks
    BY <2>1, RelayNames, Opposites DEF Nicks
  <2>6. QED
    BY <2>1, <2>2, <2>4, <2>5, RelayNames, Opposites
<1>7. NickInterlock'
  BY <1>6, RelayNames, Opposites DEF InterlockInv, NickInterlock, Nicks
<1>8. GierInterlock'
  <2> SUFFICES ASSUME {"GIER_LEFT", "GIER_RIGHT"} \subseteq on', ~cut'
               PROVE  out' # <<>> /\ Head(out') \in {Clear("GIER_LEFT"), Clear("GIER_RIGHT")}
    BY Zenon DEF GierInterlock, BothWays
  <2>0. ~cut
    BY <1>3, Zenon DEF BothWays
  <2>1. ~("GIER_LEFT" \in on /\ "GIER_RIGHT" \in on)
    <3> SUFFICES ASSUME "GIER_LEFT" \in on, "GIER_RIGHT" \in on PROVE FALSE
      OBVIOUS
    <3>1. Head(out) = out[1]
      BY <1>3 DEF InterlockInv, TypeInv, TypeOK
    <3>2. out[1] \in {Clear("GIER_LEFT"), Clear("GIER_RIGHT")}
      BY <1>3, <2>0, <3>1, Zenon DEF InterlockInv, GierInterlock, BothWays
    <3>3. QED
      BY <1>2, <1>4, <3>2
  <2>2. \/ ClearedNext("GIER_RIGHT", 1, out) \/ ClearedNext("GIER_LEFT", 1, out)
    BY <1>6, <2>1, RelayNames, Opposites
  <2>3. Len(out') >= 1 /\ out'[1] \in {Clear("GIER_LEFT"), Clear("GIER_RIGHT")}
    BY <1>3, <2>2 DEF ClearedNext
  <2>4. out' # <<>> /\ Head(out') = out'[1]
    BY <1>1, <2>3 DEF TypeInv, TypeOK
  <2>5. QED
    BY <2>3, <2>4
<1>9. phase' = "idle" => out' = <<>>
  BY <1>3 DEF InterlockInv, Write
<1>10. QED
  BY <1>1, <1>5, <1>7, <1>8, <1>9 DEF InterlockInv

LEMMA StepInterlock == InterlockInv /\ [Next]_vars => InterlockInv'
<1> SUFFICES ASSUME InterlockInv, [Next]_vars, ~Write PROVE InterlockInv'
  BY WriteInterlock
<1>1. /\ on' = on
      /\ \/ out' = out /\ cut' = cut
         \/ out = <<>> /\ Orderly(out') /\ cut' = cut
         \/ out' = <<>> /\ cut' = BothWays
      /\ phase' = "idle" => out' = <<>>
  BY OtherSteps DEF InterlockInv
<1>2. TypeInv'
  BY StepType DEF InterlockInv
<1>3. NickInterlock'
  BY <1>1 DEF InterlockInv, NickInterlock
<1>4. GierInterlock'
  <2>1. BothWays' = BothWays
    BY <1>1 DEF BothWays
  <2>2. CASE out' = out /\ cut' = cut
    BY <2>1, <2>2, Zenon DEF InterlockInv, GierInterlock
  <2>3. CASE out = <<>> /\ cut' = cut
    BY <2>1, <2>3, Zenon DEF InterlockInv, GierInterlock
  <2>4. CASE cut' = BothWays
    BY <2>1, <2>4, Zenon DEF GierInterlock
  <2>5. QED
    BY <1>1, <2>2, <2>3, <2>4
<1>5. LeftToWrite'
  <2>1. CASE out' = <<>>
    BY <2>1 DEF LeftToWrite
  <2>2. QED
    BY <1>1, <2>1, Zenon DEF InterlockInv, LeftToWrite, Orderly
<1>6. QED
  BY <1>1, <1>2, <1>3, <1>4, <1>5 DEF InterlockInv

\* For any range, positions and times and with every fault: the two relays of the
\* nick axis are never on together.
THEOREM NickNeverBothWays == Spec => []NickInterlock
<1>1. InterlockInv => NickInterlock
  BY DEF InterlockInv
<1>2. QED
  BY <1>1, InitInterlock, StepInterlock, PTL DEF Spec

\* Those of the gier axis are on together only until the next write, or, where a
\* kill has come before that, until a later process switches one of them off.
THEOREM GierBothWaysOnce == Spec => []GierInterlock
<1>1. InterlockInv => GierInterlock
  BY DEF InterlockInv
<1>2. QED
  BY <1>1, InitInterlock, StepInterlock, PTL DEF Spec

-----------------------------------------------------------------------------
(* The lock of the remote                                                  *)

SetsMotor(s) == \E m \in Motors : In(Set(m), s)
Unlocks(s)   == In(Clear(LOCK), s)
StopsAll(M, s) == \A m \in M : In(Clear(m), s)
Directions(A) == {Way(a, rising) : a \in A}

\* No motor is started in a sequence that unlocks the remote, and none before it
\* is locked.
LocksFirst ==
    SetsMotor(out) => ~Unlocks(out) /\ (LOCK \in on \/ out[1] = Set(LOCK))

\* It is unlocked last, after what is on has been stopped, strays apart.
UnlocksLast ==
    Unlocks(out) =>
        /\ \A k \in 1..Len(out) : out[k] = Clear(LOCK) => k = Len(out)
        /\ stray \/ StopsAll(on \cap Motors, out)

\* A move drives only what has not arrived, strays apart.
MoveDrives ==
    phase \in {"loop", "wait"} =>
        /\ LOCK \in on /\ ~Unlocks(out)
        /\ \A m \in Motors : In(Set(m), out) => m \in Directions(moving)
        /\ stray \/ StopsAll((on \cap Motors) \ Directions(moving), out)

\* Before a move and between those of the test all motors stand still, strays
\* apart.
NothingDriven ==
    phase \in {"aim", "test"} =>
        /\ ~SetsMotor(out)
        /\ stray \/ on \cap Motors = {}

AimLocks ==
    phase = "aim" => (out = <<>> /\ LOCK \in on) \/ out = <<Set(LOCK)>>

RemoteInv ==
    /\ TypeInv
    /\ LockedWhileMoving /\ LocksFirst /\ UnlocksLast
    /\ MoveDrives /\ NothingDriven /\ AimLocks

LEMMA OneWrite ==
    /\ \A x : ~In(x, <<>>)
    /\ \A x, y : In(x, <<y>>) <=> x = y
    /\ ~SetsMotor(<<>>) /\ ~SetsMotor(<<Set(LOCK)>>) /\ ~SetsMotor(<<Clear(LOCK)>>)
    /\ ~Unlocks(<<>>) /\ ~Unlocks(<<Set(LOCK)>>) /\ Unlocks(<<Clear(LOCK)>>)
<1>1. \A x : ~In(x, <<>>)
  BY DEF In
<1>2. \A x, y : In(x, <<y>>) <=> x = y
  BY DEF In
<1>3. \A m \in Motors : Set(m) # Set(LOCK) /\ Set(m) # Clear(LOCK)
  BY Writes, RelayNames
<1>4. QED
  BY <1>1, <1>2, <1>3, Writes DEF SetsMotor, Unlocks

LEMMA StartsDrive ==
    ASSUME NEW A \in SUBSET Axes, NEW U
    PROVE  /\ ~Unlocks(Starts(A, U))
           /\ \A m \in Motors : In(Set(m), Starts(A, U)) => m \in {Way(a, U) : a \in A}
<1> DEFINE n == Way("nick", U)
           g == Way("gier", U)
           nb == Back("nick", U)
           gb == Back("gier", U)
<1>1. n \in Motors /\ g \in Motors /\ nb \in Motors /\ gb \in Motors
  BY Opposites DEF Axes
<1>2. \A r, s : /\ Set(r) = Set(s) <=> r = s
                /\ Clear(r) = Clear(s) <=> r = s
                /\ Set(r) # Clear(s)
  BY Writes
<1> HIDE DEF n, g, nb, gb
<1>3. \A x : /\ In(x, <<Clear(nb), Set(n), Set(g), Clear(gb)>>)
                    <=> x \in {Clear(nb), Set(n), Set(g), Clear(gb)}
             /\ In(x, <<Clear(nb), Set(n)>>) <=> x \in {Clear(nb), Set(n)}
             /\ In(x, <<Set(g), Clear(gb)>>) <=> x \in {Set(g), Clear(gb)}
             /\ ~In(x, <<>>)
  BY DEF In
<1>4. \A x : In(x, Starts(A, U)) =>
               \/ x = Clear(nb) \/ x = Clear(gb)
               \/ "nick" \in A /\ x = Set(n)
               \/ "gier" \in A /\ x = Set(g)
  <2>1. /\ "nick" \in A /\ "gier" \in A =>
              Starts(A, U) = <<Clear(nb), Set(n), Set(g), Clear(gb)>>
        /\ "nick" \in A /\ "gier" \notin A => Starts(A, U) = <<Clear(nb), Set(n)>>
        /\ "nick" \notin A /\ "gier" \in A => Starts(A, U) = <<Set(g), Clear(gb)>>
        /\ "nick" \notin A /\ "gier" \notin A => Starts(A, U) = <<>>
    BY StartSequences, Zenon DEF n, g, nb, gb
  <2>2. QED
    BY <1>3, <2>1
<1>5. Clear(LOCK) \notin {Clear(nb), Clear(gb), Set(n), Set(g)}
  BY <1>1, <1>2, RelayNames
<1>6. ~Unlocks(Starts(A, U))
  BY <1>4, <1>5 DEF Unlocks
<1>7. ASSUME NEW m \in Motors, In(Set(m), Starts(A, U))
      PROVE  m \in {Way(a, U) : a \in A}
  <2>1. ("nick" \in A /\ m = n) \/ ("gier" \in A /\ m = g)
    BY <1>2, <1>4, <1>7
  <2>2. QED
    BY <2>1 DEF n, g
<1>8. QED
  BY <1>6, <1>7

LEMMA StopsStop ==
    ASSUME NEW A \in SUBSET Axes
    PROVE  /\ ~SetsMotor(Stops(A)) /\ ~Unlocks(Stops(A))
           /\ StopsAll(Directions(A), Stops(A))
<1> DEFINE n == Way("nick", rising)
           g == Way("gier", rising)
<1>1. n \in Motors /\ g \in Motors
  BY Opposites DEF Axes
<1>2. \A r, s : /\ Clear(r) = Clear(s) <=> r = s
                /\ Set(r) # Clear(s)
  BY Writes
<1> HIDE DEF n, g
<1>3. \A x : /\ In(x, <<Clear(n), Clear(g)>>) <=> x \in {Clear(n), Clear(g)}
             /\ In(x, <<Clear(n)>>) <=> x = Clear(n)
             /\ In(x, <<Clear(g)>>) <=> x = Clear(g)
             /\ ~In(x, <<>>)
  BY DEF In
<1>4. \A x : In(x, Stops(A)) <=>
               \/ "nick" \in A /\ x = Clear(n)
               \/ "gier" \in A /\ x = Clear(g)
  <2>1. /\ "nick" \in A /\ "gier" \in A => Stops(A) = <<Clear(n), Clear(g)>>
        /\ "nick" \in A /\ "gier" \notin A => Stops(A) = <<Clear(n)>>
        /\ "nick" \notin A /\ "gier" \in A => Stops(A) = <<Clear(g)>>
        /\ "nick" \notin A /\ "gier" \notin A => Stops(A) = <<>>
    BY StopSequences, Zenon DEF n, g
  <2>2. QED
    BY <1>3, <2>1
<1>5. ~SetsMotor(Stops(A))
  BY <1>2, <1>4 DEF SetsMotor
<1>6. ~Unlocks(Stops(A))
  BY <1>1, <1>2, <1>4, RelayNames DEF Unlocks
<1>7. StopsAll(Directions(A), Stops(A))
  <2> SUFFICES ASSUME NEW a \in A PROVE In(Clear(Way(a, rising)), Stops(A))
    BY DEF StopsAll, Directions
  <2>1. a = "nick" \/ a = "gier"
    BY DEF Axes
  <2>2. QED
    BY <1>4, <2>1 DEF n, g
<1>8. QED
  BY <1>5, <1>6, <1>7

\* A button or the shutdown either locks first and starts one motor, or stops all
\* and unlocks last.
LEMMA ButtonsLock ==
    ASSUME NEW s \in Buttons \cup {Shutdown}
    PROVE  \/ s[1] = Set(LOCK) /\ ~Unlocks(s)
           \/ /\ ~SetsMotor(s) /\ StopsAll(Motors, s)
              /\ \A k \in 1..Len(s) : s[k] = Clear(LOCK) => k = Len(s)
<1>1. \A x, y : /\ Set(x) = Set(y) <=> x = y
                /\ Clear(x) = Clear(y) <=> x = y
                /\ Set(x) # Clear(y)
  BY Writes
<1>2. ASSUME NEW up \in Motors, NEW down \in Motors
      PROVE  Press(up, down)[1] = Set(LOCK) /\ ~Unlocks(Press(up, down))
  BY <1>1, RelayNames DEF Press, Unlocks, In
<1>3. \A s2 \in {Release, Shutdown} :
         /\ Len(s2) = 5 /\ s2[5] = Clear(LOCK)
         /\ \A k \in 1..4 : \E m \in Motors : s2[k] = Clear(m)
         /\ \A m \in Motors : \E k \in 1..4 : s2[k] = Clear(m)
  BY UndefinedWrites, RelayNames DEF Release, Shutdown
<1>4. ASSUME NEW s2 \in {Release, Shutdown}
      PROVE  /\ ~SetsMotor(s2) /\ StopsAll(Motors, s2)
             /\ \A k \in 1..Len(s2) : s2[k] = Clear(LOCK) => k = Len(s2)
  <2>1. \A k \in 1..5 : k = 5 \/ k \in 1..4
    OBVIOUS
  <2>2. ~SetsMotor(s2)
    BY <1>1, <1>3, <2>1 DEF SetsMotor, In
  <2>3. StopsAll(Motors, s2)
    BY <1>3 DEF StopsAll, In
  <2>4. \A k \in 1..Len(s2) : s2[k] = Clear(LOCK) => k = Len(s2)
    <3>1. \A k \in 1..4 : s2[k] # Clear(LOCK)
      BY <1>1, <1>3, RelayNames
    <3>2. Len(s2) = 5
      BY <1>3
    <3>3. QED
      BY <2>1, <3>1, <3>2
  <2>5. QED
    BY <2>2, <2>3, <2>4
<1>5. /\ ~SetsMotor(Undefined) /\ StopsAll(Motors, Undefined)
      /\ \A k \in 1..Len(Undefined) : Undefined[k] = Clear(LOCK) => k = Len(Undefined)
  <2>1. \A k \in 1..6 : k = 1 \/ k \in 2..6
    OBVIOUS
  <2>2. \A k \in 2..6 : k - 1 \in 1..5 /\ (k - 1 = 5 \/ k - 1 \in 1..4)
    OBVIOUS
  <2>3. LOCK \notin Motors
    BY RelayNames
  <2>4. ~SetsMotor(Undefined)
    BY <1>1, <2>1, <2>2, <2>3, UndefinedWrites DEF SetsMotor, In
  <2>5. \A k \in 1..4 : k + 1 \in 1..6 /\ k \in 1..5
    OBVIOUS
  <2>6. StopsAll(Motors, Undefined)
    BY <2>5, UndefinedWrites DEF StopsAll, In
  <2>7. \A k \in 1..4 : Release[k] # Clear(LOCK)
    BY <1>1, <2>3, UndefinedWrites
  <2>8. \A k \in 1..6 : Undefined[k] = Clear(LOCK) => k = 6
    BY <1>1, <2>1, <2>2, <2>7, UndefinedWrites
  <2>9. QED
    BY <2>4, <2>6, <2>8, UndefinedWrites
<1>6. QED
  BY <1>2, <1>4, <1>5, RelayNames DEF Buttons

LEMMA InitRemote == Init => RemoteInv
<1> SUFFICES ASSUME Init PROVE RemoteInv
  OBVIOUS
<1>1. out = <<>> /\ on = {} /\ phase = "idle"
  BY DEF Init
<1>2. QED
  BY <1>1, InitType, OneWrite DEF RemoteInv, LockedWhileMoving, LocksFirst, UnlocksLast,
     MoveDrives, NothingDriven, AimLocks

LEMMA WriteRemote == RemoteInv /\ Write => RemoteInv'
<1> SUFFICES ASSUME RemoteInv, Write PROVE RemoteInv'
  OBVIOUS
<1>1. TypeInv'
  BY StepType DEF RemoteInv, Next
<1>2. PICK r \in Relays : \/ out[1] = Set(r) /\ on' = on \cup {r}
                          \/ out[1] = Clear(r) /\ on' = on \ {r}
  BY WriteStep DEF RemoteInv
<1>3. /\ Len(out) \in Nat \ {0} /\ Len(out') = Len(out) - 1
      /\ \A k \in 1..Len(out') : out'[k] = out[k + 1]
      /\ phase' = phase
  BY WriteStep DEF RemoteInv
<1>4. \A x, y : /\ Set(x) = Set(y) <=> x = y
                /\ Clear(x) = Clear(y) <=> x = y
                /\ Set(x) # Clear(y)
  BY Writes
<1>5. /\ stray' <=> stray /\ on' \cap Motors # {}
      /\ moving' = moving /\ rising' = rising
  BY DEF Write, move, RemoteInv, TypeInv, TypeOK
\* The sequence is its first write and the rest.
<1>6. \A x : In(x, out) <=> x = out[1] \/ In(x, out')
  <2>1. ASSUME NEW x, In(x, out) PROVE x = out[1] \/ In(x, out')
    <3>1. PICK k \in 1..Len(out) : out[k] = x
      BY <2>1 DEF In
    <3>2. CASE k = 1
      BY <3>1, <3>2
    <3>3. CASE k # 1
      <4>1. k - 1 \in 1..Len(out') /\ (k - 1) + 1 = k
        BY <1>3, <3>1, <3>3
      <4>2. out'[k - 1] = x
        BY <1>3, <3>1, <4>1
      <4>3. QED
        BY <4>1, <4>2 DEF In
    <3>4. QED
      BY <3>2, <3>3
  <2>2. ASSUME NEW x, x = out[1] \/ In(x, out') PROVE In(x, out)
    <3>1. CASE x = out[1]
      BY <1>3, <3>1 DEF In
    <3>2. CASE In(x, out')
      <4>1. PICK k \in 1..Len(out') : out'[k] = x
        BY <3>2 DEF In
      <4>2. k + 1 \in 1..Len(out) /\ out[k + 1] = x
        BY <1>3, <4>1
      <4>3. QED
        BY <4>2 DEF In
    <3>3. QED
      BY <2>2, <3>1, <3>2
  <2>3. QED
    BY <2>1, <2>2
<1>7. /\ SetsMotor(out') => SetsMotor(out)
      /\ Unlocks(out') => Unlocks(out)
  BY <1>6 DEF SetsMotor, Unlocks
\* A relay that is on and to be stopped is still to be stopped, unless it was now.
<1>8. ASSUME NEW m \in Motors, m \in on, m \in on', In(Clear(m), out)
      PROVE  In(Clear(m), out')
  BY <1>2, <1>4, <1>6, <1>8
<1>9. ASSUME NEW m \in Motors, m \in on', m \notin on
      PROVE  In(Set(m), out) /\ out[1] = Set(m)
  BY <1>2, <1>3, <1>6, <1>9
<1>10. LocksFirst'
  <2> SUFFICES ASSUME SetsMotor(out')
               PROVE  ~Unlocks(out') /\ LOCK \in on'
    BY DEF LocksFirst
  <2>1. ~Unlocks(out) /\ (LOCK \in on \/ out[1] = Set(LOCK))
    BY <1>7 DEF RemoteInv, LocksFirst
  <2>2. out[1] # Clear(LOCK)
    BY <1>6, <2>1 DEF Unlocks
  <2>3. LOCK \in on'
    BY <1>2, <1>4, <2>1, <2>2
  <2>4. QED
    BY <1>7, <2>1, <2>3
<1>11. UnlocksLast'
  <2> SUFFICES ASSUME Unlocks(out')
               PROVE  /\ \A k \in 1..Len(out') : out'[k] = Clear(LOCK) => k = Len(out')
                      /\ stray' \/ StopsAll(on' \cap Motors, out')
    BY DEF UnlocksLast
  <2>1. /\ \A k \in 1..Len(out) : out[k] = Clear(LOCK) => k = Len(out)
        /\ stray \/ StopsAll(on \cap Motors, out)
        /\ ~SetsMotor(out)
    BY <1>7 DEF RemoteInv, UnlocksLast, LocksFirst
  <2>2. \A k \in 1..Len(out') : out'[k] = Clear(LOCK) => k = Len(out')
    <3> SUFFICES ASSUME NEW k \in 1..Len(out'), out'[k] = Clear(LOCK) PROVE k = Len(out')
      OBVIOUS
    <3>1. k + 1 \in 1..Len(out) /\ out[k + 1] = Clear(LOCK)
      BY <1>3
    <3>2. QED
      BY <1>3, <2>1, <3>1
  <2>3. stray' \/ StopsAll(on' \cap Motors, out')
    BY <1>5, <1>8, <1>9, <2>1 DEF StopsAll, SetsMotor
  <2>4. QED
    BY <2>2, <2>3
<1>12. LockedWhileMoving'
  <2> SUFFICES ASSUME NEW m \in Motors, m \in on', ~stray' PROVE LOCK \in on'
    BY DEF LockedWhileMoving
  <2>1. ~stray
    BY <1>5
  <2>2. CASE m \notin on
    <3>1. SetsMotor(out) /\ out[1] = Set(m)
      BY <1>9, <2>2 DEF SetsMotor
    <3>2. LOCK \in on
      BY <1>4, <3>1, RelayNames DEF RemoteInv, LocksFirst
    <3>3. QED
      BY <1>2, <1>4, <3>1, <3>2
  <2>3. CASE m \in on
    <3>1. LOCK \in on
      BY <2>1, <2>3 DEF RemoteInv, LockedWhileMoving
    <3>2. out[1] # Clear(LOCK)
      <4> SUFFICES ASSUME out[1] = Clear(LOCK) PROVE FALSE
        OBVIOUS
      <4>1. Unlocks(out) /\ Len(out) = 1
        BY <1>3, <1>6 DEF Unlocks, RemoteInv, UnlocksLast
      <4>2. In(Clear(m), out)
        BY <2>1, <2>3, <4>1 DEF RemoteInv, UnlocksLast, StopsAll
      <4>3. \A k \in 1..Len(out) : k = 1
        BY <4>1
      <4>4. QED
        BY <1>4, <4>2, <4>3, RelayNames DEF In
    <3>3. QED
      BY <1>2, <1>4, <3>1, <3>2
  <2>4. QED
    BY <2>2, <2>3
<1>13. MoveDrives'
  <2> SUFFICES ASSUME phase \in {"loop", "wait"}
               PROVE  /\ LOCK \in on' /\ ~Unlocks(out')
                      /\ \A m \in Motors : In(Set(m), out') => m \in Directions(moving)
                      /\ stray' \/ StopsAll((on' \cap Motors) \ Directions(moving), out')
    BY <1>3, <1>5 DEF MoveDrives, Directions
  <2>1. /\ LOCK \in on /\ ~Unlocks(out)
        /\ \A m \in Motors : In(Set(m), out) => m \in Directions(moving)
        /\ stray \/ StopsAll((on \cap Motors) \ Directions(moving), out)
    BY DEF RemoteInv, MoveDrives
  <2>2. LOCK \in on' /\ ~Unlocks(out')
    BY <1>2, <1>4, <1>6, <2>1 DEF Unlocks
  <2>3. stray' \/ StopsAll((on' \cap Motors) \ Directions(moving), out')
    BY <1>5, <1>8, <1>9, <2>1 DEF StopsAll
  <2>4. QED
    BY <1>6, <2>1, <2>2, <2>3
<1>14. NothingDriven'
  <2> SUFFICES ASSUME phase \in {"aim", "test"}
               PROVE  ~SetsMotor(out') /\ (stray' \/ on' \cap Motors = {})
    BY <1>3 DEF NothingDriven
  <2>1. ~SetsMotor(out) /\ (stray \/ on \cap Motors = {})
    BY DEF RemoteInv, NothingDriven
  <2>2. QED
    BY <1>5, <1>7, <1>9, <2>1 DEF SetsMotor
<1>15. AimLocks'
  <2> SUFFICES ASSUME phase = "aim" PROVE out' = <<>> /\ LOCK \in on'
    BY <1>3 DEF AimLocks
  <2>1. out = <<Set(LOCK)>>
    BY DEF RemoteInv, AimLocks, Write
  <2>2. out' = <<>>
    BY <2>1 DEF Write
  <2>3. LOCK \in on'
    BY <1>2, <1>4, <2>1
  <2>4. QED
    BY <2>2, <2>3
<1>16. QED
  BY <1>1, <1>10, <1>11, <1>12, <1>13, <1>14, <1>15 DEF RemoteInv

LEMMA StepRemote == RemoteInv /\ [Next]_vars => RemoteInv'
<1> SUFFICES ASSUME RemoteInv, [Next]_vars PROVE RemoteInv'
  OBVIOUS
<1>1. TypeInv'
  BY StepType DEF RemoteInv
<1> DEFINE Goal == /\ LockedWhileMoving' /\ LocksFirst' /\ UnlocksLast'
                   /\ MoveDrives' /\ NothingDriven' /\ AimLocks'
<1> USE DEF Ready
<1>2. CASE UNCHANGED vars
  <2>1. /\ phase' = phase /\ out' = out /\ on' = on /\ stray' = stray
        /\ moving' = moving /\ rising' = rising
    BY <1>2 DEF vars, move
  <2>2. Directions(moving)' = Directions(moving)
    BY <2>1 DEF Directions, Way
  <2>3. QED
    BY <1>1, <2>1, <2>2 DEF RemoteInv, LockedWhileMoving, LocksFirst, UnlocksLast,
       MoveDrives, NothingDriven, AimLocks
<1>3. CASE StartButton
  <2>1. /\ out' \in Buttons \cup {Shutdown} /\ phase' = "exit"
        /\ on' = on /\ stray' = stray
    BY <1>3 DEF StartButton
  <2>2. MoveDrives' /\ NothingDriven' /\ AimLocks' /\ LockedWhileMoving'
    BY <2>1 DEF RemoteInv, MoveDrives, NothingDriven, AimLocks, LockedWhileMoving
  <2>3. LocksFirst' /\ UnlocksLast'
    <3>1. CASE out'[1] = Set(LOCK) /\ ~Unlocks(out')
      BY <3>1 DEF LocksFirst, UnlocksLast
    <3>2. CASE /\ ~SetsMotor(out') /\ StopsAll(Motors, out')
               /\ \A k \in 1..Len(out') : out'[k] = Clear(LOCK) => k = Len(out')
      BY <3>2 DEF LocksFirst, UnlocksLast, StopsAll
    <3>3. QED
      BY <2>1, <3>1, <3>2, ButtonsLock
  <2>4. QED
    BY <1>1, <2>2, <2>3 DEF RemoteInv
\* StartMove and TestMove begin in the same way, StartTest nearly.
<1>4. ASSUME out' = <<Set(LOCK)>>, on' = on, phase' \in {"aim", "test"},
             stray' = (stray \/ on \cap Motors # {})
      PROVE  Goal
  <2>1. ~SetsMotor(out') /\ ~Unlocks(out')
    BY <1>4, OneWrite
  <2>2. LocksFirst' /\ UnlocksLast' /\ AimLocks'
    BY <1>4, <2>1 DEF LocksFirst, UnlocksLast, AimLocks
  <2>3. NothingDriven' /\ MoveDrives'
    BY <1>4, <2>1 DEF NothingDriven, MoveDrives
  <2>4. LockedWhileMoving'
    BY <1>4 DEF LockedWhileMoving
  <2>5. QED
    BY <2>2, <2>3, <2>4
<1>5. CASE StartMove \/ TestMove \/ StartTest
  <2>1. /\ out' = <<Set(LOCK)>> /\ on' = on /\ phase' \in {"aim", "test"}
        /\ stray' = (stray \/ on \cap Motors # {})
    BY <1>5 DEF StartMove, TestMove, StartTest, BeginMove, Stray
  <2>2. QED
    BY <1>1, <1>4, <2>1, Zenon DEF RemoteInv
<1>6. CASE Write
  BY <1>6, WriteRemote
<1>7. CASE Aim
  <2>1. /\ out = <<>> /\ phase = "aim" /\ phase' = "loop" /\ on' = on /\ stray' = stray
        /\ moving' = started' /\ out' = Starts(started', rising')
    BY <1>7 DEF Aim
  <2>2. started' \in SUBSET Axes
    BY <1>1 DEF TypeInv, TypeOK
  <2>3. /\ ~Unlocks(out')
        /\ \A m \in Motors : In(Set(m), out') => m \in Directions(moving)'
    BY <2>1, <2>2, StartsDrive DEF Directions, Way
  <2>4. LOCK \in on
    <3>1. <<>> # <<Set(LOCK)>>
      OBVIOUS
    <3>2. QED
      BY <2>1, <3>1 DEF RemoteInv, AimLocks
  <2>5. stray \/ on \cap Motors = {}
    BY <2>1 DEF RemoteInv, NothingDriven
  <2>6. MoveDrives'
    BY <2>1, <2>3, <2>4, <2>5 DEF MoveDrives, StopsAll
  <2>7. /\ LocksFirst' /\ UnlocksLast' /\ NothingDriven' /\ AimLocks'
        /\ LockedWhileMoving'
    BY <2>1, <2>3, <2>4 DEF LocksFirst, UnlocksLast, NothingDriven, AimLocks,
       LockedWhileMoving
  <2>8. QED
    BY <1>1, <2>6, <2>7 DEF RemoteInv
<1>8. CASE Round
  <2>1. /\ out = <<>> /\ phase = "loop" /\ phase' = "wait" /\ on' = on /\ stray' = stray
        /\ rising' = rising
        /\ \E A \in SUBSET Axes : out' = Stops(A) /\ moving' = moving \ A
    BY <1>8 DEF Round, Arrived
  <2>2. PICK A \in SUBSET Axes : out' = Stops(A) /\ moving' = moving \ A
    BY <2>1
  <2>3. ~SetsMotor(out') /\ ~Unlocks(out') /\ StopsAll(Directions(A), out')
    BY <2>2, StopsStop
  <2>4. /\ LOCK \in on
        /\ stray \/ StopsAll((on \cap Motors) \ Directions(moving), <<>>)
    BY <2>1 DEF RemoteInv, MoveDrives
  <2>5. stray \/ on \cap Motors \subseteq Directions(moving)
    BY <2>4, OneWrite DEF StopsAll
  <2>6. Directions(moving) \subseteq Directions(moving)' \cup Directions(A)
    BY <2>1, <2>2 DEF Directions, Way
  <2>7. stray' \/ StopsAll((on' \cap Motors) \ Directions(moving)', out')
    BY <2>1, <2>3, <2>5, <2>6 DEF StopsAll
  <2>8. MoveDrives'
    BY <2>1, <2>3, <2>4, <2>7 DEF MoveDrives, SetsMotor
  <2>9. /\ LocksFirst' /\ UnlocksLast' /\ NothingDriven' /\ AimLocks'
        /\ LockedWhileMoving'
    BY <2>1, <2>3, <2>4 DEF LocksFirst, UnlocksLast, NothingDriven, AimLocks,
       LockedWhileMoving
  <2>10. QED
    BY <1>1, <2>8, <2>9 DEF RemoteInv
<1>9. CASE Wait
  <2>1. /\ phase = "wait" /\ phase' = "loop" /\ out' = out /\ on' = on /\ stray' = stray
        /\ moving' = moving /\ rising' = rising
    BY <1>9 DEF Wait
  <2>2. Directions(moving)' = Directions(moving)
    BY <2>1 DEF Directions, Way
  <2>3. QED
    BY <1>1, <2>1, <2>2 DEF RemoteInv, LockedWhileMoving, LocksFirst, UnlocksLast,
       MoveDrives, NothingDriven, AimLocks
<1>10. CASE Finish
  <2>1. /\ out = <<>> /\ phase = "loop" /\ phase' \in {"test", "exit"} /\ on' = on
        /\ stray' = (stray \/ moving # {}) /\ out' = <<Clear(LOCK)>>
    BY <1>10 DEF Finish, Stray
  <2>2. /\ LOCK \in on
        /\ stray \/ StopsAll((on \cap Motors) \ Directions(moving), <<>>)
    BY <2>1 DEF RemoteInv, MoveDrives
  <2>3. stray \/ on \cap Motors \subseteq Directions(moving)
    BY <2>2, OneWrite DEF StopsAll
  <2>4. moving = {} => Directions(moving) = {}
    BY DEF Directions
  <2>5. stray' \/ on \cap Motors = {}
    BY <2>1, <2>3, <2>4
  <2>6. ~SetsMotor(out') /\ Len(out') = 1
    BY <2>1, OneWrite
  <2>7. UnlocksLast'
    BY <2>1, <2>5, <2>6 DEF UnlocksLast, StopsAll
  <2>8. LocksFirst' /\ MoveDrives' /\ NothingDriven' /\ AimLocks' /\ LockedWhileMoving'
    BY <2>1, <2>2, <2>5, <2>6 DEF LocksFirst, MoveDrives, NothingDriven, AimLocks,
       LockedWhileMoving
  <2>9. QED
    BY <1>1, <2>7, <2>8 DEF RemoteInv
<1>11. CASE TestEnd
  <2>1. /\ out = <<>> /\ phase = "test" /\ phase' = "exit" /\ on' = on
        /\ stray' = stray /\ out' = <<Clear(LOCK)>>
    BY <1>11 DEF TestEnd
  <2>2. stray \/ on \cap Motors = {}
    BY <2>1 DEF RemoteInv, NothingDriven
  <2>3. ~SetsMotor(out') /\ Len(out') = 1
    BY <2>1, OneWrite
  <2>4. UnlocksLast'
    BY <2>1, <2>2, <2>3 DEF UnlocksLast, StopsAll
  <2>5. LocksFirst' /\ MoveDrives' /\ NothingDriven' /\ AimLocks' /\ LockedWhileMoving'
    BY <2>1, <2>2, <2>3 DEF LocksFirst, MoveDrives, NothingDriven, AimLocks,
       LockedWhileMoving
  <2>6. QED
    BY <1>1, <2>4, <2>5 DEF RemoteInv
<1>12. CASE Exit \/ Kill
  <2>1. phase' = "idle" /\ out' = <<>> /\ on' = on /\ stray' = stray
    BY <1>12 DEF Exit, Kill, End
  <2>2. ~SetsMotor(out') /\ ~Unlocks(out')
    BY <2>1, OneWrite
  <2>3. QED
    BY <1>1, <2>1, <2>2 DEF RemoteInv, LockedWhileMoving, LocksFirst, UnlocksLast,
       MoveDrives, NothingDriven, AimLocks
<1>13. CASE Coast
  BY <1>1, <1>13 DEF Coast, move, RemoteInv, LockedWhileMoving, LocksFirst, UnlocksLast,
     MoveDrives, NothingDriven, AimLocks, Directions, Way
<1>14. QED
  BY <1>2, <1>3, <1>5, <1>6, <1>7, <1>8, <1>9, <1>10, <1>11, <1>12, <1>13 DEF Next

\* For any range, positions and times and with every fault: the hand-held remote
\* is locked whenever a motor runs, unless the motor was given up by a move or
\* found running by one.
THEOREM RemoteLocked == Spec => []LockedWhileMoving
<1>1. RemoteInv => LockedWhileMoving
  BY DEF RemoteInv
<1>2. QED
  BY <1>1, InitRemote, StepRemote, PTL DEF Spec

-----------------------------------------------------------------------------
(* How far a move gets.  Both directions are one if the way is measured from *)
(* the end an axis moves away from.                                          *)

Gone(a) == IF a \in rising THEN angle[a] ELSE MaxAngle - angle[a]
Goal(a) == IF a \in rising THEN target[a] ELSE MaxAngle - target[a]
Seen(a) == IF a \in rising THEN AngleR(a) ELSE MaxAngle - AngleR(a)

\* An axis that leaves this place while it is read is seen behind it.
LagsAt(a, x) == IF a \in rising THEN (MaxAngle - x) % LowByte = 0
                                ELSE (x + 1) % LowByte = 0

\* Once all is written the relay is on, or off.
WillBe(r, w) ==
    /\ \A k \in 1..Len(out) : out[k].relay = r => out[k].level = w
    /\ (r \in on <=> w) \/ \E k \in 1..Len(out) : out[k].relay = r

\* An axis on its way, after n rounds: it moves one unit a round, and passes its
\* target by at most one, and by that one only if it was seen behind it.
OnItsWay(a, n) ==
    /\ WillBe(Way(a, rising), TRUE) /\ WillBe(Back(a, rising), FALSE)
    /\ n <= Gone(a) /\ Gone(a) <= Goal(a) + 1
    /\ Gone(a) = Goal(a) + 1 => LagsAt(a, Goal(a)) /\ LowByte > 1

\* An axis that has arrived.
Stopped(a) ==
    /\ WillBe(Way(a, rising), FALSE) /\ WillBe(Back(a, rising), FALSE)
    /\ Gone(a) \in Goal(a)..(Goal(a) + 2)

Course ==
    /\ phase = "idle" => started = {}
    /\ phase = "loop" => \A a \in moving : OnItsWay(a, rounds)
    /\ phase = "wait" => \A a \in moving :
          IF a \in early THEN OnItsWay(a, rounds + 1)
                         ELSE OnItsWay(a, rounds) /\ Gone(a) < Goal(a)
    /\ phase \in {"loop", "wait"} => \A a \in started \ moving : Stopped(a)
    /\ phase \in {"exit", "test"} /\ moving = {} => \A a \in started : Stopped(a)

CourseInv == ~fault => Course

\* A move in time is over when the loop is.
OverInTime == ~fault /\ phase \notin {"loop", "wait"} => moving = {}

\* Quotient and remainder are what they should be.
LEMMA Division ==
    \A L \in Nat \ {0} : \A b, q \in Nat : \A r \in 0..(L - 1) :
        b = q * L + r => b \div L = q /\ b % L = r
<1> SUFFICES ASSUME NEW L \in Nat \ {0}, NEW b \in Nat, NEW q \in Nat, NEW r \in 0..(L - 1),
                    b = q * L + r
             PROVE  b \div L = q /\ b % L = r
  OBVIOUS
<1>1. /\ b \div L \in Int /\ b % L \in 0..(L - 1)
      /\ b = L * (b \div L) + (b % L)
  OBVIOUS
<1>2. PICK p \in Int, s \in 0..(L - 1) : p = b \div L /\ s = b % L
  BY <1>1
<1>3. L * (p - q) = r - s
  BY <1>1, <1>2
<1>4. p = q
  <2>1. CASE p - q >= 1
    <3>1. L * (p - q) >= L
      BY <2>1, <1>2
    <3>2. QED
      BY <1>2, <1>3, <3>1
  <2>2. CASE p - q <= -1
    <3>1. L * (p - q) <= -L
      BY <2>2, <1>2
    <3>2. QED
      BY <1>2, <1>3, <3>1
  <2>3. QED
    BY <2>1, <2>2, <1>2
<1>5. s = r
  BY <1>2, <1>3, <1>4
<1>6. QED
  BY <1>2, <1>4, <1>5

\* One angle after another, read with its low byte: the reading is the new angle
\* unless the high byte has turned over, and then it is behind the old one.
LEMMA Registers ==
    ASSUME NEW b \in Nat
    PROVE  /\ Register(b, b) = b
           /\ \/ Register(b, b + 1) = b + 1
              \/ (b + 1) % LowByte = 0 /\ Register(b, b + 1) = b - (LowByte - 1)
           /\ b > 0 => \/ Register(b, b - 1) = b - 1
                       \/ b % LowByte = 0 /\ Register(b, b - 1) = b + (LowByte - 1)
           /\ b % LowByte = 0 /\ LowByte > 1 =>
                 (b + 1) % LowByte # 0 /\ (b > 0 => (b - 1) % LowByte # 0)
<1> DEFINE L == LowByte
<1>1. L \in Nat \ {0}
  BY LowByteAssumption
<1> HIDE DEF L
<1>2. PICK q \in Nat, r \in 0..(L - 1) : q = b \div L /\ r = b % L /\ b = q * L + r
  <2>1. /\ b \div L \in Int /\ b % L \in 0..(L - 1)
        /\ b = L * (b \div L) + (b % L)
    BY <1>1
  <2>2. b \div L >= 0
    BY <1>1
  <2>3. QED
    BY <1>1, <2>1, <2>2
<1>3. b + 1 = q * L + (r + 1) /\ b + 1 \in Nat
  BY <1>1, <1>2
\* One more: the low byte counts on, or begins again.
<1>4. \/ (b + 1) % L = r + 1 /\ (b + 1) \div L = q
      \/ (b + 1) % L = 0 /\ r = L - 1
  <2>1. CASE r < L - 1
    <3>1. PICK t \in 0..(L - 1) : t = r + 1 /\ b + 1 = q * L + t /\ q \in Nat /\ t \in 0..(L - 1)
      BY <1>1, <1>2, <1>3, <2>1
    <3>2. (b + 1) \div L = q /\ (b + 1) % L = t
      BY <1>1, <1>3, <3>1, Division, Zenon
    <3>3. QED
      BY <3>1, <3>2
  <2>2. CASE r = L - 1
    <3>1. b + 1 = (q + 1) * L + 0 /\ q + 1 \in Nat /\ 0 \in 0..(L - 1)
      BY <1>1, <1>2, <2>2
    <3>2. (b + 1) % L = 0
      BY <1>1, <1>3, <3>1, Division, Zenon
    <3>3. QED
      BY <2>2, <3>2
  <2>3. QED
    BY <1>1, <2>1, <2>2
\* One less: the same from the other side.
<1>5. ASSUME b > 0
      PROVE  \/ r > 0 /\ (b - 1) % L = r - 1
             \/ r = 0 /\ (b - 1) % L = L - 1
  <2>1. b - 1 \in Nat
    BY <1>5
  <2>2. CASE r > 0
    <3>1. PICK t \in 0..(L - 1) : t = r - 1 /\ b - 1 = q * L + t /\ q \in Nat /\ t \in 0..(L - 1)
      BY <1>1, <1>2, <2>2
    <3>2. (b - 1) % L = t
      BY <1>1, <2>1, <3>1, Division, Zenon
    <3>3. QED
      BY <2>2, <3>1, <3>2
  <2>3. CASE r = 0
    <3>1. q >= 1
      BY <1>1, <1>2, <1>5, <2>3
    <3>2. b - 1 = (q - 1) * L + (L - 1) /\ q - 1 \in Nat /\ L - 1 \in 0..(L - 1)
      BY <1>1, <1>2, <2>3, <3>1
    <3>3. (b - 1) % L = L - 1
      BY <1>1, <2>1, <3>2, Division, Zenon
    <3>4. QED
      BY <2>3, <3>3
  <2>4. QED
    BY <1>1, <2>2, <2>3
<1>6. /\ Register(b, b) = q * L + r
      /\ Register(b, b + 1) = q * L + ((b + 1) % L)
      /\ Register(b, b - 1) = q * L + ((b - 1) % L)
  BY <1>2 DEF Register, L
<1>7. QED
  BY <1>1, <1>2, <1>4, <1>5, <1>6 DEF L

\* Writing goes on with what it began.
LEMMA WriteGoesOn ==
    ASSUME TypeInv, Write, NEW r \in Relays, NEW w \in BOOLEAN, WillBe(r, w)
    PROVE  WillBe(r, w)'
<1>1. PICK s \in Relays : \/ out[1] = Set(s) /\ on' = on \cup {s}
                          \/ out[1] = Clear(s) /\ on' = on \ {s}
  BY WriteStep
<1>2. /\ Len(out) \in Nat \ {0} /\ Len(out') = Len(out) - 1
      /\ \A k \in 1..Len(out') : out'[k] = out[k + 1]
  BY WriteStep
<1>3. PICK n \in Nat : n = Len(out')
  BY <1>2
<1>4. \A k \in 1..n : out'[k].relay = r => out'[k].level = w
  <2> SUFFICES ASSUME NEW k \in 1..n, out'[k].relay = r PROVE out'[k].level = w
    OBVIOUS
  <2>1. k + 1 \in 1..Len(out) /\ out[k + 1].relay = r
    BY <1>2, <1>3
  <2>2. out[k + 1].level = w
    BY <2>1 DEF WillBe
  <2>3. QED
    BY <1>2, <1>3, <2>2
<1>5. CASE \E k \in 1..n : out'[k].relay = r
  BY <1>3, <1>4, <1>5 DEF WillBe
<1>6. CASE ~\E k \in 1..n : out'[k].relay = r
  <2>1. \A k \in 1..Len(out) : out[k].relay = r => k = 1
    <3> SUFFICES ASSUME NEW k \in 1..Len(out), out[k].relay = r, k # 1 PROVE FALSE
      OBVIOUS
    <3>1. k - 1 \in 1..n /\ (k - 1) + 1 = k
      BY <1>2, <1>3
    <3>2. out'[k - 1].relay = r
      BY <1>2, <1>3, <3>1
    <3>3. QED
      BY <1>6, <3>1, <3>2
  <2>2. 1 \in 1..Len(out)
    BY <1>2
  <2>3. r \in on' <=> w
    <3>1. CASE s = r
      <4>1. out[1].relay = r /\ (out[1].level <=> r \in on')
        BY <1>1, <3>1, Writes
      <4>2. out[1].level = w
        BY <2>2, <4>1 DEF WillBe
      <4>3. QED
        BY <4>1, <4>2
    <3>2. CASE s # r
      <4>1. out[1].relay # r /\ (r \in on' <=> r \in on)
        BY <1>1, <3>2, Writes
      <4>2. ~\E k \in 1..Len(out) : out[k].relay = r
        BY <2>1, <4>1
      <4>3. QED
        BY <4>1, <4>2 DEF WillBe
    <3>3. QED
      BY <3>1, <3>2
  <2>4. QED
    BY <1>3, <1>4, <2>3 DEF WillBe
<1>7. QED
  BY <1>5, <1>6

\* Nothing to write, and one write of another relay.
LEMMA Written ==
    ASSUME NEW r, NEW w
    PROVE  /\ out = <<>> => (WillBe(r, w) <=> (r \in on <=> w))
           /\ r # LOCK /\ out = <<Clear(LOCK)>> => (WillBe(r, w) <=> (r \in on <=> w))
           /\ r # LOCK /\ out' = <<Clear(LOCK)>> => (WillBe(r, w)' <=> (r \in on' <=> w))
<1>1. out = <<>> => (WillBe(r, w) <=> (r \in on <=> w))
  BY OneWrite DEF WillBe
<1>2. ASSUME r # LOCK, out' = <<Clear(LOCK)>> PROVE WillBe(r, w)' <=> (r \in on' <=> w)
  <2>1. Len(out') = 1 /\ out'[1].relay = LOCK
    BY <1>2, Writes
  <2>2. \A k \in 1..Len(out') : out'[k].relay # r
    BY <1>2, <2>1
  <2>3. QED
    BY <2>2 DEF WillBe
<1>3. ASSUME r # LOCK, out = <<Clear(LOCK)>> PROVE WillBe(r, w) <=> (r \in on <=> w)
  <2>1. Len(out) = 1 /\ out[1].relay = LOCK
    BY <1>3, Writes
  <2>2. \A k \in 1..Len(out) : out[k].relay # r
    BY <1>3, <2>1
  <2>3. QED
    BY <2>2 DEF WillBe
<1>4. QED
  BY <1>1, <1>2, <1>3

\* What starts an axis leaves its relays as they have to be.
LEMMA StartsWill ==
    ASSUME NEW A \in SUBSET Axes, NEW U, out' = Starts(A, U), NEW a \in A
    PROVE  WillBe(Way(a, U), TRUE)' /\ WillBe(Back(a, U), FALSE)'
<1> DEFINE n == Way("nick", U)
           g == Way("gier", U)
           nb == Back("nick", U)
           gb == Back("gier", U)
<1>1. n # g /\ n # nb /\ n # gb /\ nb # g /\ nb # gb /\ g # gb
  BY RelayNames DEF Way, Back
<1>2. out' = IF "nick" \in A
             THEN IF "gier" \in A
                  THEN <<Clear(nb), Set(n), Set(g), Clear(gb)>>
                  ELSE <<Clear(nb), Set(n)>>
             ELSE IF "gier" \in A THEN <<Set(g), Clear(gb)>> ELSE <<>>
  BY StartSequences
<1> HIDE DEF n, g, nb, gb
<1>3. /\ \A r : /\ Set(r).relay = r /\ Set(r).level = TRUE
                /\ Clear(r).relay = r /\ Clear(r).level = FALSE
  BY Writes
<1>4. CASE a = "nick"
  <2>1. WillBe(n, TRUE)' /\ WillBe(nb, FALSE)'
    BY <1>1, <1>2, <1>3, <1>4 DEF WillBe
  <2>2. QED
    BY <1>4, <2>1 DEF n, nb
<1>5. CASE a = "gier"
  <2>1. WillBe(g, TRUE)' /\ WillBe(gb, FALSE)'
    BY <1>1, <1>2, <1>3, <1>5 DEF WillBe
  <2>2. QED
    BY <1>5, <2>1 DEF g, gb
<1>6. QED
  BY <1>4, <1>5 DEF Axes

\* What stops some axes switches their relays off and touches no other.
LEMMA StopsWill ==
    ASSUME out = <<>>, NEW A \in SUBSET Axes, out' = Stops(A), on' = on,
           NEW U, U = rising, NEW a \in Axes
    PROVE  /\ a \in A /\ WillBe(Way(a, U), TRUE) => WillBe(Way(a, U), FALSE)'
           /\ WillBe(Way(a, U), FALSE) => WillBe(Way(a, U), FALSE)'
           /\ a \notin A /\ WillBe(Way(a, U), TRUE) => WillBe(Way(a, U), TRUE)'
           /\ WillBe(Back(a, U), FALSE) => WillBe(Back(a, U), FALSE)'
<1> DEFINE n == Way("nick", U)
           g == Way("gier", U)
           nb == Back("nick", U)
           gb == Back("gier", U)
<1>1. n # g /\ n # nb /\ n # gb /\ nb # g /\ nb # gb /\ g # gb
  BY RelayNames DEF Way, Back
<1>2. out' = IF "nick" \in A
             THEN IF "gier" \in A THEN <<Clear(n), Clear(g)>> ELSE <<Clear(n)>>
             ELSE IF "gier" \in A THEN <<Clear(g)>> ELSE <<>>
  BY StopSequences
<1> HIDE DEF n, g, nb, gb
<1>3. \A r : Clear(r).relay = r /\ Clear(r).level = FALSE
  BY Writes
<1>4. /\ \A r, w : WillBe(r, w) <=> (r \in on <=> w)
  BY Written
\* A relay is written if its axis has arrived, and else stays as it is.
<1>5. /\ \A k \in 1..Len(out') : out'[k].level = FALSE
      /\ (\E k \in 1..Len(out') : out'[k].relay = n) <=> "nick" \in A
      /\ (\E k \in 1..Len(out') : out'[k].relay = g) <=> "gier" \in A
      /\ \A k \in 1..Len(out') : out'[k].relay \in {n, g}
  BY <1>1, <1>2, <1>3
<1>6. CASE a = "nick"
  <2>1. /\ a \in A /\ WillBe(n, TRUE) => WillBe(n, FALSE)'
        /\ WillBe(n, FALSE) => WillBe(n, FALSE)'
        /\ a \notin A /\ WillBe(n, TRUE) => WillBe(n, TRUE)'
        /\ WillBe(nb, FALSE) => WillBe(nb, FALSE)'
    BY <1>1, <1>4, <1>5, <1>6 DEF WillBe
  <2>2. QED
    BY <1>6, <2>1 DEF n, nb
<1>7. CASE a = "gier"
  <2>1. /\ a \in A /\ WillBe(g, TRUE) => WillBe(g, FALSE)'
        /\ WillBe(g, FALSE) => WillBe(g, FALSE)'
        /\ a \notin A /\ WillBe(g, TRUE) => WillBe(g, TRUE)'
        /\ WillBe(gb, FALSE) => WillBe(gb, FALSE)'
    BY <1>1, <1>4, <1>5, <1>7 DEF WillBe
  <2>2. QED
    BY <1>7, <2>1 DEF g, gb
<1>8. QED
  BY <1>6, <1>7 DEF Axes

\* What is seen of an axis: its place, or, if it moves on while it is read, the new
\* one, or a place that is not beyond the old one.
LEMMA Sight ==
    ASSUME TypeInv, NEW a \in Axes, angle' \in [Axes -> Angles], rising' = rising
    PROVE  /\ Gone(a) \in Angles /\ Gone(a)' \in Angles /\ Goal(a) \in Angles
           /\ AngleR(a) \in Int
           /\ Gone(a)' = Gone(a) => Seen(a) = Gone(a)
           /\ Gone(a)' = Gone(a) + 1 =>
                 \/ Seen(a) = Gone(a) + 1
                 \/ LagsAt(a, Gone(a)) /\ Seen(a) = Gone(a) - (LowByte - 1)
<1> USE MaxAngleAssumption DEF TypeInv, TypeOK, Angles
<1>1. target \in [Axes -> Angles]
  BY TargetsAssumption
<1>2. /\ angle[a] \in Angles /\ angle'[a] \in Angles /\ target[a] \in Angles
  BY <1>1
<1>3. /\ Gone(a) \in Angles /\ Gone(a)' \in Angles /\ Goal(a) \in Angles
  BY <1>2 DEF Gone, Goal
<1>4. PICK b \in Nat, d \in Nat : b = MaxAngle - angle[a] /\ d = MaxAngle - angle'[a]
  BY <1>2
<1>5. AngleR(a) = MaxAngle - Register(b, d)
  BY <1>4 DEF AngleR, ReadReg16
<1>6. LowByte \in Nat \ {0}
  BY LowByteAssumption
<1>0. AngleR(a) \in Int
  <2>1. b \div LowByte \in Int /\ d % LowByte \in Int
    BY <1>6
  <2>2. Register(b, d) \in Int
    BY <1>6, <2>1 DEF Register
  <2>3. QED
    BY <1>5, <2>2
<1>7. CASE a \in rising
  <2>1. Gone(a) = MaxAngle - b /\ Gone(a)' = MaxAngle - d /\ Seen(a) = MaxAngle - Register(b, d)
    BY <1>2, <1>4, <1>5, <1>7 DEF Gone, Seen
  <2>2. ASSUME Gone(a)' = Gone(a) PROVE Seen(a) = Gone(a)
    BY <1>4, <2>1, <2>2, Registers
  <2>3. ASSUME Gone(a)' = Gone(a) + 1
        PROVE  \/ Seen(a) = Gone(a) + 1
               \/ LagsAt(a, Gone(a)) /\ Seen(a) = Gone(a) - (LowByte - 1)
    <3>1. MaxAngle - d = (MaxAngle - b) + 1 /\ MaxAngle - Gone(a) = b
      BY <2>1, <2>3
    <3>2. b > 0 /\ d = b - 1
      BY <3>1
    <3>3. \/ Register(b, d) = d
          \/ b % LowByte = 0 /\ Register(b, d) = b + (LowByte - 1)
      BY <3>2, Registers
    <3>4. CASE Register(b, d) = d
      BY <2>1, <3>2, <3>4
    <3>5. CASE b % LowByte = 0 /\ Register(b, d) = b + (LowByte - 1)
      <4>1. Seen(a) = Gone(a) - (LowByte - 1)
        BY <1>6, <2>1, <3>5
      <4>2. LagsAt(a, Gone(a))
        BY <1>7, <3>1, <3>5 DEF LagsAt
      <4>3. QED
        BY <4>1, <4>2
    <3>6. QED
      BY <3>3, <3>4, <3>5
  <2>4. QED
    BY <1>0, <1>3, <2>2, <2>3
<1>8. CASE a \notin rising
  <2>1. /\ Gone(a) = b /\ Gone(a)' = d
        /\ Seen(a) = MaxAngle - (MaxAngle - Register(b, d))
    BY <1>2, <1>4, <1>5, <1>8 DEF Gone, Seen
  <2>2. ASSUME Gone(a)' = Gone(a) PROVE Seen(a) = Gone(a)
    BY <1>4, <2>1, <2>2, Registers
  <2>3. ASSUME Gone(a)' = Gone(a) + 1
        PROVE  \/ Seen(a) = Gone(a) + 1
               \/ LagsAt(a, Gone(a)) /\ Seen(a) = Gone(a) - (LowByte - 1)
    <3>1. d = b + 1 /\ Gone(a) = b
      BY <2>1, <2>3
    <3>2. \/ Register(b, b + 1) = b + 1
          \/ (b + 1) % LowByte = 0 /\ Register(b, b + 1) = b - (LowByte - 1)
      BY Registers
    <3>3. CASE Register(b, b + 1) = b + 1
      BY <1>6, <2>1, <3>1, <3>3
    <3>4. CASE (b + 1) % LowByte = 0 /\ Register(b, b + 1) = b - (LowByte - 1)
      <4>1. Seen(a) = Gone(a) - (LowByte - 1)
        BY <1>6, <2>1, <3>1, <3>4
      <4>2. LagsAt(a, Gone(a))
        BY <1>8, <3>1, <3>4 DEF LagsAt
      <4>3. QED
        BY <4>1, <4>2
    <3>5. QED
      BY <3>2, <3>3, <3>4
  <2>4. QED
    BY <1>0, <1>3, <2>2, <2>3
<1>9. QED
  BY <1>7, <1>8

\* The place after one that lags does not.
LEMMA NoSecondLag ==
    ASSUME NEW a \in Axes, NEW x \in Nat, x < MaxAngle, LagsAt(a, x), LowByte > 1
    PROVE  ~LagsAt(a, x + 1)
<1>1. CASE a \in rising
  <2>1. /\ MaxAngle - x \in Nat /\ MaxAngle - x > 0
        /\ MaxAngle - (x + 1) = (MaxAngle - x) - 1
    BY MaxAngleAssumption
  <2>2. (MaxAngle - x) % LowByte = 0 => ((MaxAngle - x) - 1) % LowByte # 0
    BY <2>1, Registers
  <2>3. QED
    BY <1>1, <2>1, <2>2 DEF LagsAt
<1>2. CASE a \notin rising
  <2>1. PICK b \in Nat : b = x + 1
    OBVIOUS
  <2>2. b % LowByte = 0 => (b + 1) % LowByte # 0
    BY Registers
  <2>3. QED
    BY <1>2, <2>1, <2>2 DEF LagsAt
<1>3. QED
  BY <1>1, <1>2

\* The motors on their way and those that stand still.
LEMMA Motion ==
    ASSUME TypeInv, NEW a \in Axes, angle' \in [Axes -> Angles], rising' = rising
    PROVE  /\ Way(a, rising) \in Motors /\ Back(a, rising) \in Motors
           /\ Way(a, rising) \in on => a \in Turning
           /\ Way(a, rising) \notin on /\ Back(a, rising) \notin on => a \notin Turning
           /\ angle'[a] = angle[a] => Gone(a)' = Gone(a)
           /\ /\ Way(a, rising) \in on /\ Back(a, rising) \notin on
              /\ angle'[a] \in Driven(a)
              => \/ Gone(a)' = Gone(a) + 1
                 \/ Gone(a) = MaxAngle /\ Gone(a)' = Gone(a)
<1>1. Way(a, rising) \in Motors /\ Back(a, rising) \in Motors
  BY Opposites
<1>2. \A x \in RelaysOf({a}) : x = Way(a, rising) \/ x = Back(a, rising)
  BY DEF RelaysOf, Way, Back
<1>3. Way(a, rising) \in RelaysOf({a})
  BY DEF RelaysOf, Way
<1>4. Way(a, rising) \in on => a \in Turning
  BY <1>3 DEF Turning
<1>5. Way(a, rising) \notin on /\ Back(a, rising) \notin on => a \notin Turning
  BY <1>2 DEF Turning
<1>6. angle'[a] = angle[a] => Gone(a)' = Gone(a)
  BY DEF Gone
<1>7. ASSUME Way(a, rising) \in on, Back(a, rising) \notin on, angle'[a] \in Driven(a)
      PROVE  \/ Gone(a)' = Gone(a) + 1
             \/ Gone(a) = MaxAngle /\ Gone(a)' = Gone(a)
  <2>1. angle[a] \in 0..MaxAngle /\ angle'[a] \in 0..MaxAngle
    BY DEF TypeInv, TypeOK, Angles
  <2>2. CASE a \in rising
    <3>1. Rising[a] \in on /\ Falling[a] \notin on
      BY <1>7, <2>2 DEF Way, Back
    <3>2. angle'[a] = IF angle[a] = MaxAngle THEN MaxAngle ELSE angle[a] + 1
      BY <1>7, <3>1 DEF Driven
    <3>3. QED
      BY <2>2, <3>2 DEF Gone
  <2>3. CASE a \notin rising
    <3>1. Rising[a] \notin on /\ Falling[a] \in on
      BY <1>7, <2>3 DEF Way, Back
    <3>2. angle'[a] = IF angle[a] = 0 THEN 0 ELSE angle[a] - 1
      BY <1>7, <3>1 DEF Driven
    <3>3. QED
      BY <2>1, <2>3, <3>2, MaxAngleAssumption DEF Gone
  <2>4. QED
    BY <2>2, <2>3
<1>8. QED
  BY <1>1, <1>4, <1>5, <1>6, <1>7

\* The relays that are named by the direction of an axis, one step later.
LEMMA WillBeNext ==
    ASSUME NEW a, NEW U, U = rising, rising' = rising, NEW w
    PROVE  /\ WillBe(Way(a, U), w)' => WillBe(Way(a, rising), w)'
           /\ WillBe(Back(a, U), w)' => WillBe(Back(a, rising), w)'
  BY DEF WillBe, Way, Back

LEMMA StaysStopped ==
    ASSUME TypeInv, NEW a \in Axes, Stopped(a), rising' = rising, target' = target,
           angle'[a] = angle[a],
           \A r \in Motors : WillBe(r, FALSE) => WillBe(r, FALSE)'
    PROVE  Stopped(a)'
<1>1. PICK U : U = rising
  OBVIOUS
<1>2. WillBe(Way(a, U), FALSE)' /\ WillBe(Back(a, U), FALSE)'
  BY <1>1, Opposites DEF Stopped
<1>3. WillBe(Way(a, rising), FALSE)' /\ WillBe(Back(a, rising), FALSE)'
  BY <1>1, <1>2, WillBeNext
<1>4. Gone(a)' = Gone(a) /\ Goal(a)' = Goal(a)
  BY DEF Gone, Goal
<1>5. QED
  BY <1>3, <1>4 DEF Stopped

\* A step that leaves the move and the axes alone and the relays to what they
\* will be.
LEMMA SameCourse ==
    ASSUME TypeInv, Course, phase' = phase, UNCHANGED move, angle' = angle,
           \A r \in Motors, w \in BOOLEAN : WillBe(r, w) => WillBe(r, w)'
    PROVE  Course'
<1>1. /\ target' = target /\ started' = started /\ rising' = rising /\ moving' = moving
      /\ rounds' = rounds /\ early' = early
  BY DEF move
<1>2. started \subseteq Axes /\ moving \subseteq started
  BY DEF TypeInv, TypeOK
<1>3. ASSUME NEW a \in Axes, Stopped(a) PROVE Stopped(a)'
  BY <1>1, <1>3, StaysStopped
<1>4. ASSUME NEW a \in Axes, NEW n, OnItsWay(a, n) PROVE OnItsWay(a, n)'
  <2>1. PICK U : U = rising
    OBVIOUS
  <2>2. WillBe(Way(a, U), TRUE)' /\ WillBe(Back(a, U), FALSE)'
    BY <1>4, <2>1, Opposites DEF OnItsWay
  <2>3. WillBe(Way(a, rising), TRUE)' /\ WillBe(Back(a, rising), FALSE)'
    BY <1>1, <2>1, <2>2, WillBeNext
  <2>4. Gone(a)' = Gone(a) /\ Goal(a)' = Goal(a)
    BY <1>1 DEF Gone, Goal
  <2>5. LagsAt(a, Goal(a)) => LagsAt(a, Goal(a))'
    BY <1>1, <2>4 DEF LagsAt
  <2>6. QED
    BY <1>4, <2>3, <2>4, <2>5 DEF OnItsWay
<1>5. ASSUME NEW a \in Axes
      PROVE  /\ OnItsWay(a, rounds) => OnItsWay(a, rounds)'
             /\ OnItsWay(a, rounds + 1) => OnItsWay(a, rounds + 1)'
             /\ Gone(a) < Goal(a) => Gone(a)' < Goal(a)'
  <2>1. PICK n, m : n = rounds /\ m = rounds + 1
    OBVIOUS
  <2>2. /\ OnItsWay(a, n)' => OnItsWay(a, rounds)'
        /\ OnItsWay(a, m)' => OnItsWay(a, rounds + 1)'
    BY <1>1, <2>1 DEF OnItsWay
  <2>3. Gone(a)' = Gone(a) /\ Goal(a)' = Goal(a)
    BY <1>1 DEF Gone, Goal
  <2>4. QED
    BY <1>4, <2>1, <2>2, <2>3
<1>6. QED
  BY <1>1, <1>2, <1>3, <1>5 DEF Course

LEMMA InitCourse == Init => CourseInv
  BY DEF Init, CourseInv, Course

LEMMA AimCourse ==
    ASSUME TypeInv, TypeInv', Aim, ~fault'
    PROVE  Course'
<1>1. /\ out = <<>> /\ on' = on /\ target' = target /\ rounds' = 0
      /\ moving' = started' /\ out' = Starts(started', rising') /\ phase' = "loop"
  BY DEF Aim, Ready
<1>2. PICK r \in [Axes -> Angles] :
        /\ r = angle'
        /\ started' = {a \in Axes : /\ target[a] # r[a]
                                    /\ a = "gier" => target[a] \in 1..(MaxAngle - 1)}
        /\ rising' = {a \in started' : target[a] > r[a]}
  BY DEF Aim, Fault
<1>3. started' \in SUBSET Axes
  BY <1>2
<1>4. ASSUME NEW a \in started' PROVE OnItsWay(a, rounds)'
  <2>1. PICK U : U = rising'
    OBVIOUS
  <2>2. PICK A \in SUBSET Axes : A = started'
    BY <1>3
  <2>3. WillBe(Way(a, U), TRUE)' /\ WillBe(Back(a, U), FALSE)'
    BY <1>1, <1>4, <2>1, <2>2, StartsWill
  <2>4. WillBe(Way(a, rising), TRUE)' /\ WillBe(Back(a, rising), FALSE)'
    BY <2>1, <2>3 DEF WillBe, Way, Back
  <2>5. angle'[a] \in 0..MaxAngle /\ target[a] \in 0..MaxAngle /\ target[a] # angle'[a]
    BY <1>2, <1>3, <1>4, TargetsAssumption DEF Angles, TypeInv, TypeOK
  <2>6. 0 <= Gone(a)' /\ Gone(a)' < Goal(a)' /\ Goal(a)' \in Int /\ Gone(a)' \in Int
    <3>1. CASE a \in rising'
      BY <1>1, <1>2, <2>5, <3>1, MaxAngleAssumption DEF Gone, Goal
    <3>2. CASE a \notin rising'
      <4>1. target[a] < angle'[a]
        BY <1>2, <1>4, <2>5, <3>2
      <4>2. QED
        BY <1>1, <2>5, <3>2, <4>1, MaxAngleAssumption DEF Gone, Goal
    <3>3. QED
      BY <3>1, <3>2
  <2>7. /\ rounds' <= Gone(a)' /\ Gone(a)' <= Goal(a)' + 1
        /\ Gone(a)' # Goal(a)' + 1
    BY <1>1, <2>6
  <2>8. QED
    BY <2>4, <2>7 DEF OnItsWay
<1>5. QED
  BY <1>1, <1>4 DEF Course

\* What one round does to an axis that is on its way: it is stopped at its target
\* or up to two units behind it, or goes on.
LEMMA RoundGoesOn ==
    ASSUME TypeInv, TypeInv', Course, Round, ~fault', NEW a \in moving
    PROVE  \/ a \notin moving' /\ Stopped(a)'
           \/ /\ a \in moving' /\ a \in early' /\ OnItsWay(a, rounds + 1)'
           \/ /\ a \in moving' /\ a \notin early' /\ OnItsWay(a, rounds)'
              /\ Gone(a)' < Goal(a)'
<1>1. /\ out = <<>> /\ on' = on /\ target' = target /\ rounds' = rounds
      /\ rising' = rising /\ phase = "loop" /\ a \in Axes
      /\ angle' \in [Axes -> Angles] /\ ~Stuck(early') /\ Move(early')
  BY DEF Round, Ready, Fault, TypeInv, TypeOK
<1>2. PICK A \in SUBSET Axes :
        /\ A = {b \in Axes : IF b \in rising THEN target[b] <= AngleR(b)
                                             ELSE target[b] >= AngleR(b)}
        /\ out' = Stops(A) /\ moving' = moving \ A
  <2>1. PICK r \in [Axes -> Angles] :
          ~Misread(r) /\ out' = Stops(Arrived(r)) /\ moving' = moving \ Arrived(r)
    BY DEF Round, Fault
  <2>2. \A b \in Axes : r[b] = AngleR(b)
    BY <2>1 DEF Misread
  <2>3. Arrived(r) = {b \in Axes : IF b \in rising THEN target[b] <= AngleR(b)
                                                   ELSE target[b] >= AngleR(b)}
    BY <2>2 DEF Arrived
  <2>4. QED
    BY <2>1, <2>3
<1>3. PICK U : U = rising
  OBVIOUS
<1>4. OnItsWay(a, rounds) /\ rounds \in Nat
  BY <1>1, BoundsAssumption DEF Course, TypeInv, TypeOK
<1>5. WillBe(Way(a, U), TRUE) /\ WillBe(Back(a, U), FALSE)
  BY <1>3, <1>4 DEF OnItsWay
<1>6. Way(a, rising) \in on /\ Back(a, rising) \notin on
  BY <1>1, <1>3, <1>5, Written
<1>7. /\ WillBe(Back(a, U), FALSE)'
      /\ a \in A => WillBe(Way(a, U), FALSE)'
      /\ a \notin A => WillBe(Way(a, U), TRUE)'
  BY <1>1, <1>2, <1>3, <1>5, StopsWill
<1>8. /\ WillBe(Back(a, rising), FALSE)'
      /\ a \in A => WillBe(Way(a, rising), FALSE)'
      /\ a \notin A => WillBe(Way(a, rising), TRUE)'
  BY <1>1, <1>3, <1>7, WillBeNext
<1>9. /\ Gone(a) \in 0..MaxAngle /\ Goal(a) \in 0..MaxAngle /\ Goal(a)' = Goal(a)
      /\ Gone(a)' \in 0..MaxAngle
      /\ Gone(a)' = Gone(a) => Seen(a) = Gone(a)
      /\ Gone(a)' = Gone(a) + 1 =>
            \/ Seen(a) = Gone(a) + 1
            \/ LagsAt(a, Gone(a)) /\ Seen(a) = Gone(a) - (LowByte - 1)
  BY <1>1, Sight DEF Goal, Angles
<1>10. a \in A <=> Goal(a) <= Seen(a)
  <2>1. target[a] \in 0..MaxAngle
    BY <1>1, TargetsAssumption DEF TypeInv, TypeOK, Angles
  <2>2. AngleR(a) \in Int
    BY <1>1, Sight
  <2>3. QED
    BY <1>1, <1>2, <2>1, <2>2, MaxAngleAssumption DEF Goal, Seen
<1>11. /\ rounds <= Gone(a) /\ Gone(a) <= Goal(a) + 1
       /\ Gone(a) = Goal(a) + 1 => LagsAt(a, Goal(a)) /\ LowByte > 1
  BY <1>4 DEF OnItsWay
<1>12. a \in moving' <=> a \notin A
  BY <1>2
<1>14. LowByte \in Nat \ {0} /\ MaxAngle \in Nat
  BY LowByteAssumption, MaxAngleAssumption
\* The axis stands while it is read: it is seen where it is.
<1>15. CASE a \notin early'
  <2>1. Gone(a)' = Gone(a) /\ Seen(a) = Gone(a)
    <3>1. angle'[a] = angle[a]
      BY <1>1, <1>15 DEF Move
    <3>2. QED
      BY <1>1, <1>9, <3>1, Motion
  <2>2. CASE a \in A
    <3>1. Gone(a)' \in Goal(a)'..(Goal(a)' + 2)
      BY <1>9, <1>10, <1>11, <2>1, <2>2
    <3>2. QED
      BY <1>8, <1>12, <2>2, <3>1 DEF Stopped
  <2>3. CASE a \notin A
    <3>1. /\ rounds' <= Gone(a)' /\ Gone(a)' < Goal(a)' /\ Gone(a)' <= Goal(a)' + 1
          /\ Gone(a)' # Goal(a)' + 1
      BY <1>1, <1>9, <1>10, <1>11, <2>1, <2>3
    <3>2. QED
      BY <1>8, <1>12, <1>15, <2>3, <3>1 DEF OnItsWay
  <2>4. QED
    BY <2>2, <2>3
\* It moves while it is read: it may be seen behind its place.
<1>16. CASE a \in early'
  <2>1. \/ Gone(a)' = Gone(a) + 1
        \/ Gone(a) = MaxAngle /\ Gone(a)' = Gone(a)
    <3>1. angle'[a] \in Driven(a)
      BY <1>1, <1>16 DEF Stuck
    <3>2. QED
      BY <1>1, <1>6, <3>1, Motion
  <2>2. CASE a \in A
    <3>1. Gone(a)' \in Goal(a)'..(Goal(a)' + 2)
      BY <1>9, <1>10, <1>11, <1>14, <2>1, <2>2
    <3>2. QED
      BY <1>8, <1>12, <2>2, <3>1 DEF Stopped
  <2>3. CASE a \notin A
    <3>1. Gone(a)' = Gone(a) + 1 /\ Seen(a) < Goal(a)
      <4>1. Seen(a) \in Int
        BY <1>9, <1>14, <2>1
      <4>2. QED
        BY <1>9, <1>10, <2>1, <2>3, <4>1
    <3>2. rounds + 1 <= Gone(a)'
      BY <1>4, <1>9, <1>11, <3>1
    <3>3. /\ Gone(a)' <= Goal(a) + 1
          /\ Gone(a)' = Goal(a) + 1 => LagsAt(a, Goal(a)) /\ LowByte > 1
      <4>1. CASE Seen(a) = Gone(a) + 1
        BY <1>9, <3>1, <4>1
      <4>2. CASE LagsAt(a, Gone(a)) /\ Seen(a) = Gone(a) - (LowByte - 1)
        <5>1. Gone(a) # Goal(a) + 1
          <6> SUFFICES ASSUME Gone(a) = Goal(a) + 1 PROVE FALSE
            OBVIOUS
          <6>1. LagsAt(a, Goal(a)) /\ LowByte > 1 /\ Goal(a) < MaxAngle /\ Goal(a) \in Nat
            BY <1>9, <1>11, <1>14
          <6>2. ~LagsAt(a, Goal(a) + 1)
            BY <1>1, <6>1, NoSecondLag
          <6>3. QED
            BY <4>2, <6>2
        <5>2. Gone(a)' = Goal(a) + 1 => Gone(a) = Goal(a) /\ LowByte > 1
          BY <1>9, <1>14, <3>1, <4>2
        <5>3. QED
          BY <1>9, <1>11, <3>1, <4>2, <5>1, <5>2
      <4>3. QED
        BY <1>9, <3>1, <4>1, <4>2
    <3>4. LagsAt(a, Goal(a)) => LagsAt(a, Goal(a))'
      BY <1>1, <1>9 DEF LagsAt
    <3>5. OnItsWay(a, rounds + 1)'
      BY <1>1, <1>8, <1>9, <2>3, <3>2, <3>3, <3>4 DEF OnItsWay
    <3>6. QED
      BY <1>12, <1>16, <2>3, <3>5
  <2>4. QED
    BY <2>2, <2>3
<1>17. QED
  BY <1>15, <1>16

LEMMA RoundCourse ==
    ASSUME TypeInv, TypeInv', Course, Round, ~fault'
    PROVE  Course'
<1>1. /\ out = <<>> /\ on' = on /\ target' = target /\ rising' = rising
      /\ started' = started /\ phase = "loop" /\ phase' = "wait"
      /\ angle' \in [Axes -> Angles] /\ Move(early') /\ early' \subseteq Turning
  BY DEF Round, Ready, TypeInv, TypeOK
<1>2. started \subseteq Axes /\ moving \subseteq started /\ moving' \subseteq moving
  BY DEF TypeInv, TypeOK, Round
<1>3. PICK A \in SUBSET Axes : out' = Stops(A)
  BY DEF Round, Arrived
<1>4. ASSUME NEW a \in started \ moving PROVE Stopped(a)'
  <2>1. a \in Axes /\ Stopped(a)
    BY <1>1, <1>2, <1>4 DEF Course
  <2>2. PICK U : U = rising
    OBVIOUS
  <2>3. WillBe(Way(a, U), FALSE) /\ WillBe(Back(a, U), FALSE)
    BY <2>1, <2>2 DEF Stopped
  <2>4. Way(a, rising) \notin on /\ Back(a, rising) \notin on
    BY <1>1, <2>2, <2>3, Written
  <2>5. a \notin early'
    BY <1>1, <2>1, <2>4, Motion
  <2>6. angle'[a] = angle[a]
    BY <1>1, <2>1, <2>5 DEF Move
  <2>7. WillBe(Way(a, U), FALSE)' /\ WillBe(Back(a, U), FALSE)'
    BY <1>1, <1>3, <2>1, <2>2, <2>3, StopsWill
  <2>8. WillBe(Way(a, rising), FALSE)' /\ WillBe(Back(a, rising), FALSE)'
    BY <1>1, <2>2, <2>7, WillBeNext
  <2>9. Gone(a)' = Gone(a) /\ Goal(a)' = Goal(a)
    BY <1>1, <2>6 DEF Gone, Goal
  <2>10. QED
    BY <2>1, <2>8, <2>9 DEF Stopped
<1>5. \A a \in moving : \/ a \notin moving' /\ Stopped(a)'
                        \/ /\ a \in moving' /\ a \in early' /\ OnItsWay(a, rounds + 1)'
                        \/ /\ a \in moving' /\ a \notin early' /\ OnItsWay(a, rounds)'
                           /\ Gone(a)' < Goal(a)'
  BY RoundGoesOn
<1>6. QED
  BY <1>1, <1>2, <1>4, <1>5 DEF Course

\* While the program waits, what is on its way and has not moved yet moves on.
LEMMA WaitCourse ==
    ASSUME TypeInv, TypeInv', Course, Wait, ~fault'
    PROVE  Course'
<1>1. /\ out = <<>> /\ out' = <<>> /\ on' = on /\ target' = target /\ rising' = rising
      /\ started' = started /\ moving' = moving /\ phase = "wait" /\ phase' = "loop"
      /\ rounds' = rounds + 1 /\ angle' \in [Axes -> Angles]
      /\ Move(Turning \ early) /\ ~Stuck(Turning \ early)
  BY DEF Wait, Ready, TypeInv, TypeOK, Fault
<1>2. started \subseteq Axes /\ moving \subseteq started
  BY DEF TypeInv, TypeOK
<1>3. \A r, w : WillBe(r, w)' <=> WillBe(r, w)
  BY <1>1 DEF WillBe
<1>4. ASSUME NEW a \in started \ moving PROVE Stopped(a)'
  <2>1. a \in Axes /\ Stopped(a)
    BY <1>1, <1>2, <1>4 DEF Course
  <2>2. Way(a, rising) \notin on /\ Back(a, rising) \notin on
    <3>1. PICK U : U = rising
      OBVIOUS
    <3>2. WillBe(Way(a, U), FALSE) /\ WillBe(Back(a, U), FALSE)
      BY <2>1, <3>1 DEF Stopped
    <3>3. QED
      BY <1>1, <3>1, <3>2, Written
  <2>3. a \notin Turning
    BY <1>1, <2>1, <2>2, Motion
  <2>4. angle'[a] = angle[a]
    BY <1>1, <2>1, <2>3 DEF Move
  <2>5. QED
    BY <1>1, <1>3, <2>1, <2>4, StaysStopped
<1>5. ASSUME NEW a \in moving PROVE OnItsWay(a, rounds)'
  <2>1. /\ a \in Axes /\ rounds \in Nat
        /\ a \in early => OnItsWay(a, rounds + 1)
        /\ a \notin early => OnItsWay(a, rounds) /\ Gone(a) < Goal(a)
    BY <1>1, <1>2, BoundsAssumption DEF Course, TypeInv, TypeOK
  <2>2. PICK U : U = rising
    OBVIOUS
  <2>3. WillBe(Way(a, U), TRUE) /\ WillBe(Back(a, U), FALSE)
    BY <2>1, <2>2 DEF OnItsWay
  <2>4. WillBe(Way(a, rising), TRUE)' /\ WillBe(Back(a, rising), FALSE)'
    BY <1>1, <1>3, <2>2, <2>3, WillBeNext
  <2>5. Way(a, rising) \in on /\ Back(a, rising) \notin on
    BY <1>1, <2>2, <2>3, Written
  <2>6. /\ Gone(a) \in 0..MaxAngle /\ Goal(a) \in 0..MaxAngle /\ Goal(a)' = Goal(a)
        /\ Gone(a)' \in 0..MaxAngle /\ MaxAngle \in Nat
    BY <1>1, <2>1, Sight, MaxAngleAssumption DEF Goal, Angles
  <2>7. CASE a \in early
    <3>1. angle'[a] = angle[a]
      BY <1>1, <2>1, <2>7 DEF Move
    <3>2. Gone(a)' = Gone(a)
      BY <1>1, <2>1, <3>1, Motion
    <3>3. LagsAt(a, Goal(a)) => LagsAt(a, Goal(a))'
      BY <1>1, <2>6 DEF LagsAt
    <3>4. /\ rounds + 1 <= Gone(a) /\ Gone(a) <= Goal(a) + 1
          /\ Gone(a) = Goal(a) + 1 => LagsAt(a, Goal(a)) /\ LowByte > 1
      BY <2>1, <2>7 DEF OnItsWay
    <3>5. QED
      BY <1>1, <2>4, <2>6, <3>2, <3>3, <3>4 DEF OnItsWay
  <2>8. CASE a \notin early
    <3>1. a \in Turning \ early
      BY <1>1, <2>1, <2>5, <2>8, Motion
    <3>2. angle'[a] \in Driven(a)
      BY <1>1, <3>1 DEF Stuck
    <3>3. Gone(a)' = Gone(a) + 1
      <4>1. \/ Gone(a)' = Gone(a) + 1
            \/ Gone(a) = MaxAngle /\ Gone(a)' = Gone(a)
        BY <1>1, <2>1, <2>5, <3>2, Motion
      <4>2. QED
        BY <2>1, <2>6, <2>8, <4>1
    <3>4. rounds <= Gone(a) /\ Gone(a) < Goal(a)
      BY <2>1, <2>8 DEF OnItsWay
    <3>5. /\ rounds' <= Gone(a)' /\ Gone(a)' <= Goal(a)' + 1
          /\ Gone(a)' # Goal(a)' + 1
      BY <1>1, <2>1, <2>6, <3>3, <3>4
    <3>6. QED
      BY <2>4, <3>5 DEF OnItsWay
  <2>9. QED
    BY <2>7, <2>8
<1>6. QED
  BY <1>1, <1>2, <1>4, <1>5 DEF Course

\* Once a move is over its axes stand still, whatever else runs on.
LEMMA RestCourse ==
    ASSUME TypeInv, TypeInv', Course, Finish \/ TestEnd \/ Coast
    PROVE  Course'
<1>1. /\ out = <<>> /\ on' = on /\ (out' = out \/ out' = <<Clear(LOCK)>>)
      /\ target' = target /\ rising' = rising /\ started' = started /\ moving' = moving
      /\ angle' \in [Axes -> Angles]
      /\ phase \in {"idle", "loop", "test"}
      /\ phase' \in {"exit", "test"} \/ (phase' = "idle" /\ phase = "idle")
      /\ phase = "idle" => phase' = "idle"
      /\ angle' = angle \/ Move(Turning)
  BY DEF Finish, TestEnd, Coast, Ready, move, TypeInv, TypeOK
<1>2. ASSUME moving = {}, phase # "idle", NEW a \in started PROVE Stopped(a)'
  <2>1. a \in Axes /\ Stopped(a)
    BY <1>1, <1>2 DEF Course, TypeInv, TypeOK
  <2>2. PICK U : U = rising
    OBVIOUS
  <2>3. /\ Way(a, U) \notin on /\ Back(a, U) \notin on
        /\ Way(a, U) # LOCK /\ Back(a, U) # LOCK
    <3>1. WillBe(Way(a, U), FALSE) /\ WillBe(Back(a, U), FALSE)
      BY <2>1, <2>2 DEF Stopped
    <3>2. QED
      BY <1>1, <2>1, <3>1, Written, Opposites, RelayNames
  <2>4. a \notin Turning
    BY <1>1, <2>1, <2>2, <2>3, Motion
  <2>5. angle'[a] = angle[a]
    BY <1>1, <2>1, <2>4 DEF Move
  <2>6. WillBe(Way(a, U), FALSE)' /\ WillBe(Back(a, U), FALSE)'
    <3>1. CASE out' = out
      BY <1>1, <2>3, <3>1 DEF WillBe
    <3>2. CASE out' = <<Clear(LOCK)>>
      BY <1>1, <2>3, <3>2, Written
    <3>3. QED
      BY <1>1, <3>1, <3>2
  <2>7. WillBe(Way(a, rising), FALSE)' /\ WillBe(Back(a, rising), FALSE)'
    BY <1>1, <2>2, <2>6, WillBeNext
  <2>8. Gone(a)' = Gone(a) /\ Goal(a)' = Goal(a)
    BY <1>1, <2>5 DEF Gone, Goal
  <2>9. QED
    BY <2>1, <2>7, <2>8 DEF Stopped
<1>3. QED
  BY <1>1, <1>2 DEF Course

LEMMA StepCourse == TypeInv /\ CourseInv /\ [Next]_vars => CourseInv'
<1> SUFFICES ASSUME TypeInv, CourseInv, [Next]_vars, ~fault' PROVE Course'
  BY DEF CourseInv
<1>1. TypeInv'
  BY StepType
<1>2. ~fault
  BY DEF Next, vars, StartButton, StartMove, BeginMove, StartTest, Write, Aim, Round, Wait,
     Finish, TestMove, TestEnd, Exit, Kill, Coast, Fault
<1>3. Course
  BY <1>2 DEF CourseInv
<1>4. CASE StartButton \/ StartTest
  <2>1. phase = "idle" /\ phase' \in {"exit", "test"} /\ UNCHANGED move
    BY <1>4 DEF StartButton, StartTest
  <2>2. started' = {} /\ moving' = {}
    BY <1>1, <1>3, <2>1 DEF Course, move, TypeInv, TypeOK
  <2>3. QED
    BY <2>1, <2>2 DEF Course
<1>5. CASE StartMove \/ TestMove
  <2>1. phase' = "aim"
    BY <1>5 DEF StartMove, TestMove, BeginMove
  <2>2. QED
    BY <2>1 DEF Course
<1>6. CASE Exit \/ Kill
  <2>1. phase' = "idle" /\ started' = {}
    BY <1>6 DEF Exit, Kill, End
  <2>2. QED
    BY <2>1 DEF Course
<1>7. CASE Write
  <2>1. phase' = phase /\ UNCHANGED move /\ angle' = angle
    BY <1>7 DEF Write
  <2>2. \A r \in Motors, w \in BOOLEAN : WillBe(r, w) => WillBe(r, w)'
    BY <1>7, WriteGoesOn DEF Relays
  <2>3. QED
    BY <1>3, <2>1, <2>2, SameCourse
<1>8. CASE UNCHANGED vars
  <2>1. phase' = phase /\ UNCHANGED move /\ angle' = angle /\ out' = out /\ on' = on
    BY <1>8 DEF vars
  <2>2. \A r \in Motors, w \in BOOLEAN : WillBe(r, w) => WillBe(r, w)'
    BY <2>1 DEF WillBe
  <2>3. QED
    BY <1>3, <2>1, <2>2, SameCourse
<1>9. QED
  BY <1>1, <1>3, <1>4, <1>5, <1>6, <1>7, <1>8, AimCourse, RoundCourse, WaitCourse, RestCourse
  DEF Next

\* For any positions, any range of the axes and any low byte of the sensor: a move
\* that was not given up has switched off what it had started, at the target or
\* at most two units behind it, and never short of it.
THEOREM MoveArrivesAtTarget == Spec => []MoveArrives
<1>1. TypeInv /\ CourseInv => MoveArrives
  <2> SUFFICES ASSUME TypeInv, Course, phase \in {"exit", "test"}, out = <<Clear(LOCK)>>,
                      moving = {}, NEW a \in started
               PROVE  /\ on \cap RelaysOf({a}) = {}
                      /\ angle[a] \in IF a \in rising THEN target[a]..(target[a] + 2)
                                                     ELSE (target[a] - 2)..target[a]
    BY DEF CourseInv, MoveArrives
  <2>1. a \in Axes /\ Stopped(a)
    BY DEF Course, TypeInv, TypeOK
  <2>2. on \cap RelaysOf({a}) = {}
    <3>1. PICK U : U = rising
      OBVIOUS
    <3>2. /\ WillBe(Way(a, U), FALSE) /\ WillBe(Back(a, U), FALSE)
          /\ Way(a, U) # LOCK /\ Back(a, U) # LOCK
      BY <2>1, <3>1, Opposites, RelayNames DEF Stopped
    <3>3. Way(a, rising) \notin on /\ Back(a, rising) \notin on
      BY <3>1, <3>2, Written
    <3>4. QED
      BY <3>3 DEF RelaysOf, Way, Back
  <2>3. angle[a] \in 0..MaxAngle /\ target[a] \in 0..MaxAngle
    BY <2>1, TargetsAssumption DEF Angles, TypeInv, TypeOK
  <2>4. Gone(a) \in Goal(a)..(Goal(a) + 2)
    BY <2>1 DEF Stopped
  <2>5. CASE a \in rising
    BY <2>2, <2>3, <2>4, <2>5 DEF Gone, Goal
  <2>6. CASE a \notin rising
    <3>1. MaxAngle - angle[a] \in (MaxAngle - target[a])..((MaxAngle - target[a]) + 2)
      BY <2>4, <2>6 DEF Gone, Goal
    <3>2. angle[a] \in (target[a] - 2)..target[a]
      BY <2>3, <3>1, MaxAngleAssumption
    <3>3. QED
      BY <2>2, <2>6, <3>2
  <2>7. QED
    BY <2>5, <2>6
<1>2. QED
  BY <1>1, InitType, StepType, InitCourse, StepCourse, PTL DEF Spec

\* A move that has more rounds than the axes have angles ends before its sixty
\* seconds: every round brings each axis that has not arrived one unit further.
THEOREM MoveIsInTime == MaxRounds > MaxAngle => (Spec => []MoveEndsInTime)
<1> SUFFICES ASSUME MaxRounds > MaxAngle PROVE Spec => []MoveEndsInTime
  OBVIOUS
<1>1. Init => OverInTime
  BY DEF Init, OverInTime
<1>2. ASSUME TypeInv, CourseInv, ~fault, phase = "loop", Expired
      PROVE  moving = {}
  <2> SUFFICES ASSUME NEW a \in moving PROVE FALSE
    OBVIOUS
  <2>1. OnItsWay(a, rounds) /\ a \in Axes
    BY <1>2 DEF CourseInv, Course, TypeInv, TypeOK
  <2>2. Gone(a) \in 0..MaxAngle
    BY <1>2, <2>1, MaxAngleAssumption DEF Gone, Angles, TypeInv, TypeOK
  <2>3. QED
    BY <1>2, <2>1, <2>2, BoundsAssumption, MaxAngleAssumption DEF OnItsWay, Expired
<1>3. TypeInv /\ CourseInv /\ OverInTime /\ [Next]_vars => OverInTime'
  <2> SUFFICES ASSUME TypeInv, CourseInv, OverInTime, [Next]_vars,
                      ~fault', phase' \notin {"loop", "wait"}
               PROVE  moving' = {}
    BY DEF OverInTime
  <2>1. ~fault
    BY DEF Next, vars, StartButton, StartMove, BeginMove, StartTest, Write, Aim, Round,
       Wait, Finish, TestMove, TestEnd, Exit, Kill, Coast, Fault
  <2>2. CASE Finish
    BY <1>2, <2>1, <2>2 DEF Finish, Ready, Busy, move
  <2>3. CASE ~Finish
    BY <2>1, <2>3
    DEF OverInTime, Next, vars, StartButton, StartMove, BeginMove, StartTest, Write, Aim,
       Round, Wait, TestMove, TestEnd, Exit, Kill, End, Coast, move, Ready
  <2>4. QED
    BY <2>2, <2>3
<1>4. TypeInv /\ CourseInv /\ OverInTime => MoveEndsInTime
  <2> SUFFICES ASSUME TypeInv, CourseInv, OverInTime, ~fault, Expired PROVE moving = {}
    BY DEF MoveEndsInTime
  <2>1. phase # "wait"
    BY BoundsAssumption DEF TypeInv, TypeOK, Expired
  <2>2. QED
    BY <1>2, <2>1 DEF OverInTime
<1>5. QED
  BY <1>1, <1>3, <1>4, InitType, StepType, InitCourse, StepCourse, PTL DEF Spec
=============================================================================
