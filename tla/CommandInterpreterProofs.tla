---------------------- MODULE CommandInterpreterProofs ----------------------
(***************************************************************************)
(* Proofs about CommandInterpreter, for any faults, any taught sequences   *)
(* and any profiles that are taught.                                       *)
(*                                                                         *)
(* A command is a sequence of steps, some of which belong together: a file *)
(* is opened and written, the beamer is switched and the switch is         *)
(* remembered.  Whole says what of that holds in every command, and the    *)
(* proofs follow the place a process has reached in its command: its       *)
(* types, what it may lose (KeptInv), the state of the toggle (ToggleInv), *)
(* and what the devices show of the steps done (AgreeInv), from which      *)
(* follow the order of sound, picture and mount, and what success means.   *)
(***************************************************************************)
EXTENDS CommandInterpreter, SequenceTheorems, WellFoundedInduction, TLAPS

\* A sequence that begins with u and goes on with v.
LEMMA JoinIs ==
    ASSUME NEW S, NEW u \in Seq(S), NEW v \in Seq(S), NEW w \in Seq(S),
           Len(w) = Len(u) + Len(v),
           \A i \in 1..Len(u) : w[i] = u[i], \A i \in 1..Len(v) : w[Len(u) + i] = v[i]
    PROVE  u \o v = w
<1>1. Len(u) \in Nat /\ Len(v) \in Nat
  BY LenProperties
<1>2. u \o v \in Seq(S) /\ Len(u \o v) = Len(w)
  BY ConcatProperties
<1>3. ASSUME NEW i \in 1..Len(w) PROVE (u \o v)[i] = w[i]
  <2>1. CASE i <= Len(u)
    BY <1>1, <2>1, ConcatProperties
  <2>2. CASE i > Len(u)
    <3>1. i - Len(u) \in 1..Len(v) /\ Len(u) + (i - Len(u)) = i
      BY <1>1, <2>2
    <3>2. (u \o v)[i] = v[i - Len(u)]
      BY <1>1, <2>2, ConcatProperties
    <3>3. QED
      BY <3>1, <3>2
  <2>3. QED
    BY <1>1, <2>1, <2>2
<1>4. QED
  BY <1>2, <1>3, SeqEqual

Ops == {"ifOk", "ir", "profile", "audio", "irInit", "open", "write", "openAc", "writeAc",
        "pcInit", "move", "forget", "toggle", "active", "read", "flip", "last", "again",
        "within", "zoomSave", "openPc", "writePc", "irTeach"}
StepSet == [op : Ops, arg : Int \cup {"SHUTDOWN", "WRONG_ARG"}]

\* What is where in a concatenation.
LEMMA Concatenated ==
    ASSUME NEW s \in Seq(StepSet), NEW t \in Seq(StepSet)
    PROVE  /\ s \o t \in Seq(StepSet) /\ Len(s \o t) = Len(s) + Len(t)
           /\ Len(s) \in Nat /\ Len(t) \in Nat
           /\ \A i \in 1..Len(s) : (s \o t)[i] = s[i]
           /\ \A i \in 1..Len(t) : (s \o t)[Len(s) + i] = t[i]
<1>1. Len(s) \in Nat /\ Len(t) \in Nat
  BY LenProperties
<1>2. QED
  BY <1>1, ConcatProperties

\* Tuples of steps one after the other.
LEMMA Joined ==
    /\ \A a, b \in StepSet :
          <<a>> \o <<b>> = <<a, b>>
    /\ \A a, b, c \in StepSet :
          <<a>> \o <<b, c>> = <<a, b, c>>
    /\ \A a, b, c \in StepSet :
          <<a, b>> \o <<c>> = <<a, b, c>>
    /\ \A a, b, c, d \in StepSet :
          <<a, b>> \o <<c, d>> = <<a, b, c, d>>
    /\ \A a, b, c, d \in StepSet :
          <<a, b, c>> \o <<d>> = <<a, b, c, d>>
    /\ \A a, b, c, d, e \in StepSet :
          <<a, b, c>> \o <<d, e>> = <<a, b, c, d, e>>
    /\ \A a, b, c, d, e \in StepSet :
          <<a, b, c, d>> \o <<e>> = <<a, b, c, d, e>>
    /\ \A a, b, c, d, e, f \in StepSet :
          <<a, b, c, d>> \o <<e, f>> = <<a, b, c, d, e, f>>
<1>1. ASSUME NEW a \in StepSet, NEW b \in StepSet
      PROVE  <<a>> \o <<b>> = <<a, b>>
  <2> DEFINE s == <<a>> t == <<b>> r == <<a, b>>
  <2>1. /\ s \in Seq(StepSet) /\ t \in Seq(StepSet) /\ r \in Seq(StepSet)
        /\ Len(s) = 1 /\ Len(t) = 1 /\ Len(r) = 2
    OBVIOUS
  <2>2. /\ s[1] = a
        /\ t[1] = b
        /\ r[1] = a /\ r[2] = b
    OBVIOUS
  <2> HIDE DEF s, t, r
  <2>3. /\ Len(r) = Len(s) + Len(t)
        /\ \A i \in 1..Len(s) : r[i] = s[i]
        /\ \A i \in 1..Len(t) : r[Len(s) + i] = t[i]
    BY <2>1, <2>2
  <2>4. s \o t = r
    BY <2>1, <2>3, JoinIs
  <2>5. QED
    BY <2>4 DEF s, t, r
<1>2. ASSUME NEW a \in StepSet, NEW b \in StepSet, NEW c \in StepSet
      PROVE  <<a>> \o <<b, c>> = <<a, b, c>>
  <2> DEFINE s == <<a>> t == <<b, c>> r == <<a, b, c>>
  <2>1. /\ s \in Seq(StepSet) /\ t \in Seq(StepSet) /\ r \in Seq(StepSet)
        /\ Len(s) = 1 /\ Len(t) = 2 /\ Len(r) = 3
    OBVIOUS
  <2>2. /\ s[1] = a
        /\ t[1] = b /\ t[2] = c
        /\ r[1] = a /\ r[2] = b /\ r[3] = c
    OBVIOUS
  <2> HIDE DEF s, t, r
  <2>3. /\ Len(r) = Len(s) + Len(t)
        /\ \A i \in 1..Len(s) : r[i] = s[i]
        /\ \A i \in 1..Len(t) : r[Len(s) + i] = t[i]
    BY <2>1, <2>2
  <2>4. s \o t = r
    BY <2>1, <2>3, JoinIs
  <2>5. QED
    BY <2>4 DEF s, t, r
<1>3. ASSUME NEW a \in StepSet, NEW b \in StepSet, NEW c \in StepSet
      PROVE  <<a, b>> \o <<c>> = <<a, b, c>>
  <2> DEFINE s == <<a, b>> t == <<c>> r == <<a, b, c>>
  <2>1. /\ s \in Seq(StepSet) /\ t \in Seq(StepSet) /\ r \in Seq(StepSet)
        /\ Len(s) = 2 /\ Len(t) = 1 /\ Len(r) = 3
    OBVIOUS
  <2>2. /\ s[1] = a /\ s[2] = b
        /\ t[1] = c
        /\ r[1] = a /\ r[2] = b /\ r[3] = c
    OBVIOUS
  <2> HIDE DEF s, t, r
  <2>3. /\ Len(r) = Len(s) + Len(t)
        /\ \A i \in 1..Len(s) : r[i] = s[i]
        /\ \A i \in 1..Len(t) : r[Len(s) + i] = t[i]
    BY <2>1, <2>2
  <2>4. s \o t = r
    BY <2>1, <2>3, JoinIs
  <2>5. QED
    BY <2>4 DEF s, t, r
<1>4. ASSUME NEW a \in StepSet, NEW b \in StepSet, NEW c \in StepSet, NEW d \in StepSet
      PROVE  <<a, b>> \o <<c, d>> = <<a, b, c, d>>
  <2> DEFINE s == <<a, b>> t == <<c, d>> r == <<a, b, c, d>>
  <2>1. /\ s \in Seq(StepSet) /\ t \in Seq(StepSet) /\ r \in Seq(StepSet)
        /\ Len(s) = 2 /\ Len(t) = 2 /\ Len(r) = 4
    OBVIOUS
  <2>2. /\ s[1] = a /\ s[2] = b
        /\ t[1] = c /\ t[2] = d
        /\ r[1] = a /\ r[2] = b /\ r[3] = c /\ r[4] = d
    OBVIOUS
  <2> HIDE DEF s, t, r
  <2>3. /\ Len(r) = Len(s) + Len(t)
        /\ \A i \in 1..Len(s) : r[i] = s[i]
        /\ \A i \in 1..Len(t) : r[Len(s) + i] = t[i]
    BY <2>1, <2>2
  <2>4. s \o t = r
    BY <2>1, <2>3, JoinIs
  <2>5. QED
    BY <2>4 DEF s, t, r
<1>5. ASSUME NEW a \in StepSet, NEW b \in StepSet, NEW c \in StepSet, NEW d \in StepSet
      PROVE  <<a, b, c>> \o <<d>> = <<a, b, c, d>>
  <2> DEFINE s == <<a, b, c>> t == <<d>> r == <<a, b, c, d>>
  <2>1. /\ s \in Seq(StepSet) /\ t \in Seq(StepSet) /\ r \in Seq(StepSet)
        /\ Len(s) = 3 /\ Len(t) = 1 /\ Len(r) = 4
    OBVIOUS
  <2>2. /\ s[1] = a /\ s[2] = b /\ s[3] = c
        /\ t[1] = d
        /\ r[1] = a /\ r[2] = b /\ r[3] = c /\ r[4] = d
    OBVIOUS
  <2> HIDE DEF s, t, r
  <2>3. /\ Len(r) = Len(s) + Len(t)
        /\ \A i \in 1..Len(s) : r[i] = s[i]
        /\ \A i \in 1..Len(t) : r[Len(s) + i] = t[i]
    BY <2>1, <2>2
  <2>4. s \o t = r
    BY <2>1, <2>3, JoinIs
  <2>5. QED
    BY <2>4 DEF s, t, r
<1>6. ASSUME NEW a \in StepSet, NEW b \in StepSet, NEW c \in StepSet, NEW d \in StepSet, NEW e \in StepSet
      PROVE  <<a, b, c>> \o <<d, e>> = <<a, b, c, d, e>>
  <2> DEFINE s == <<a, b, c>> t == <<d, e>> r == <<a, b, c, d, e>>
  <2>1. /\ s \in Seq(StepSet) /\ t \in Seq(StepSet) /\ r \in Seq(StepSet)
        /\ Len(s) = 3 /\ Len(t) = 2 /\ Len(r) = 5
    OBVIOUS
  <2>2. /\ s[1] = a /\ s[2] = b /\ s[3] = c
        /\ t[1] = d /\ t[2] = e
        /\ r[1] = a /\ r[2] = b /\ r[3] = c /\ r[4] = d /\ r[5] = e
    OBVIOUS
  <2> HIDE DEF s, t, r
  <2>3. /\ Len(r) = Len(s) + Len(t)
        /\ \A i \in 1..Len(s) : r[i] = s[i]
        /\ \A i \in 1..Len(t) : r[Len(s) + i] = t[i]
    BY <2>1, <2>2
  <2>4. s \o t = r
    BY <2>1, <2>3, JoinIs
  <2>5. QED
    BY <2>4 DEF s, t, r
<1>7. ASSUME NEW a \in StepSet, NEW b \in StepSet, NEW c \in StepSet, NEW d \in StepSet, NEW e \in StepSet
      PROVE  <<a, b, c, d>> \o <<e>> = <<a, b, c, d, e>>
  <2> DEFINE s == <<a, b, c, d>> t == <<e>> r == <<a, b, c, d, e>>
  <2>1. /\ s \in Seq(StepSet) /\ t \in Seq(StepSet) /\ r \in Seq(StepSet)
        /\ Len(s) = 4 /\ Len(t) = 1 /\ Len(r) = 5
    OBVIOUS
  <2>2. /\ s[1] = a /\ s[2] = b /\ s[3] = c /\ s[4] = d
        /\ t[1] = e
        /\ r[1] = a /\ r[2] = b /\ r[3] = c /\ r[4] = d /\ r[5] = e
    OBVIOUS
  <2> HIDE DEF s, t, r
  <2>3. /\ Len(r) = Len(s) + Len(t)
        /\ \A i \in 1..Len(s) : r[i] = s[i]
        /\ \A i \in 1..Len(t) : r[Len(s) + i] = t[i]
    BY <2>1, <2>2
  <2>4. s \o t = r
    BY <2>1, <2>3, JoinIs
  <2>5. QED
    BY <2>4 DEF s, t, r
<1>8. ASSUME NEW a \in StepSet, NEW b \in StepSet, NEW c \in StepSet, NEW d \in StepSet, NEW e \in StepSet, NEW f \in StepSet
      PROVE  <<a, b, c, d>> \o <<e, f>> = <<a, b, c, d, e, f>>
  <2> DEFINE s == <<a, b, c, d>> t == <<e, f>> r == <<a, b, c, d, e, f>>
  <2>1. /\ s \in Seq(StepSet) /\ t \in Seq(StepSet) /\ r \in Seq(StepSet)
        /\ Len(s) = 4 /\ Len(t) = 2 /\ Len(r) = 6
    OBVIOUS
  <2>2. /\ s[1] = a /\ s[2] = b /\ s[3] = c /\ s[4] = d
        /\ t[1] = e /\ t[2] = f
        /\ r[1] = a /\ r[2] = b /\ r[3] = c /\ r[4] = d /\ r[5] = e /\ r[6] = f
    OBVIOUS
  <2> HIDE DEF s, t, r
  <2>3. /\ Len(r) = Len(s) + Len(t)
        /\ \A i \in 1..Len(s) : r[i] = s[i]
        /\ \A i \in 1..Len(t) : r[Len(s) + i] = t[i]
    BY <2>1, <2>2
  <2>4. s \o t = r
    BY <2>1, <2>3, JoinIs
  <2>5. QED
    BY <2>4 DEF s, t, r
<1>9. QED
  BY <1>1, <1>2, <1>3, <1>4, <1>5, <1>6, <1>7, <1>8

\* Steps that are taken only after certain others, and steps with a sequel.
Before(op) ==
    CASE op = "writeAc" -> {"openAc"}
      [] op = "openPc"  -> {"zoomSave"}
      [] op = "writePc" -> {"openPc"}
      [] op = "open"    -> {"toggle", "flip"}
      [] op = "write"   -> {"open"}
      [] op = "toggle"  -> {"ir"}
      [] op \in {"flip", "zoomSave", "move"} -> {"ifOk"}
Bound == {"writeAc", "openPc", "writePc", "open", "write", "toggle", "flip", "zoomSave", "move"}

Sequel(op) ==
    CASE op = "openAc"   -> "writeAc"
      [] op = "zoomSave" -> "openPc"
      [] op = "openPc"   -> "writePc"
      [] op = "open"     -> "write"
      [] op \in {"toggle", "flip"} -> "open"
Leading == {"openAc", "zoomSave", "openPc", "open", "toggle", "flip"}

\* Step k and its arguments fit the steps around it.
Fits(s, k) ==
    /\ s[k].op \in Bound /\ k > 1 => s[k-1].op \in Before(s[k].op)
    /\ s[k].op \in Leading => k < Len(s) /\ s[k+1].op = Sequel(s[k].op)
    /\ s[k].op = "toggle" =>
          k > 1 /\ s[k-1].arg \in BeamerSeqs /\ s[k].arg = ToggleOf(s[k-1].arg)
    /\ s[k].op = "flip" => k > 2 /\ s[k-2].op = "read"
    /\ s[k].op = "ifOk" =>
          /\ s[k].arg \in Nat \ {0} /\ k + s[k].arg <= Len(s)
          /\ s[k + s[k].arg].op # "ifOk"
          /\ k + s[k].arg < Len(s) => s[k + s[k].arg + 1].op \notin Bound \ {"toggle"}
    /\ s[k].op = "within" =>
          /\ s[k].arg \in 1..(k-1) /\ s[k - s[k].arg].op \notin Bound \ {"move"}
          /\ s[k - s[k].arg].op = "ifOk" \/ s[k-1].op = "ifOk"
    /\ s[k].op = "again" =>
          /\ s[k].arg \in 1..(k-2) /\ s[k - s[k].arg].op \notin Bound
          /\ s[k - s[k].arg - 1].op # "ifOk"
    /\ s[k].op \in {"profile", "active"} => s[k].arg \in Profiles \cup Teachable
    /\ s[k].op = "irTeach" => s[k].arg \in Sequences0

Fitting(s) == s \in Seq(StepSet) /\ \A k \in 1..Len(s) : Fits(s, k)
Whole(s) == Fitting(s) /\ (s # <<>> => s[1].op \notin Bound)

\* The sequence t is part of u, behind d other steps.
PartOf(t, u, d) ==
    /\ d + Len(t) <= Len(u)
    /\ \A i \in 1..Len(t) : u[d + i] = t[i]
    /\ t[1].op \in Bound => d = 0 \/ u[d].op \in Before(t[1].op)
    /\ d + Len(t) < Len(u) => u[d + Len(t) + 1].op \notin Bound \ {"toggle"}

\* A step that fits keeps to fit when its sequence becomes part of another.
LEMMA FitsMoved ==
    ASSUME NEW t \in Seq(StepSet), NEW u \in Seq(StepSet), NEW d \in Nat,
           NEW k \in 1..Len(t), Fits(t, k), PartOf(t, u, d)
    PROVE  Fits(u, d + k)
<1> DEFINE K == d + k
           a == t[k].arg
<1>1. /\ Len(t) \in Nat /\ Len(u) \in Nat /\ K \in 1..Len(u) /\ u[K] = t[k]
      /\ d + Len(t) <= Len(u)
  BY LenProperties DEF PartOf
<1>2. \A i \in Int : i >= 1 /\ i <= Len(t) => u[d + i] = t[i]
  BY DEF PartOf
<1> HIDE DEF K, a
<1>3. K = d + k /\ k \in Nat /\ k >= 1 /\ k <= Len(t) /\ K \in Nat
  BY <1>1 DEF K
<1>4. k > 1 => u[K-1] = t[k-1]
  <2>1. K - 1 = d + (k - 1) /\ k - 1 \in Int
    BY <1>3
  <2>2. QED
    BY <1>2, <1>3, <2>1
<1>5. k > 2 => u[K-2] = t[k-2]
  <2>1. K - 2 = d + (k - 2) /\ k - 2 \in Int
    BY <1>3
  <2>2. QED
    BY <1>2, <1>3, <2>1
<1>6. k < Len(t) => u[K+1] = t[k+1]
  <2>1. K + 1 = d + (k + 1) /\ k + 1 \in Int
    BY <1>3
  <2>2. QED
    BY <1>1, <1>2, <1>3, <2>1
<1>7. u[K].op \in Bound /\ K > 1 => u[K-1].op \in Before(u[K].op)
  <2>1. CASE k > 1
    BY <1>1, <1>3, <1>4, <2>1 DEF Fits
  <2>2. CASE k = 1
    <3>1. K - 1 = d /\ u[K] = t[1]
      BY <1>1, <1>3, <2>2
    <3>2. t[1].op \in Bound /\ d # 0 => u[d].op \in Before(t[1].op)
      BY DEF PartOf
    <3>3. K > 1 => d # 0
      BY <1>3, <2>2
    <3>4. QED
      BY <3>1, <3>2, <3>3
  <2>3. QED
    BY <1>3, <2>1, <2>2
<1>8. u[K].op \in Leading => K < Len(u) /\ u[K+1].op = Sequel(u[K].op)
  BY <1>1, <1>3, <1>6 DEF Fits
<1>9. /\ u[K].op = "toggle" =>
            K > 1 /\ u[K-1].arg \in BeamerSeqs /\ u[K].arg = ToggleOf(u[K-1].arg)
      /\ u[K].op = "flip" => K > 2 /\ u[K-2].op = "read"
  BY <1>1, <1>3, <1>4, <1>5 DEF Fits
<1>10. ASSUME t[k].op = "ifOk"
       PROVE  /\ a \in Nat \ {0} /\ K + a <= Len(u) /\ u[K + a].op # "ifOk"
              /\ K + a < Len(u) => u[K + a + 1].op \notin Bound \ {"toggle"}
  <2>1. /\ a \in Nat \ {0} /\ k + a <= Len(t) /\ t[k + a].op # "ifOk"
        /\ k + a < Len(t) => t[k + a + 1].op \notin Bound \ {"toggle"}
    BY <1>10 DEF Fits, a
  <2>2. /\ K + a = d + (k + a) /\ k + a \in Int /\ k + a >= 1
        /\ K + a + 1 = d + (k + a + 1) /\ k + a + 1 \in Int
    BY <1>3, <2>1
  <2>3. u[K + a] = t[k + a] /\ (k + a < Len(t) => u[K + a + 1] = t[k + a + 1])
    <3>1. u[d + (k + a)] = t[k + a]
      BY <1>2, <2>1, <2>2
    <3>2. k + a < Len(t) => k + a + 1 >= 1 /\ k + a + 1 <= Len(t)
      BY <1>1, <2>2
    <3>3. k + a < Len(t) => u[d + (k + a + 1)] = t[k + a + 1]
      BY <1>2, <2>2, <3>2
    <3>4. QED
      BY <2>2, <3>1, <3>3
  <2>4. k + a = Len(t) => K + a + 1 = d + Len(t) + 1 /\ K + a = d + Len(t)
    BY <1>3, <2>1
  <2>5. K + a <= Len(u) /\ k + a \in Nat
    <3>1. a \in Nat /\ k + a <= Len(t)
      BY <2>1
    <3> HIDE <2>1
    <3>2. d + (k + a) <= d + Len(t) /\ d + (k + a) = K + a
      BY <1>1, <1>3, <3>1
    <3>3. QED
      BY <1>1, <1>3, <3>1, <3>2
  <2>6. K + a < Len(u) => u[K + a + 1].op \notin Bound \ {"toggle"}
    <3>1. CASE k + a < Len(t)
      BY <2>1, <2>3, <3>1
    <3>2. CASE k + a = Len(t)
      BY <2>4, <3>2 DEF PartOf
    <3>3. QED
      BY <1>1, <2>1, <2>5, <3>1, <3>2
  <2>7. QED
    BY <2>1, <2>3, <2>5, <2>6
<1>11. ASSUME t[k].op = "within"
       PROVE  /\ a \in 1..(K-1) /\ u[K - a].op \notin Bound \ {"move"}
              /\ u[K - a].op = "ifOk" \/ u[K-1].op = "ifOk"
  <2>1. /\ a \in 1..(k-1) /\ t[k - a].op \notin Bound \ {"move"}
        /\ t[k - a].op = "ifOk" \/ t[k-1].op = "ifOk"
    BY <1>11 DEF Fits, a
  <2>2. a \in Int /\ a >= 1 /\ a <= k - 1
    BY <1>3, <2>1
  <2>3. K - a = d + (k - a) /\ k - a \in Int /\ k - a >= 1 /\ k - a <= Len(t)
    BY <1>3, <2>2
  <2>4. u[K - a] = t[k - a]
    BY <1>2, <2>3
  <2>5. QED
    BY <1>3, <1>4, <2>1, <2>2, <2>4
<1>12. ASSUME t[k].op = "again"
       PROVE  /\ a \in 1..(K-2) /\ u[K - a].op \notin Bound
              /\ u[K - a - 1].op # "ifOk"
  <2>1. /\ a \in 1..(k-2) /\ t[k - a].op \notin Bound /\ t[k - a - 1].op # "ifOk"
    BY <1>12 DEF Fits, a
  <2>2. a \in Int /\ a >= 1 /\ a <= k - 2
    BY <1>3, <2>1
  <2>3. /\ K - a = d + (k - a) /\ k - a \in Int /\ k - a >= 1 /\ k - a <= Len(t)
        /\ K - a - 1 = d + (k - a - 1)
    BY <1>3, <2>2
  <2>4. k - a - 1 \in Int /\ k - a - 1 >= 1 /\ k - a - 1 <= Len(t)
    BY <1>3, <2>2
  <2>5. u[K - a] = t[k - a] /\ u[K - a - 1] = t[k - a - 1]
    BY <1>2, <2>3, <2>4
  <2>6. QED
    BY <1>3, <2>1, <2>2, <2>5
<1>13. /\ u[K].op \in {"profile", "active"} => u[K].arg \in Profiles \cup Teachable
       /\ u[K].op = "irTeach" => u[K].arg \in Sequences0
  BY <1>1 DEF Fits
<1>14. Fits(u, K)
  BY <1>1, <1>7, <1>8, <1>9, <1>10, <1>11, <1>12, <1>13 DEF Fits, a
<1>15. QED
  BY <1>14 DEF K

\* Whole sequences one after the other are a whole one.
LEMMA WholeConcat ==
    ASSUME NEW s, NEW t, Whole(s), Whole(t)
    PROVE  Whole(s \o t)
<1> DEFINE u == s \o t
<1>1. s \in Seq(StepSet) /\ t \in Seq(StepSet) /\ Len(s) \in Nat /\ Len(t) \in Nat
  BY LenProperties DEF Whole, Fitting
<1>2. /\ u \in Seq(StepSet) /\ Len(u) = Len(s) + Len(t)
      /\ \A i \in 1..Len(s) : u[i] = s[i]
      /\ \A i \in 1..Len(t) : u[Len(s) + i] = t[i]
  BY <1>1, ConcatProperties
<1>3. /\ \A i \in 1..Len(s) : Fits(s, i)
      /\ \A i \in 1..Len(t) : Fits(t, i)
      /\ Len(t) > 0 => t[1].op \notin Bound /\ u[Len(s) + 1] = t[1]
      /\ Len(s) > 0 => s[1].op \notin Bound /\ u[1] = s[1]
  BY <1>1, <1>2 DEF Whole, Fitting
<1> HIDE DEF u
<1>4. ASSUME NEW k \in 1..Len(s) PROVE Fits(u, k)
  <2>1. PartOf(s, u, 0)
    BY <1>1, <1>2, <1>3 DEF PartOf
  <2>2. Fits(u, 0 + k)
    BY <1>1, <1>2, <1>3, <2>1, FitsMoved
  <2>3. QED
    BY <2>2
<1>5. ASSUME NEW k \in (Len(s) + 1)..Len(u) PROVE Fits(u, k)
  <2>1. k - Len(s) \in 1..Len(t) /\ k = Len(s) + (k - Len(s))
    BY <1>1, <1>2
  <2>2. PartOf(t, u, Len(s))
    BY <1>1, <1>2, <1>3 DEF PartOf
  <2>3. Fits(u, Len(s) + (k - Len(s)))
    BY <1>1, <1>2, <1>3, <2>1, <2>2, FitsMoved
  <2>4. QED
    BY <2>1, <2>3
<1>6. u # <<>> => u[1].op \notin Bound
  BY <1>1, <1>2, <1>3
<1>7. \A k \in 1..Len(u) : Fits(u, k)
  BY <1>1, <1>2, <1>4, <1>5
<1>8. QED
  BY <1>2, <1>6, <1>7 DEF Whole, Fitting, u

\* A guard over a whole sequence, or over one that needs just that.
LEMMA WholeGuarded ==
    ASSUME NEW s, Fitting(s), s # <<>>, s[1].op \notin Bound \ {"move", "zoomSave"}
    PROVE  Whole(<<IfOk(Len(s))>> \o s)
<1> DEFINE p == <<IfOk(Len(s))>>
           u == p \o s
<1>1. s \in Seq(StepSet) /\ Len(s) \in Nat \ {0}
  BY LenProperties DEF Fitting
<1>2. p \in Seq(StepSet) /\ Len(p) = 1 /\ p[1] = IfOk(Len(s))
  BY <1>1 DEF IfOk, Step, StepSet, Ops
<1> HIDE DEF p
<1>3. /\ u \in Seq(StepSet) /\ Len(u) = 1 + Len(s) /\ u[1] = IfOk(Len(s))
      /\ \A i \in 1..Len(s) : u[1 + i] = s[i]
  <2>1. /\ u \in Seq(StepSet) /\ Len(u) = Len(p) + Len(s)
        /\ \A i \in 1..Len(p) : u[i] = p[i]
        /\ \A i \in 1..Len(s) : u[Len(p) + i] = s[i]
    BY <1>1, <1>2, Concatenated
  <2> HIDE DEF u
  <2>2. u[1] = p[1]
    BY <1>2, <2>1
  <2>3. QED
    BY <1>2, <2>1, <2>2
<1> HIDE DEF u
<1>4. u[1].op = "ifOk" /\ u[1].arg = Len(s) /\ 1 + Len(s) <= Len(u)
  BY <1>3, <1>1 DEF IfOk, Step
<1>5. PartOf(s, u, 1)
  BY <1>1, <1>3, <1>4 DEF PartOf, Bound, Before
<1>6. ASSUME NEW k \in 1..Len(s) PROVE Fits(u, 1 + k)
  BY <1>1, <1>3, <1>5, FitsMoved DEF Fitting
<1>7. s[Len(s)].op # "ifOk"
  BY <1>1 DEF Fitting, Fits
<1>8. Fits(u, 1)
  BY <1>1, <1>3, <1>4, <1>7 DEF Fits, Bound, Leading
<1>9. \A k \in 1..Len(u) : k = 1 \/ k - 1 \in 1..Len(s)
  BY <1>1, <1>3
<1>10. \A k \in 1..Len(u) : k = 1 + (k - 1)
  BY <1>1, <1>3
<1>11. \A k \in 1..Len(u) : Fits(u, k)
  BY <1>6, <1>8, <1>9, <1>10
<1>12. QED
  BY <1>3, <1>4, <1>11 DEF Whole, Fitting, Bound, u, p

\* A loop over a whole sequence that begins with a guard.
LEMMA WholeWithin ==
    ASSUME NEW s, Whole(s), s # <<>>, s[1].op = "ifOk"
    PROVE  Whole(s \o <<Step("within", Len(s)), Forget>>)
<1> DEFINE p == <<Step("within", Len(s)), Forget>>
           u == s \o p
<1>1. s \in Seq(StepSet) /\ Len(s) \in Nat \ {0}
  BY LenProperties DEF Whole, Fitting
<1>2. /\ p \in Seq(StepSet) /\ Len(p) = 2
      /\ p[1] = Step("within", Len(s)) /\ p[2] = Forget
  BY <1>1 DEF Forget, Step, StepSet, Ops
<1> HIDE DEF p
<1>3. /\ u \in Seq(StepSet) /\ Len(u) = Len(s) + 2
      /\ \A i \in 1..Len(s) : u[i] = s[i]
      /\ u[Len(s) + 1] = Step("within", Len(s)) /\ u[Len(s) + 2] = Forget
  <2>1. /\ u \in Seq(StepSet) /\ Len(u) = Len(s) + 2
        /\ \A i \in 1..(Len(s) + 2) : u[i] = IF i <= Len(s) THEN s[i] ELSE p[i - Len(s)]
    <3>1. /\ u \in Seq(StepSet) /\ Len(u) = Len(s) + Len(p)
          /\ \A i \in 1..(Len(s) + Len(p)) :
                u[i] = IF i <= Len(s) THEN s[i] ELSE p[i - Len(s)]
      BY <1>1, <1>2, ConcatProperties, Zenon
    <3>2. Len(s) + Len(p) = Len(s) + 2
      BY <1>2
    <3>3. QED
      BY <3>1, <3>2, Zenon
  <2>2. /\ Len(s) + 1 \in 1..(Len(s) + 2) /\ Len(s) + 1 - Len(s) = 1
        /\ Len(s) + 2 \in 1..(Len(s) + 2) /\ Len(s) + 2 - Len(s) = 2
    BY <1>1
  <2> HIDE DEF u
  <2>3. u[Len(s) + 1] = p[1] /\ u[Len(s) + 2] = p[2]
    BY <1>1, <2>1, <2>2
  <2>4. QED
    BY <1>1, <1>2, <2>1, <2>3
<1> HIDE DEF u
<1>4. PartOf(s, u, 0)
  BY <1>1, <1>3 DEF PartOf, Step, Bound
<1>5. ASSUME NEW k \in 1..Len(s) PROVE Fits(u, 0 + k)
  BY <1>1, <1>3, <1>4, FitsMoved DEF Whole, Fitting
<1>6. Fits(u, Len(s) + 1)
  <2>1. u[Len(s) + 1 - Len(s)] = s[1]
    BY <1>1, <1>3
  <2>2. u[Len(s) + 1].op = "within" /\ u[Len(s) + 1].arg = Len(s)
    BY <1>3 DEF Step
  <2>3. Len(s) \in 1..(Len(s) + 1 - 1)
    BY <1>1
  <2>4. QED
    BY <2>1, <2>2, <2>3 DEF Fits, Bound, Leading
<1>7. Fits(u, Len(s) + 2)
  BY <1>3 DEF Fits, Bound, Leading, Forget, Step
<1>8. \A k \in 1..Len(u) : k \in 1..Len(s) \/ k = Len(s) + 1 \/ k = Len(s) + 2
  BY <1>1, <1>3
<1>9. \A k \in 1..Len(u) : Fits(u, k)
  BY <1>5, <1>6, <1>7, <1>8
<1>10. u[1].op = "ifOk"
  BY <1>1, <1>3
<1>11. QED
  BY <1>3, <1>9, <1>10 DEF Whole, Fitting, Bound, u, p

\* Steps that go with any others.
Plain == {s \in StepSet :
            /\ s.op \notin Bound \cup Leading \cup {"ifOk", "within", "again"}
            /\ s.op \in {"profile", "active"} => s.arg \in Profiles \cup Teachable
            /\ s.op = "irTeach" => s.arg \in Sequences0}

LEMMA WholePlain == \A s \in Seq(Plain) : Whole(s)
<1> SUFFICES ASSUME NEW s \in Seq(Plain) PROVE Whole(s)
  OBVIOUS
<1>1. s \in Seq(StepSet) /\ Len(s) \in Nat /\ \A k \in 1..Len(s) : s[k] \in Plain
  BY LenProperties, ElementOfSeq DEF Plain
<1>2. ASSUME NEW k \in 1..Len(s) PROVE Fits(s, k)
  <2>1. /\ s[k].op \notin Bound /\ s[k].op \notin Leading
        /\ s[k].op \notin {"ifOk", "within", "again"}
        /\ s[k].op \in {"profile", "active"} => s[k].arg \in Profiles \cup Teachable
        /\ s[k].op = "irTeach" => s[k].arg \in Sequences0
    BY <1>1 DEF Plain
  <2>2. s[k].op # "toggle" /\ s[k].op # "flip"
    BY <2>1 DEF Bound
  <2>3. QED
    BY <2>1, <2>2 DEF Fits
<1>3. QED
  BY <1>1, <1>2 DEF Whole, Fitting, Plain

Open == Step("open", 0)
WriteIt == Step("write", 0)
OpenAc == Step("openAc", 0)
WriteAc == Step("writeAc", 0)

LEMMA PlainSteps ==
    /\ \A p \in Profiles \cup Teachable : Profile(p) \in Plain /\ Step("active", p) \in Plain
    /\ \A q \in Int : Ir(q) \in Plain
    /\ Audio \in Plain /\ IrInit \in Plain /\ PcInit \in Plain /\ Forget \in Plain
    /\ Step("read", 0) \in Plain
    /\ \A q \in {0, 5} : Step("irTeach", q) \in Plain
    /\ Step("last", "SHUTDOWN") \in Plain /\ Step("last", "WRONG_ARG") \in Plain
  BY TeachableAssumption DEF Plain, StepSet, Ops, Bound, Leading, Profile, Step, Ir, Audio,
     IrInit, PcInit, Forget, Profiles, AC_SLIDERSHOW, AC_VIDEO_CLIP, Sequences0, NUM_SEQ

\* The groups of steps that belong together.
LEMMA WholeSwitch ==
    ASSUME NEW n \in {1, 4}, NEW q \in BeamerSeqs
    PROVE  Whole(<<IfOk(n), Ir(q), Step("toggle", ToggleOf(q)), Open, WriteIt>>)
<1> DEFINE s == <<IfOk(n), Ir(q), Step("toggle", ToggleOf(q)), Open, WriteIt>>
<1>1. /\ ToggleOf(q) \in 0..2 /\ q \in Int
  BY DEF BeamerSeqs, ToggleOf
<1>2. s \in Seq(StepSet) /\ Len(s) = 5
  BY <1>1 DEF IfOk, Ir, Step, Open, WriteIt, StepSet, Ops
<1>3. /\ s[1].op = "ifOk" /\ s[1].arg = n /\ s[2].op = "ir" /\ s[2].arg = q
      /\ s[3].op = "toggle" /\ s[3].arg = ToggleOf(q)
      /\ s[4].op = "open" /\ s[5].op = "write"
  BY DEF IfOk, Ir, Step, Open, WriteIt
<1> HIDE DEF s
<1>4. Fits(s, 1)
  BY <1>2, <1>3 DEF Fits, Bound, Leading
<1>5. Fits(s, 2)
  BY <1>2, <1>3 DEF Fits, Bound, Leading
<1>6. Fits(s, 3)
  BY <1>2, <1>3 DEF Fits, Before, Sequel
<1>7. Fits(s, 4)
  BY <1>2, <1>3 DEF Fits, Before, Sequel
<1>8. Fits(s, 5)
  BY <1>2, <1>3 DEF Fits, Before, Leading
<1>9. s[1].op \notin Bound
  BY <1>3 DEF Bound
<1>10. Whole(s)
  BY <1>2, <1>4, <1>5, <1>6, <1>7, <1>8, <1>9 DEF Whole, Fitting
<1>11. QED
  BY <1>10 DEF s

LEMMA WholeToggle ==
    Whole(<<IrInit, Step("read", 0), IfOk(3), Step("flip", 0), Open, WriteIt>>)
<1> DEFINE s == <<IrInit, Step("read", 0), IfOk(3), Step("flip", 0), Open, WriteIt>>
<1>1. s \in Seq(StepSet) /\ Len(s) = 6
  BY DEF IfOk, IrInit, Step, Open, WriteIt, StepSet, Ops
<1>2. /\ s[1].op = "irInit" /\ s[2].op = "read" /\ s[3].op = "ifOk" /\ s[3].arg = 3
      /\ s[4].op = "flip" /\ s[5].op = "open" /\ s[6].op = "write"
  BY DEF IfOk, IrInit, Step, Open, WriteIt
<1> HIDE DEF s
<1>3. Fits(s, 1) /\ Fits(s, 2)
  BY <1>1, <1>2 DEF Fits, Bound, Leading
<1>4. Fits(s, 3)
  BY <1>1, <1>2 DEF Fits, Bound, Leading
<1>5. Fits(s, 4)
  BY <1>1, <1>2 DEF Fits, Before, Sequel
<1>6. Fits(s, 5)
  BY <1>1, <1>2 DEF Fits, Before, Sequel
<1>7. Fits(s, 6)
  BY <1>1, <1>2 DEF Fits, Before, Leading
<1>8. s[1].op \notin Bound
  BY <1>2 DEF Bound
<1>9. Whole(s)
  BY <1>1, <1>3, <1>4, <1>5, <1>6, <1>7, <1>8 DEF Whole, Fitting
<1>10. QED
  BY <1>9 DEF s

LEMMA WholeSave == Whole(SaveProfiles)
<1>1. SaveProfiles \in Seq(StepSet) /\ Len(SaveProfiles) = 2
  BY DEF SaveProfiles, Step, StepSet, Ops
<1>2. SaveProfiles[1].op = "openAc" /\ SaveProfiles[2].op = "writeAc"
  BY DEF SaveProfiles, Step
<1>3. Fits(SaveProfiles, 1)
  BY <1>1, <1>2 DEF Fits, Bound, Sequel
<1>4. Fits(SaveProfiles, 2)
  BY <1>1, <1>2 DEF Fits, Before, Leading
<1>5. QED
  BY <1>1, <1>2, <1>3, <1>4 DEF Whole, Fitting, Bound

LEMMA WholeTeach ==
    ASSUME NEW p \in Teachable
    PROVE  Whole(<<IfOk(4), Profile(p), IfOk(2), OpenAc, WriteAc>>)
<1> DEFINE s == <<IfOk(4), Profile(p), IfOk(2), OpenAc, WriteAc>>
<1>1. s \in Seq(StepSet) /\ Len(s) = 5
  BY TeachableAssumption DEF IfOk, Profile, Step, OpenAc, WriteAc, StepSet, Ops
<1>2. /\ s[1].op = "ifOk" /\ s[1].arg = 4 /\ s[2].op = "profile" /\ s[2].arg = p
      /\ s[3].op = "ifOk" /\ s[3].arg = 2 /\ s[4].op = "openAc" /\ s[5].op = "writeAc"
  BY DEF IfOk, Profile, Step, OpenAc, WriteAc
<1> HIDE DEF s
<1>3. Fits(s, 1)
  BY <1>1, <1>2 DEF Fits, Bound, Leading
<1>4. Fits(s, 2)
  BY <1>1, <1>2 DEF Fits, Bound, Leading
<1>5. Fits(s, 3)
  BY <1>1, <1>2 DEF Fits, Bound, Leading
<1>6. Fits(s, 4)
  BY <1>1, <1>2 DEF Fits, Bound, Sequel
<1>7. Fits(s, 5)
  BY <1>1, <1>2 DEF Fits, Before, Leading
<1>8. s[1].op \notin Bound
  BY <1>2 DEF Bound
<1>9. Whole(s)
  BY <1>1, <1>3, <1>4, <1>5, <1>6, <1>7, <1>8 DEF Whole, Fitting
<1>10. QED
  BY <1>9 DEF s

LEMMA FittingTestPos == Fitting(PC_Test_Pos) /\ Len(PC_Test_Pos) = 4
<1> DEFINE s == PC_Test_Pos
<1>1. s \in Seq(StepSet) /\ Len(s) = 4
  BY DEF PC_Test_Pos, Move, Forget, IfOk, Step, StepSet, Ops
<1>2. /\ s[1].op = "move" /\ s[2].op = "ifOk" /\ s[2].arg = 1
      /\ s[3].op = "within" /\ s[3].arg = 2 /\ s[4].op = "forget"
  BY DEF PC_Test_Pos, Move, Forget, IfOk, Step
<1> HIDE DEF s
<1>3. Fits(s, 1) /\ Fits(s, 4)
  BY <1>1, <1>2 DEF Fits, Before, Leading, Bound
<1>4. Fits(s, 2)
  BY <1>1, <1>2 DEF Fits, Bound, Leading
<1>5. Fits(s, 3)
  BY <1>1, <1>2 DEF Fits, Bound, Leading
<1>6. QED
  BY <1>1, <1>3, <1>4, <1>5 DEF Fitting, s

LEMMA FittingPcTeach == Fitting(PC_Teach) /\ Len(PC_Teach) = 3
<1> DEFINE s == PC_Teach
<1>1. s \in Seq(StepSet) /\ Len(s) = 3
  BY DEF PC_Teach, Step, StepSet, Ops
<1>2. s[1].op = "zoomSave" /\ s[2].op = "openPc" /\ s[3].op = "writePc"
  BY DEF PC_Teach, Step
<1> HIDE DEF s
<1>3. Fits(s, 1)
  BY <1>1, <1>2 DEF Fits, Before, Sequel
<1>4. Fits(s, 2)
  BY <1>1, <1>2 DEF Fits, Before, Sequel
<1>5. Fits(s, 3)
  BY <1>1, <1>2 DEF Fits, Before, Leading
<1>6. QED
  BY <1>1, <1>3, <1>4, <1>5 DEF Fitting, s

LEMMA StepTypes ==
    /\ Plain \subseteq StepSet
    /\ \A n \in Int : IfOk(n) \in StepSet /\ Step("toggle", n) \in StepSet
    /\ Open \in StepSet /\ WriteIt \in StepSet /\ OpenAc \in StepSet /\ WriteAc \in StepSet
    /\ Move \in StepSet /\ Step("flip", 0) \in StepSet
  BY DEF Plain, IfOk, Step, Open, WriteIt, OpenAc, WriteAc, Move, StepSet, Ops

LEMMA WholeOne == \A x \in Plain : Whole(<<x>>)
<1> SUFFICES ASSUME NEW x \in Plain PROVE Whole(<<x>>)
  OBVIOUS
<1>1. <<x>> \in Seq(Plain)
  OBVIOUS
<1>2. QED
  BY <1>1, WholePlain

LEMMA WholeTwo == \A x, y \in Plain : Whole(<<x, y>>)
<1> SUFFICES ASSUME NEW x \in Plain, NEW y \in Plain PROVE Whole(<<x, y>>)
  OBVIOUS
<1>1. <<x, y>> \in Seq(Plain)
  OBVIOUS
<1>2. QED
  BY <1>1, WholePlain

\* A single step under a guard.
LEMMA WholeIfOk == \A x \in Plain \cup {Move} : Whole(<<IfOk(1), x>>)
<1> SUFFICES ASSUME NEW x \in Plain \cup {Move} PROVE Whole(<<IfOk(1), x>>)
  OBVIOUS
<1> DEFINE s == <<x>>
<1>1. x \in StepSet /\ IfOk(1) \in StepSet
  BY StepTypes
<1>2. s \in Seq(StepSet) /\ Len(s) = 1 /\ s[1] = x /\ s # <<>>
  BY <1>1
<1>3. x = Move => x.op = "move"
  BY DEF Move, Step
<1>4. x \in Plain => Whole(s)
  BY WholeOne
<1> HIDE DEF s
<1>5. x = Move => Fits(s, 1)
  BY <1>2, <1>3 DEF Fits, Before, Leading
<1>6. Fitting(s) /\ x.op \notin Bound \ {"move", "zoomSave"}
  <2>1. CASE x \in Plain
    BY <1>2, <1>4, <2>1 DEF Whole, Plain
  <2>2. CASE x = Move
    BY <1>2, <1>3, <1>5, <2>2 DEF Fitting
  <2>3. QED
    BY <2>1, <2>2
<1>7. Whole(<<IfOk(Len(s))>> \o s)
  BY <1>2, <1>6, WholeGuarded
<1>8. <<IfOk(1)>> \o <<x>> = <<IfOk(1), x>>
  BY <1>1, Joined
<1>9. QED
  BY <1>2, <1>7, <1>8 DEF s

LEMMA WholeView ==
    ASSUME NEW a \in Profiles \cup Teachable, NEW q \in Int
    PROVE  Whole(View(a, q))
<1>1. /\ Profile(a) \in Plain /\ IrInit \in Plain /\ Ir(q) \in Plain
      /\ IfOk(1) \in StepSet /\ Plain \subseteq StepSet
  BY PlainSteps, StepTypes
<1>2. Whole(<<Profile(a), IrInit>>) /\ Whole(<<IfOk(1), Ir(q)>>)
  BY <1>1, WholeTwo, WholeIfOk
<1>3. <<Profile(a), IrInit>> \o <<IfOk(1), Ir(q)>> = View(a, q)
  BY <1>1, Joined DEF View
<1>4. QED
  BY <1>2, <1>3, WholeConcat

LEMMA WholeDevice ==
    ASSUME NEW x \in Plain
    PROVE  Whole(<<IrInit, IfOk(1), x>>)
<1>1. IrInit \in Plain /\ IfOk(1) \in StepSet /\ Plain \subseteq StepSet
  BY PlainSteps, StepTypes
<1>2. Whole(<<IrInit>>) /\ Whole(<<IfOk(1), x>>)
  BY <1>1, WholeOne, WholeIfOk
<1>3. <<IrInit>> \o <<IfOk(1), x>> = <<IrInit, IfOk(1), x>>
  BY <1>1, Joined
<1>4. QED
  BY <1>2, <1>3, WholeConcat

LEMMA WholeSwitchBeamer ==
    ASSUME NEW n \in {1, 4}, NEW q \in BeamerSeqs
    PROVE  Whole(<<IfOk(n), Ir(q), Step("toggle", ToggleOf(q))>> \o Save)
<1>1. ToggleOf(q) \in Int /\ q \in Int
  BY DEF BeamerSeqs, ToggleOf
<1>2. /\ Ir(q) \in StepSet /\ IfOk(n) \in StepSet /\ Step("toggle", ToggleOf(q)) \in StepSet
      /\ Open \in StepSet /\ WriteIt \in StepSet
  BY <1>1, PlainSteps, StepTypes
<1>3. <<IfOk(n), Ir(q), Step("toggle", ToggleOf(q))>> \o <<Open, WriteIt>>
         = <<IfOk(n), Ir(q), Step("toggle", ToggleOf(q)), Open, WriteIt>>
  BY <1>2, Joined
<1>4. Save = <<Open, WriteIt>>
  BY DEF Save, Open, WriteIt
<1>5. QED
  BY <1>3, <1>4, WholeSwitch

LEMMA WholeSequencer ==
    ASSUME NEW a \in Profiles, NEW c \in Int
    PROVE  Whole(PC_Sequencer(a, c))
<1>1. /\ Profile(a) \in Plain /\ Ir(c) \in Plain /\ Ir(2) \in Plain
      /\ IfOk(1) \in StepSet /\ Move \in StepSet /\ Plain \subseteq StepSet
  BY PlainSteps, StepTypes
<1>2. /\ Whole(<<Profile(a)>>) /\ Whole(<<IfOk(1), Ir(c)>>) /\ Whole(<<IfOk(1), Move>>)
      /\ Whole(<<IfOk(1), Ir(2)>>)
  BY <1>1, WholeOne, WholeIfOk
<1>3. Whole(<<Profile(a), IfOk(1), Ir(c)>>)
  <2>1. <<Profile(a)>> \o <<IfOk(1), Ir(c)>> = <<Profile(a), IfOk(1), Ir(c)>>
    BY <1>1, Joined
  <2>2. QED
    BY <1>2, <2>1, WholeConcat
<1>4. Whole(<<Profile(a), IfOk(1), Ir(c), IfOk(1), Move>>)
  <2>1. <<Profile(a), IfOk(1), Ir(c)>> \o <<IfOk(1), Move>>
           = <<Profile(a), IfOk(1), Ir(c), IfOk(1), Move>>
    BY <1>1, Joined
  <2>2. QED
    BY <1>2, <1>3, <2>1, WholeConcat
<1>5. Whole(<<>>)
  <2>1. <<>> \in Seq(Plain)
    OBVIOUS
  <2>2. QED
    BY <2>1, WholePlain
<1>6. Whole(IF c = 2 THEN <<>> ELSE <<IfOk(1), Ir(2)>>)
  BY <1>2, <1>5
<1>7. QED
  BY <1>4, <1>6, WholeConcat DEF PC_Sequencer

\* A sequence that is not empty begins as it did when another one follows.
LEMMA BeginsWith ==
    ASSUME NEW s \in Seq(StepSet), NEW t \in Seq(StepSet), s # <<>>
    PROVE  s \o t # <<>> /\ (s \o t)[1] = s[1]
<1>1. Len(s) \in Nat \ {0} /\ Len(t) \in Nat
  BY LenProperties
<1>2. Len(s \o t) = Len(s) + Len(t) /\ (s \o t)[1] = s[1]
  BY <1>1, ConcatProperties
<1>3. Len(s \o t) # 0
  BY <1>1, <1>2
<1>4. QED
  BY <1>2, <1>3

\* One turn of the test of the mount.
Turn(a, c) == <<IfOk(Len(PC_Sequencer(a, c)))>> \o PC_Sequencer(a, c)
Round == Turn(AC_SLIDERSHOW, 0) \o Turn(AC_WORSHIP, 1) \o Turn(AC_PREACHING, 2)
            \o Turn(AC_TEXT, 3) \o Turn(AC_BAND, 1)

LEMMA SequencerBegins ==
    ASSUME NEW a \in Profiles, NEW c \in Int
    PROVE  /\ PC_Sequencer(a, c) \in Seq(StepSet) /\ PC_Sequencer(a, c) # <<>>
           /\ PC_Sequencer(a, c)[1] = Profile(a)
<1> DEFINE s == <<Profile(a), IfOk(1), Ir(c), IfOk(1), Move>>
           t == IF c = 2 THEN <<>> ELSE <<IfOk(1), Ir(2)>>
<1>1. /\ Profile(a) \in StepSet /\ Ir(c) \in StepSet /\ Ir(2) \in StepSet
      /\ IfOk(1) \in StepSet /\ Move \in StepSet
  BY PlainSteps, StepTypes
<1>2. s \in Seq(StepSet) /\ s # <<>> /\ s[1] = Profile(a)
  BY <1>1
<1>3. t \in Seq(StepSet)
  BY <1>1
<1>4. PC_Sequencer(a, c) = s \o t
  BY DEF PC_Sequencer
<1> HIDE DEF s, t
<1>5. QED
  BY <1>2, <1>3, <1>4, BeginsWith, ConcatProperties

LEMMA WholeTurn ==
    ASSUME NEW a \in Profiles, NEW c \in Int
    PROVE  Whole(Turn(a, c)) /\ Turn(a, c) # <<>> /\ Turn(a, c)[1].op = "ifOk"
<1> DEFINE s == PC_Sequencer(a, c)
           p == <<IfOk(Len(s))>>
<1>1. s \in Seq(StepSet) /\ s # <<>> /\ Whole(s)
  BY SequencerBegins, WholeSequencer
<1>2. Whole(Turn(a, c))
  BY <1>1, WholeGuarded DEF Whole, Turn
<1>3. Len(s) \in Int
  BY <1>1, LenProperties
<1> HIDE DEF s
<1>4. p \in Seq(StepSet) /\ p # <<>> /\ p[1] = IfOk(Len(s))
  BY <1>3, StepTypes
<1>5. IfOk(Len(s)).op = "ifOk"
  BY DEF IfOk, Step
<1>6. Turn(a, c) = p \o s
  BY DEF Turn, s
<1> HIDE DEF p
<1>7. QED
  BY <1>1, <1>2, <1>4, <1>5, <1>6, BeginsWith

LEMMA WholeRound == Whole(Round) /\ Round # <<>> /\ Round[1].op = "ifOk"
<1>1. {AC_SLIDERSHOW, AC_WORSHIP, AC_PREACHING, AC_TEXT, AC_BAND} \subseteq Profiles
  BY DEF AC_SLIDERSHOW, AC_WORSHIP, AC_PREACHING, AC_TEXT, AC_BAND, AC_VIDEO_CLIP, Profiles
<1> DEFINE Good(s) == Whole(s) /\ s # <<>> /\ s[1].op = "ifOk"
<1>2. /\ Good(Turn(AC_SLIDERSHOW, 0)) /\ Good(Turn(AC_WORSHIP, 1))
      /\ Good(Turn(AC_PREACHING, 2)) /\ Good(Turn(AC_TEXT, 3)) /\ Good(Turn(AC_BAND, 1))
  BY <1>1, WholeTurn
<1>3. ASSUME NEW s, NEW t, Good(s), Good(t) PROVE Good(s \o t)
  BY <1>3, WholeConcat, BeginsWith DEF Whole, Fitting
<1> HIDE DEF Good
<1>4. Good(Round)
  BY <1>2, <1>3 DEF Round
<1>5. QED
  BY <1>4 DEF Good

LEMMA PcTestIs == PC_Test = Round \o <<Step("within", Len(Round)), Forget>>
  BY DEF PC_Test, Round, Turn

LEMMA WholeOnCamera ==
    ASSUME NEW s, Fitting(s), s # <<>>, s[1].op \notin Bound \ {"move", "zoomSave"}
    PROVE  Whole(OnCamera(s))
<1> DEFINE n == Len(s)
<1>1. s \in Seq(StepSet) /\ n \in Int
  BY LenProperties DEF Fitting
<1>2. /\ IrInit \in Plain /\ Ir(2) \in Plain /\ PcInit \in Plain /\ Plain \subseteq StepSet
      /\ IfOk(1) \in StepSet /\ IfOk(n) \in StepSet
  BY <1>1, PlainSteps, StepTypes
<1> HIDE DEF n
<1> DEFINE p == <<IrInit, IfOk(1), Ir(2), PcInit>>
<1>3. Whole(p)
  <2>1. <<IrInit, IfOk(1), Ir(2)>> \o <<PcInit>> = p
    BY <1>2, Joined
  <2>2. QED
    BY <1>2, <2>1, WholeDevice, WholeOne, WholeConcat
<1>4. p \o <<IfOk(n)>> = <<IrInit, IfOk(1), Ir(2), PcInit, IfOk(n)>>
  BY <1>2, Joined
<1>5. p \in Seq(StepSet) /\ <<IfOk(n)>> \in Seq(StepSet)
  BY <1>2
<1>6. OnCamera(s) = p \o (<<IfOk(n)>> \o s)
  BY <1>1, <1>4, <1>5, ConcatAssociative DEF OnCamera, n
<1>7. Whole(<<IfOk(n)>> \o s)
  BY WholeGuarded DEF n
<1>8. QED
  BY <1>3, <1>6, <1>7, WholeConcat

LEMMA Constants ==
    /\ Profiles = 0..5 /\ AC_SLIDERSHOW = 0 /\ AC_WORSHIP = 1 /\ AC_PREACHING = 2
    /\ AC_TEXT = 3 /\ AC_BAND = 4 /\ AC_VIDEO_CLIP = 5
    /\ BeamerSeqs = {5, 6, 7} /\ HdmiSeqs = 0..4
    /\ ToggleOf(5) = 0 /\ ToggleOf(6) = 1 /\ ToggleOf(7) = 2
  BY DEF Profiles, AC_SLIDERSHOW, AC_WORSHIP, AC_PREACHING, AC_TEXT, AC_BAND, AC_VIDEO_CLIP,
     BeamerSeqs, HdmiSeqs, ToggleOf

\* CItestSequence sends signals only.
Signals == {s \in Plain : s.op = "ir"}

LEMMA WholeAgain ==
    ASSUME NEW s \in Seq(Signals), s # <<>>
    PROVE  Whole(<<IrInit>> \o s \o <<Step("again", Len(s))>>)
<1> DEFINE p == <<IrInit>> \o s
           l == <<Step("again", Len(s))>>
           u == p \o l
<1>1. /\ s \in Seq(Plain) /\ Len(s) \in Nat \ {0} /\ \A i \in 1..Len(s) : s[i].op = "ir"
      /\ IrInit \in Plain /\ IrInit.op = "irInit" /\ Plain \subseteq StepSet
  <2>1. Len(s) \in Nat \ {0} /\ \A i \in 1..Len(s) : s[i] \in Signals
    BY LenProperties, ElementOfSeq
  <2>2. IrInit.op = "irInit"
    BY DEF IrInit, Step
  <2>3. s \in Seq(Plain)
    BY DEF Signals
  <2>4. \A i \in 1..Len(s) : s[i].op = "ir"
    BY <2>1 DEF Signals
  <2>5. QED
    BY <2>1, <2>2, <2>3, <2>4, PlainSteps, StepTypes
<1>2. /\ <<IrInit>> \in Seq(Plain) /\ Len(<<IrInit>>) = 1 /\ <<IrInit>>[1] = IrInit
  BY <1>1
<1>3. /\ p \in Seq(Plain) /\ p \in Seq(StepSet) /\ Len(p) = Len(s) + 1
      /\ p[1].op = "irInit" /\ \A i \in 2..Len(p) : p[i].op = "ir"
  <2>1. /\ p \in Seq(Plain) /\ Len(p) = 1 + Len(s) /\ p[1] = IrInit
        /\ \A i \in 2..(1 + Len(s)) : i - 1 \in 1..Len(s) /\ p[i] = s[i - 1]
    <3> DEFINE h == <<IrInit>>
    <3> HIDE DEF h
    <3>1. h \in Seq(Plain) /\ s \in Seq(Plain) /\ Len(h) = 1 /\ h[1] = IrInit /\ Len(s) \in Nat
      BY <1>1, <1>2 DEF h
    <3>2. /\ h \o s \in Seq(Plain) /\ Len(h \o s) = Len(h) + Len(s)
          /\ \A i \in 1..(Len(h) + Len(s)) :
                (h \o s)[i] = IF i <= Len(h) THEN h[i] ELSE s[i - Len(h)]
      BY <3>1, ConcatProperties
    <3>3. p = h \o s
      BY DEF h
    <3> HIDE DEF p
    <3>4. QED
      BY <3>1, <3>2, <3>3
  <2> HIDE DEF p
  <2>2. p \in Seq(StepSet)
    BY <1>1, <2>1
  <2>3. QED
    BY <1>1, <2>1, <2>2
<1>4. l \in Seq(StepSet) /\ Len(l) = 1 /\ l[1] = Step("again", Len(s))
  BY <1>1 DEF Step, StepSet, Ops
<1> HIDE DEF p, l
<1>5. /\ u \in Seq(StepSet) /\ Len(u) = Len(p) + 1
      /\ \A i \in 1..Len(p) : u[i] = p[i]
      /\ u[Len(p) + 1] = Step("again", Len(s))
  <2>1. /\ u \in Seq(StepSet) /\ Len(u) = Len(p) + Len(l)
        /\ \A i \in 1..Len(p) : u[i] = p[i]
        /\ \A i \in 1..Len(l) : u[Len(p) + i] = l[i]
    BY <1>3, <1>4, Concatenated
  <2> HIDE DEF u
  <2>2. 1 \in 1..Len(l)
    BY <1>4
  <2>3. QED
    BY <1>4, <2>1, <2>2
<1> HIDE DEF u
<1>6. u[Len(p) + 1].op = "again" /\ u[Len(p) + 1].arg = Len(s)
  BY <1>5 DEF Step
<1>7. PartOf(p, u, 0)
  BY <1>1, <1>3, <1>5, <1>6 DEF PartOf, Bound
<1>8. ASSUME NEW k \in 1..Len(p) PROVE Fits(u, 0 + k)
  BY <1>3, <1>5, <1>7, <1>8, WholePlain, FitsMoved DEF Whole, Fitting
<1>9. Fits(u, Len(p) + 1)
  <2>1. u[Len(p) + 1 - Len(s)].op = "ir" /\ u[Len(p) + 1 - Len(s) - 1].op = "irInit"
    <3>1. /\ Len(p) + 1 - Len(s) = 2 /\ Len(p) + 1 - Len(s) - 1 = 1
          /\ 2 \in 2..Len(p) /\ 2 \in 1..Len(p) /\ 1 \in 1..Len(p)
      BY <1>1, <1>3
    <3>2. QED
      BY <1>3, <1>5, <3>1
  <2>2. Len(s) \in 1..(Len(p) + 1 - 2)
    BY <1>1, <1>3
  <2>3. QED
    BY <1>6, <2>1, <2>2 DEF Fits, Bound, Leading
<1>10. \A k \in 1..Len(u) : k \in 1..Len(p) \/ k = Len(p) + 1
  BY <1>1, <1>3, <1>5
<1>11. \A k \in 1..Len(u) : Fits(u, k)
  BY <1>8, <1>9, <1>10
<1>12. u[1].op \notin Bound
  BY <1>1, <1>3, <1>5 DEF Bound
<1>13. QED
  BY <1>5, <1>11, <1>12 DEF Whole, Fitting, u, p, l

Hdmi(n, seq) == IF n = 0 THEN <<>> ELSE <<Ir(seq)>>
Signalled(n) == Hdmi(n, 0) \o <<Ir(5)>> \o Hdmi(n, 1) \o <<Ir(6)>>
                    \o Hdmi(n, 2) \o <<Ir(5)>> \o Hdmi(n, 4) \o <<Ir(6)>>

LEMMA SignalledIs ==
    ASSUME NEW n
    PROVE  /\ Signalled(n) \in Seq(Signals) /\ Signalled(n) # <<>>
           /\ CItestSequence(n) =
                 <<IrInit>> \o Signalled(n) \o <<Step("again", Len(Signalled(n)))>>
<1>1. \A q \in Int : Ir(q) \in Signals
  BY PlainSteps DEF Signals, Ir, Step
<1>2. \A q \in {0, 1, 2, 4} : Hdmi(n, q) \in Seq(Signals)
  BY <1>1 DEF Hdmi
<1>3. <<Ir(5)>> \in Seq(Signals) /\ <<Ir(6)>> \in Seq(Signals) /\ <<Ir(6)>> # <<>>
  BY <1>1
<1>4. \A s, t \in Seq(Signals) : s \o t \in Seq(Signals)
  BY ConcatProperties
<1> DEFINE s == Hdmi(n, 0) \o <<Ir(5)>> \o Hdmi(n, 1) \o <<Ir(6)>>
                    \o Hdmi(n, 2) \o <<Ir(5)>> \o Hdmi(n, 4)
<1>5. s \in Seq(Signals)
  BY <1>2, <1>3, <1>4
<1>6. Signalled(n) = s \o <<Ir(6)>>
  BY DEF Signalled
<1> HIDE DEF s
<1>7. Signalled(n) \in Seq(Signals) /\ Signalled(n) # <<>>
  BY <1>3, <1>5, <1>6, ConcatProperties, ConcatSimplifications
<1>8. CItestSequence(n) =
         <<IrInit>> \o Signalled(n) \o <<Step("again", Len(Signalled(n)))>>
  BY DEF CItestSequence, Signalled, Hdmi
<1>9. QED
  BY <1>7, <1>8

\* The commands that are more than a view or a signal.
LEMMA WholePause == Whole(CI_PAUSE) /\ Whole(CI_TIMER)
<1>1. /\ AC_SLIDERSHOW \in Profiles \cup Teachable /\ 5 \in BeamerSeqs
  BY Constants
<1>2. Whole(SwitchBeamer(5))
  BY <1>1, WholeSwitchBeamer DEF SwitchBeamer
<1>3. Whole(View(AC_SLIDERSHOW, 0)) /\ Whole(View(AC_SLIDERSHOW, 12))
  BY <1>1, WholeView
<1>4. Whole(<<IfOk(1), Ir(0)>>)
  BY PlainSteps, WholeIfOk
<1>5. Whole(View(AC_SLIDERSHOW, 12) \o <<IfOk(1), Ir(0)>>)
  BY <1>3, <1>4, WholeConcat
<1>6. QED
  BY <1>2, <1>3, <1>5, WholeConcat DEF CI_PAUSE, CI_TIMER

LEMMA WholeAnalog ==
    /\ Whole(CI_BEAMER_ANALOG)
    /\ CI_BEAMER_ANALOG = View(AC_SLIDERSHOW, 0)
          \o (<<IfOk(1), Ir(7), Step("toggle", ToggleOf(7))>> \o Save)
<1> DEFINE v == View(AC_SLIDERSHOW, 0)
           g == <<IfOk(1), Ir(7), Step("toggle", ToggleOf(7))>>
<1>1. Whole(v) /\ Whole(g \o Save)
  BY Constants, WholeView, WholeSwitchBeamer
<1>2. v \in Seq(StepSet)
  BY <1>1 DEF Whole, Fitting
<1>3. g \in Seq(StepSet) /\ Save \in Seq(StepSet)
  <2>1. Ir(7) \in StepSet /\ IfOk(1) \in StepSet /\ Step("toggle", ToggleOf(7)) \in StepSet
    BY Constants, PlainSteps, StepTypes
  <2>2. Save \in Seq(StepSet)
    BY StepTypes DEF Save, Open, WriteIt
  <2>3. QED
    BY <2>1, <2>2
<1>4. (v \o g) \o Save = v \o (g \o Save)
  BY <1>2, <1>3, ConcatAssociative
<1>5. CI_BEAMER_ANALOG = (v \o g) \o Save
  BY Constants DEF CI_BEAMER_ANALOG
<1> HIDE DEF v, g
<1>6. Whole(v \o (g \o Save))
  BY <1>1, WholeConcat
<1>7. QED
  BY <1>4, <1>5, <1>6 DEF v, g

\* CI_RESET up to the point where it drops the errors.
ResetFirst == <<Audio, Step("active", AC_WORSHIP)>> \o SaveProfiles \o <<Forget>>

LEMMA WholeReset ==
    /\ Whole(CI_RESET) /\ Whole(ResetFirst)
    /\ CI_RESET = ResetFirst \o View(AC_WORSHIP, 0)
          \o (<<IfOk(1), Ir(5), Step("toggle", ToggleOf(5))>> \o Save)
<1> DEFINE v == ResetFirst \o View(AC_WORSHIP, 0)
           g == <<IfOk(1), Ir(5), Step("toggle", ToggleOf(5))>>
<1>1. Whole(g \o Save) /\ Whole(View(AC_WORSHIP, 0))
  BY Constants, WholeView, WholeSwitchBeamer
<1>2. Whole(<<Audio, Step("active", AC_WORSHIP)>>) /\ Whole(<<Forget>>)
  BY Constants, PlainSteps, WholeOne, WholeTwo
<1>3. Whole(ResetFirst)
  BY <1>2, WholeSave, WholeConcat DEF ResetFirst
<1>4. Whole(v)
  BY <1>1, <1>3, WholeConcat
<1>5. v \in Seq(StepSet)
  BY <1>4 DEF Whole, Fitting
<1>6. g \in Seq(StepSet) /\ Save \in Seq(StepSet)
  <2>1. Ir(5) \in StepSet /\ IfOk(1) \in StepSet /\ Step("toggle", ToggleOf(5)) \in StepSet
    BY Constants, PlainSteps, StepTypes
  <2>2. Save \in Seq(StepSet)
    BY StepTypes DEF Save, Open, WriteIt
  <2>3. QED
    BY <2>1, <2>2
<1>7. CI_RESET = (v \o g) \o Save
  BY Constants DEF CI_RESET, ResetFirst
<1>8. (v \o g) \o Save = v \o (g \o Save)
  <2> HIDE DEF v, g
  <2> DEFINE w == Save
  <2>1. v \in Seq(StepSet) /\ g \in Seq(StepSet) /\ w \in Seq(StepSet)
    BY <1>5, <1>6, Zenon
  <2> HIDE DEF w
  <2>2. (v \o g) \o w = v \o (g \o w)
    BY <2>1, ConcatAssociative, SMTT(30)
  <2>3. QED
    BY <2>2, Zenon DEF w
<1>9. Whole(v \o (g \o Save))
  <2> HIDE DEF v, g
  <2>1. QED
    BY <1>1, <1>4, WholeConcat
<1>10. QED
  BY <1>3, <1>7, <1>8, <1>9

LEMMA WholeBeamerToggle ==
    /\ Whole(CI_BEAMER_TOGGLE)
    /\ CI_BEAMER_TOGGLE =
          <<IrInit, Step("read", 0), IfOk(3), Step("flip", 0), Open, WriteIt>>
<1>1. /\ IrInit \in StepSet /\ Step("read", 0) \in StepSet /\ IfOk(3) \in StepSet
      /\ Step("flip", 0) \in StepSet /\ Open \in StepSet /\ WriteIt \in StepSet
  BY PlainSteps, StepTypes
<1>2. Save = <<Open, WriteIt>>
  BY DEF Save, Open, WriteIt
<1>3. <<IrInit, Step("read", 0), IfOk(3), Step("flip", 0)>> \o <<Open, WriteIt>>
         = <<IrInit, Step("read", 0), IfOk(3), Step("flip", 0), Open, WriteIt>>
  BY <1>1, Joined
<1>4. QED
  BY <1>2, <1>3, WholeToggle DEF CI_BEAMER_TOGGLE

LEMMA WholeAcTeach ==
    ASSUME NEW p \in Teachable
    PROVE  /\ Whole(AC_Teach(p))
           /\ AC_Teach(p) = <<OpenAc, WriteAc>>
                 \o <<IfOk(4), Profile(p), IfOk(2), OpenAc, WriteAc>>
<1>1. /\ IfOk(4) \in StepSet /\ Profile(p) \in StepSet /\ IfOk(2) \in StepSet
      /\ OpenAc \in StepSet /\ WriteAc \in StepSet
  BY PlainSteps, StepTypes
<1>2. SaveProfiles = <<OpenAc, WriteAc>>
  BY DEF SaveProfiles, OpenAc, WriteAc
<1>3. <<IfOk(4), Profile(p), IfOk(2)>> \o <<OpenAc, WriteAc>>
         = <<IfOk(4), Profile(p), IfOk(2), OpenAc, WriteAc>>
  BY <1>1, Joined
<1>4. <<IfOk(4), Profile(p), IfOk(2)>> \in Seq(StepSet) /\ <<OpenAc, WriteAc>> \in Seq(StepSet)
  BY <1>1
<1>5. AC_Teach(p) = <<OpenAc, WriteAc>>
         \o (<<IfOk(4), Profile(p), IfOk(2)>> \o <<OpenAc, WriteAc>>)
  BY <1>2, <1>4, ConcatAssociative DEF AC_Teach
<1>6. Whole(<<OpenAc, WriteAc>>)
  BY <1>2, WholeSave
<1>7. QED
  BY <1>3, <1>5, <1>6, WholeTeach, WholeConcat

LEMMA WholePosition ==
    /\ Whole(OnCamera(<<Move>>)) /\ Whole(OnCamera(PC_Teach))
    /\ Whole(OnCamera(PC_Test_Pos)) /\ Whole(OnCamera(PC_Test))
    /\ \A c \in {0, 2} : Whole(CI_POS_SEQUENCE(AC_PREACHING, c))
<1>1. Whole(OnCamera(<<Move>>))
  <2> DEFINE s == <<Move>>
  <2>1. s \in Seq(StepSet) /\ Len(s) = 1 /\ s[1] = Move /\ Move.op = "move" /\ s # <<>>
    BY StepTypes DEF Move, Step
  <2> HIDE DEF s
  <2>2. Fits(s, 1)
    BY <2>1 DEF Fits, Before, Leading
  <2>3. Fitting(s) /\ s[1].op \notin Bound \ {"move", "zoomSave"}
    BY <2>1, <2>2 DEF Fitting
  <2>4. Whole(OnCamera(s))
    BY <2>1, <2>3, WholeOnCamera
  <2>5. QED
    BY <2>4 DEF s
<1>2. Whole(OnCamera(PC_Teach))
  <2>1. PC_Teach # <<>> /\ PC_Teach[1].op = "zoomSave"
    BY DEF PC_Teach, Step
  <2>2. QED
    BY <2>1, FittingPcTeach, WholeOnCamera
<1>3. Whole(OnCamera(PC_Test_Pos))
  <2>1. PC_Test_Pos # <<>> /\ PC_Test_Pos[1].op = "move"
    BY DEF PC_Test_Pos, Move, Step
  <2>2. QED
    BY <2>1, FittingTestPos, WholeOnCamera
<1>4. Whole(OnCamera(PC_Test))
  <2> DEFINE l == <<Step("within", Len(Round)), Forget>>
  <2>1. Whole(PC_Test)
    BY WholeRound, WholeWithin, PcTestIs
  <2>2. Round \in Seq(StepSet) /\ l \in Seq(StepSet)
    <3>1. Round \in Seq(StepSet) /\ Len(Round) \in Int
      BY WholeRound, LenProperties DEF Whole, Fitting
    <3>2. QED
      BY <3>1 DEF Step, Forget, StepSet, Ops
  <2>3. PC_Test # <<>> /\ PC_Test[1].op = "ifOk"
    BY <2>2, WholeRound, BeginsWith, PcTestIs
  <2>4. QED
    BY <2>1, <2>3, WholeOnCamera DEF Whole
<1>5. ASSUME NEW c \in {0, 2} PROVE Whole(CI_POS_SEQUENCE(AC_PREACHING, c))
  <2> DEFINE s == PC_Sequencer(AC_PREACHING, c)
             n == Len(s)
  <2>1. /\ s \in Seq(StepSet) /\ s # <<>> /\ s[1].op = "profile" /\ Whole(s)
    <3>1. AC_PREACHING \in Profiles /\ c \in Int
      BY Constants
    <3>2. s \in Seq(StepSet) /\ s # <<>> /\ s[1] = Profile(AC_PREACHING) /\ Whole(s)
      BY <3>1, SequencerBegins, WholeSequencer
    <3>3. Profile(AC_PREACHING).op = "profile"
      BY DEF Profile, Step
    <3>4. QED
      BY <3>2, <3>3
  <2> HIDE DEF s
  <2>2. Whole(<<IfOk(n)>> \o s)
    BY <2>1, WholeGuarded DEF Whole, Bound
  <2>3. IrInit \in Plain /\ PcInit \in Plain /\ IfOk(n) \in StepSet /\ Plain \subseteq StepSet
    BY <2>1, PlainSteps, StepTypes, LenProperties
  <2> HIDE DEF n
  <2>4. Whole(<<IrInit, PcInit>>)
    BY <2>3, WholeTwo
  <2>5. <<IrInit, PcInit>> \o <<IfOk(n)>> = <<IrInit, PcInit, IfOk(n)>>
    BY <2>3, Joined
  <2>6. <<IrInit, PcInit>> \in Seq(StepSet) /\ <<IfOk(n)>> \in Seq(StepSet)
    BY <2>3
  <2>7. CI_POS_SEQUENCE(AC_PREACHING, c) = <<IrInit, PcInit>> \o (<<IfOk(n)>> \o s)
    BY <2>1, <2>5, <2>6, ConcatAssociative DEF CI_POS_SEQUENCE, n, s
  <2>8. QED
    BY <2>2, <2>4, <2>7, WholeConcat
<1>6. QED
  BY <1>1, <1>2, <1>3, <1>4, <1>5

\* Every command is a whole sequence.
LEMMA WholeSequencerCommands == \A n \in SequencerNames : Whole(CIsequencer(n))
<1> SUFFICES ASSUME NEW n \in SequencerNames PROVE Whole(CIsequencer(n))
  OBVIOUS
<1>1. \A q \in Int : Whole(Device(q))
  BY PlainSteps, WholeDevice DEF Device
<1>2. \A a \in Profiles, q \in Int : Whole(View(a, q))
  BY WholeView
<1>3. Whole(CI_SHUTDOWN)
  <2>1. CI_SHUTDOWN \in Seq(Plain)
    BY PlainSteps DEF CI_SHUTDOWN
  <2>2. QED
    BY <2>1, WholePlain
<1>4. Whole(<<Step("last", "WRONG_ARG")>>)
  BY PlainSteps, WholeOne
<1>5. CASE n \in {"CI_BEAMER_MUTE", "CI_BEAMER_ON", "CI_START_BACKUP", "CI_STOP_BACKUP",
                  "CI_SWITCH_BACKUP"}
  BY <1>1, <1>5 DEF CIsequencer
<1>6. CASE n \in {"CI_PPP_VIEW", "CI_TEXT_VIEW", "CI_GOPRO_VIEW", "CI_POSCAM_VIEW",
                  "CI_PREACHER_VIEW", "CI_PRAYER_VIEW", "CI_READERS_VIEW", "CI_SONG_VIEW",
                  "CI_LIVE_VIDEO"}
  BY <1>2, <1>6, Constants DEF CIsequencer
<1>7. CASE n \in {"CI_PAUSE", "CI_TIMER", "CI_RESET", "CI_BEAMER_TOGGLE",
                  "CI_BEAMER_ANALOG", "CI_SHUTDOWN", "undefined"}
  BY <1>3, <1>4, <1>7, WholePause, WholeReset, WholeBeamerToggle, WholeAnalog
  DEF CIsequencer
<1>8. QED
  BY <1>5, <1>6, <1>7 DEF SequencerNames

LEMMA SequencerSteps ==
    \A c \in Commands : c.name \in SequencerNames => StepsOf(c) = CIsequencer(c.name)
  BY DEF Commands, StepsOf, SequencerNames

LEMMA WholeSteps == \A c \in Commands : Whole(StepsOf(c))
<1> SUFFICES ASSUME NEW c \in Commands PROVE Whole(StepsOf(c))
  OBVIOUS
<1>1. CASE c.name \in SequencerNames
  BY <1>1, SequencerSteps, WholeSequencerCommands
<1>2. CASE c.name = "CI_IR"
  <2>1. c.arg \in Int /\ StepsOf(c) = <<IrInit, IfOk(1), Ir(c.arg)>>
    BY <1>2, Constants DEF Commands, StepsOf, SequencerNames, Device, NUM_SEQ
  <2>2. QED
    BY <2>1, PlainSteps, WholeDevice
<1>3. CASE c.name = "CI_IR_TEACH"
  <2>1. c.arg \in {0, 5} /\ StepsOf(c) = <<IrInit, IfOk(1), Step("irTeach", c.arg)>>
    BY <1>3 DEF Commands, StepsOf, SequencerNames
  <2>2. QED
    BY <2>1, PlainSteps, WholeDevice
<1>4. CASE c.name = "CI_AUDIO_SWITCH"
  <2>1. c.arg \in Profiles \cup {Direct}
        /\ StepsOf(c) = IF c.arg = Direct THEN <<Audio>> ELSE <<Profile(c.arg)>>
    BY <1>4 DEF Commands, StepsOf, SequencerNames
  <2>2. QED
    BY <2>1, PlainSteps, WholeOne
<1>5. CASE c.name = "CI_AUDIO_TEACH"
  <2>1. c.arg \in Teachable /\ StepsOf(c) = AC_Teach(c.arg)
    BY <1>5 DEF Commands, StepsOf, SequencerNames
  <2>2. QED
    BY <2>1, WholeAcTeach
<1>6. CASE c.name \in {"CI_POS_CONTROL", "CI_POS_TEACH", "CI_POS_TEST"}
  BY <1>6, WholePosition DEF StepsOf, SequencerNames
<1>7. CASE c.name = "CI_POS_SEQUENCE"
  <2>1. c.arg \in {0, 2} /\ StepsOf(c) = CI_POS_SEQUENCE(AC_PREACHING, c.arg)
    BY <1>7 DEF Commands, StepsOf, SequencerNames
  <2>2. QED
    BY <2>1, WholePosition
<1>8. CASE c.name = "CI_POS_MOVE_BTN"
  BY <1>8, PlainSteps, WholeOne DEF StepsOf, SequencerNames
<1>9. CASE c.name = "CItestSequence"
  <2>1. StepsOf(c) = CItestSequence(c.arg)
    BY <1>9 DEF StepsOf, SequencerNames
  <2>2. QED
    BY <2>1, SignalledIs, WholeAgain
<1>10. QED
  BY <1>1, <1>2, <1>3, <1>4, <1>5, <1>6, <1>7, <1>8, <1>9 DEF Commands
-----------------------------------------------------------------------------
(* The way through a command                                               *)

\* The step a process is about to take, Len + 1 when there is none left.
Here == Done + 1
Current == StepsOf(command)[Here]

Placed ==
    /\ pc \in {"idle", "run", "returned"}
    /\ command \in Commands
    /\ pc # "run" => todo = <<>>
    /\ pc = "run" => /\ Here \in 1..(Len(StepsOf(command)) + 1)
                     /\ todo = SubSeq(StepsOf(command), Here, Len(StepsOf(command)))

\* What is left of a sequence from its step k on.
LEMMA Suffix ==
    ASSUME NEW s \in Seq(StepSet), NEW k \in 1..(Len(s) + 1)
    PROVE  LET r == SubSeq(s, k, Len(s))
           IN  /\ r \in Seq(StepSet) /\ Len(r) = Len(s) - k + 1
               /\ r # <<>> <=> k <= Len(s)
               /\ k <= Len(s) => Head(r) = s[k]
               /\ \A n \in Nat : k + n <= Len(s) + 1 =>
                     SubSeq(r, n + 1, Len(r)) = SubSeq(s, k + n, Len(s))
<1> DEFINE r == SubSeq(s, k, Len(s))
<1>1. Len(s) \in Nat
  BY LenProperties
<1>2. r \in Seq(StepSet) /\ Len(r) = Len(s) - k + 1
      /\ \A i \in 1..(Len(s) - k + 1) : r[i] = s[k + i - 1]
  BY <1>1, SubSeqProperties
<1> HIDE DEF r
<1>3. r # <<>> <=> k <= Len(s)
  BY <1>1, <1>2
<1>4. k <= Len(s) => Head(r) = s[k]
  BY <1>1, <1>2, <1>3
<1>5. ASSUME NEW n \in Nat, k + n <= Len(s) + 1
      PROVE  SubSeq(r, n + 1, Len(r)) = SubSeq(s, k + n, Len(s))
  <2> DEFINE u == SubSeq(r, n + 1, Len(r))
             v == SubSeq(s, k + n, Len(s))
  <2>1. /\ v \in Seq(StepSet) /\ Len(v) = Len(s) - (k + n) + 1
        /\ \A i \in 1..(Len(s) - (k + n) + 1) : v[i] = s[k + n + i - 1]
    BY <1>1, <1>5, SubSeqProperties
  <2>2. /\ u \in Seq(StepSet) /\ Len(u) = Len(r) - (n + 1) + 1
        /\ \A i \in 1..(Len(r) - (n + 1) + 1) : u[i] = r[n + 1 + i - 1]
    <3>1. r \in Seq(StepSet) /\ Len(r) \in Nat /\ n + 1 \in 1..(Len(r) + 1)
      BY <1>1, <1>2, <1>5
    <3>2. QED
      BY <3>1, SubSeqProperties, SMTT(30)
  <2>3. Len(u) = Len(v)
    BY <1>1, <1>2, <2>1, <2>2
  <2>4. ASSUME NEW i \in 1..Len(u) PROVE u[i] = v[i]
    <3>1. /\ n + 1 + i - 1 = n + i /\ n + i \in 1..(Len(s) - k + 1)
          /\ k + (n + i) - 1 = k + n + i - 1
      BY <1>1, <1>2, <1>5, <2>2
    <3>2. u[i] = r[n + i]
      BY <2>2, <3>1
    <3>3. v[i] = s[k + n + i - 1]
      BY <2>1, <2>3
    <3>4. QED
      BY <1>2, <3>1, <3>2, <3>3
  <2>5. QED
    BY <2>1, <2>2, <2>3, <2>4, SeqEqual
<1>6. QED
  BY <1>2, <1>3, <1>4, <1>5 DEF r

\* The steps of the command are typed, and the next one is the current one.
LEMMA Located ==
    ASSUME Placed, pc = "run"
    PROVE  /\ StepsOf(command) \in Seq(StepSet) /\ Len(StepsOf(command)) \in Nat
           /\ \A k \in 1..Len(StepsOf(command)) :
                 StepsOf(command)[k] \in StepSet /\ Fits(StepsOf(command), k)
           /\ Here \in 1..(Len(StepsOf(command)) + 1)
           /\ todo # <<>> <=> Here <= Len(StepsOf(command))
           /\ todo # <<>> => Head(todo) = Current
<1> DEFINE s == StepsOf(command)
<1>1. s \in Seq(StepSet) /\ Len(s) \in Nat /\ \A k \in 1..Len(s) : s[k] \in StepSet /\ Fits(s, k)
  BY WholeSteps, LenProperties, ElementOfSeq DEF Placed, Whole, Fitting
<1>2. Here \in 1..(Len(s) + 1) /\ todo = SubSeq(s, Here, Len(s))
  BY DEF Placed
<1>3. /\ todo # <<>> <=> Here <= Len(s)
      /\ Here <= Len(s) => Head(todo) = s[Here]
  <2> HIDE DEF s
  <2>1. QED
    BY <1>1, <1>2, Suffix
<1>4. QED
  BY <1>1, <1>2, <1>3 DEF Current, s

\* Steps are left out by their number.
LEMMA Advance ==
    ASSUME Placed, pc = "run", pc' = "run", command' = command,
           NEW n \in Nat, Here + n <= Len(StepsOf(command)) + 1, Skip(n)
    PROVE  Placed' /\ Here' = Here + n
<1> DEFINE s == StepsOf(command)
<1>1. s \in Seq(StepSet) /\ Len(s) \in Nat /\ Here \in 1..(Len(s) + 1)
  BY Located
<1>2. todo = SubSeq(s, Here, Len(s)) /\ command \in Commands
  BY DEF Placed
<1>3. todo' = SubSeq(s, Here + n, Len(s))
  <2> HIDE DEF s
  <2>1. SubSeq(todo, n + 1, Len(todo)) = SubSeq(s, Here + n, Len(s))
    BY <1>1, <1>2, Suffix DEF s
  <2>2. QED
    BY <2>1 DEF Skip
<1>4. Here + n \in 1..(Len(s) + 1)
  BY <1>1
<1>5. Len(todo') = Len(s) - (Here + n) + 1
  <2> HIDE DEF s
  <2>1. QED
    BY <1>1, <1>3, <1>4, Suffix
<1>6. Here' = Here + n
  <2>1. Here' = Len(s) - Len(todo') + 1
    BY DEF Here, Done
  <2> HIDE DEF s
  <2>2. QED
    BY <1>1, <1>4, <1>5, <2>1
<1>7. Placed'
  <2>1. StepsOf(command') = s
    OBVIOUS
  <2> HIDE DEF s
  <2>2. QED
    BY <1>2, <1>3, <1>4, <1>6, <2>1 DEF Placed
<1>8. QED
  BY <1>6, <1>7

\* How a step goes on: to the next one, past guarded ones, past the write of a
\* file that could not be opened, or back in a loop.
Onward  == Here' = Here + 1 /\ (Current.op = "ifOk" => ok)
Jumps   == Current.op = "ifOk" /\ ~ok /\ ~ok' /\ Here' = Here + Current.arg + 1
Unopened == Current.op \in {"open", "openAc", "openPc"} /\ ~ok' /\ Here' = Here + 2
Loops   == Current.op \in {"again", "within"} /\ Here' = Here - Current.arg

LEMMA StepKinds ==
    ASSUME Steps
    PROVE  /\ pc = "run" /\ todo # <<>> /\ pc' = "run" /\ command' = command
           /\ \/ Skip(1) /\ (Running("ifOk") => ok)
              \/ Running("ifOk") /\ ~ok /\ ~ok' /\ Skip(Arg + 1)
              \/ Head(todo).op \in {"open", "openAc", "openPc"} /\ ~ok' /\ Skip(2)
              \/ /\ Head(todo).op \in {"again", "within"}
                 /\ todo' = SubSeq(StepsOf(command), Done - Arg + 1, Len(StepsOf(command)))
<1>1. CASE IfOkStep
  <2>1. pc = "run" /\ todo # <<>> /\ pc' = pc /\ command' = command /\ Running("ifOk")
    BY <1>1 DEF IfOkStep, Running, control
  <2>2. CASE ok
    BY <1>1, <2>1, <2>2 DEF IfOkStep
  <2>3. CASE ~ok
    <3>1. ~ok'
      BY <1>1, <2>3, Zenon DEF IfOkStep, control
    <3>2. QED
      BY <1>1, <2>1, <2>3, <3>1 DEF IfOkStep
  <2>4. QED
    BY <2>1, <2>2, <2>3
<1>2. CASE OpenAcStep \/ OpenStep \/ OpenPcStep
  BY <1>2 DEF OpenAcStep, OpenStep, OpenPcStep, Running, Fails
<1>3. CASE AgainStep
  BY <1>3 DEF AgainStep, Running, control
<1>4. CASE ProfileStep \/ AudioStep \/ ActiveStep \/ ForgetStep \/ WriteAcStep \/ IrInitStep
           \/ IrStep \/ IrTeachStep
  BY <1>4 DEF ProfileStep, AudioStep, ActiveStep, ForgetStep, WriteAcStep, IrInitStep, IrStep,
     IrTeachStep, Running, Continue
<1>5. CASE FlipStep \/ ToggleStep \/ ReadStep \/ WriteStep \/ PcInitStep \/ MoveStep
           \/ WritePcStep \/ LastStep
  BY <1>5 DEF FlipStep, ToggleStep, ReadStep, WriteStep, PcInitStep, MoveStep, WritePcStep,
     LastStep, Running, Continue
<1>6. QED
  BY <1>1, <1>2, <1>3, <1>4, <1>5 DEF Steps

LEMMA Flow ==
    ASSUME Placed, Steps
    PROVE  /\ pc = "run" /\ pc' = "run" /\ command' = command /\ todo # <<>>
           /\ Here \in 1..Len(StepsOf(command)) /\ Head(todo) = Current
           /\ Placed'
           /\ Onward \/ Jumps \/ Unopened \/ Loops
<1> DEFINE s == StepsOf(command)
<1>1. pc = "run" /\ todo # <<>> /\ pc' = "run" /\ command' = command
  BY StepKinds
<1>2. /\ Here \in 1..Len(s) /\ Head(todo) = Current /\ Len(s) \in Nat
      /\ s \in Seq(StepSet) /\ Fits(s, Here) /\ Current = s[Here]
  BY <1>1, Located DEF Current
<1> HIDE DEF s
<1>3. CASE Skip(1) /\ (Running("ifOk") => ok)
  <2>1. Here + 1 <= Len(s) + 1
    BY <1>2
  <2>2. Placed' /\ Here' = Here + 1
    BY <1>1, <1>3, <2>1, Advance DEF s
  <2>3. Current.op = "ifOk" => ok
    BY <1>1, <1>2, <1>3 DEF Running
  <2>4. QED
    BY <1>1, <1>2, <2>2, <2>3 DEF Onward, s
<1>4. CASE Running("ifOk") /\ ~ok /\ ~ok' /\ Skip(Arg + 1)
  <2>1. Current.op = "ifOk" /\ Arg = Current.arg
    BY <1>2, <1>4 DEF Running, Arg
  <2>2. Arg \in Nat /\ Here + Arg <= Len(s)
    BY <1>2, <2>1 DEF Fits
  <2>3. Arg + 1 \in Nat /\ Here + (Arg + 1) <= Len(s) + 1
    BY <1>2, <2>2
  <2>4. Placed' /\ Here' = Here + (Arg + 1)
    BY <1>1, <1>4, <2>3, Advance DEF s
  <2>5. Here + (Arg + 1) = Here + Arg + 1
    BY <1>2, <2>2
  <2>6. QED
    BY <1>1, <1>2, <1>4, <2>1, <2>4, <2>5 DEF Jumps, s
<1>5. CASE Head(todo).op \in {"open", "openAc", "openPc"} /\ ~ok' /\ Skip(2)
  <2>1. Here + 2 <= Len(s) + 1
    BY <1>2, <1>5 DEF Fits, Leading
  <2>2. Placed' /\ Here' = Here + 2
    BY <1>1, <1>5, <2>1, Advance DEF s
  <2>3. QED
    BY <1>1, <1>2, <1>5, <2>2 DEF Unopened, s
<1>6. CASE /\ Head(todo).op \in {"again", "within"}
           /\ todo' = SubSeq(StepsOf(command), Done - Arg + 1, Len(StepsOf(command)))
  <2>1. Arg = Current.arg /\ Current.op \in {"again", "within"}
    BY <1>2, <1>6 DEF Arg
  <2>2. Arg \in 1..(Here - 1)
    BY <1>2, <2>1 DEF Fits
  <2>3. Done - Arg + 1 = Here - Arg /\ Here - Arg \in 1..Len(s)
    <3>1. Done \in Int /\ Here = Done + 1
      BY <1>1, LenProperties, <1>2, WholeSteps DEF Here, Done, Placed, Whole, Fitting
    <3>2. QED
      BY <1>2, <2>2, <3>1
  <2>4. todo' = SubSeq(s, Here - Arg, Len(s))
    BY <1>6, <2>3 DEF s
  <2>5. Len(todo') = Len(s) - (Here - Arg) + 1
    BY <1>2, <2>3, <2>4, Suffix
  <2>6. Here' = Len(s) - Len(todo') + 1
    BY <1>1 DEF Here, Done, s
  <2>7. Here' = Here - Arg
    BY <1>2, <2>2, <2>3, <2>5, <2>6
  <2>8. Placed'
    <3>1. StepsOf(command') = s /\ command' \in Commands
      BY <1>1 DEF s, Placed
    <3>2. QED
      BY <1>1, <1>2, <2>3, <2>4, <2>7, <3>1 DEF Placed
  <2>9. QED
    BY <1>1, <1>2, <2>1, <2>7, <2>8 DEF Loops, s
<1>7. QED
  BY <1>3, <1>4, <1>5, <1>6, StepKinds

-----------------------------------------------------------------------------
(* What the commands are made of                                           *)

StepsWith(O) == {s \in StepSet : s.op \in O}

LEMMA StepsWithIs ==
    ASSUME NEW O
    PROVE  /\ \A n \in Int : "ifOk" \in O => IfOk(n) \in StepsWith(O)
           /\ \A q \in Int : "ir" \in O => Ir(q) \in StepsWith(O)
           /\ \A p \in Int : "profile" \in O => Profile(p) \in StepsWith(O)
           /\ \A n \in Int : "toggle" \in O => Step("toggle", n) \in StepsWith(O)
           /\ "irInit" \in O => IrInit \in StepsWith(O)
           /\ "pcInit" \in O => PcInit \in StepsWith(O)
           /\ "audio" \in O => Audio \in StepsWith(O)
           /\ "move" \in O => Move \in StepsWith(O)
           /\ "forget" \in O => Forget \in StepsWith(O)
           /\ {"open", "write"} \subseteq O => Save \in Seq(StepsWith(O))
           /\ {"openAc", "writeAc"} \subseteq O => SaveProfiles \in Seq(StepsWith(O))
           /\ \A s, t \in Seq(StepsWith(O)) : s \o t \in Seq(StepsWith(O))
<1>1. /\ \A n \in Int : IfOk(n) \in StepSet /\ Ir(n) \in StepSet /\ Profile(n) \in StepSet
                        /\ Step("toggle", n) \in StepSet
      /\ \A n \in Int : IfOk(n).op = "ifOk" /\ Ir(n).op = "ir" /\ Profile(n).op = "profile"
                        /\ Step("toggle", n).op = "toggle"
  BY DEF IfOk, Ir, Profile, Step, StepSet, Ops
<1>2. /\ IrInit \in StepSet /\ PcInit \in StepSet /\ Audio \in StepSet /\ Move \in StepSet
      /\ Forget \in StepSet /\ Open \in StepSet /\ WriteIt \in StepSet
      /\ OpenAc \in StepSet /\ WriteAc \in StepSet
      /\ IrInit.op = "irInit" /\ PcInit.op = "pcInit" /\ Audio.op = "audio"
      /\ Move.op = "move" /\ Forget.op = "forget" /\ Open.op = "open" /\ WriteIt.op = "write"
      /\ OpenAc.op = "openAc" /\ WriteAc.op = "writeAc"
  BY DEF IrInit, PcInit, Audio, Move, Forget, Open, WriteIt, OpenAc, WriteAc, Step, StepSet, Ops
<1>3. {"open", "write"} \subseteq O => Save \in Seq(StepsWith(O))
  <2>1. {"open", "write"} \subseteq O => Open \in StepsWith(O) /\ WriteIt \in StepsWith(O)
    BY <1>2 DEF StepsWith
  <2>2. Save = <<Open, WriteIt>>
    BY DEF Save, Open, WriteIt
  <2>3. QED
    BY <2>1, <2>2
<1>4. {"openAc", "writeAc"} \subseteq O => SaveProfiles \in Seq(StepsWith(O))
  <2>1. {"openAc", "writeAc"} \subseteq O => OpenAc \in StepsWith(O) /\ WriteAc \in StepsWith(O)
    BY <1>2 DEF StepsWith
  <2>2. SaveProfiles = <<OpenAc, WriteAc>>
    BY DEF SaveProfiles, OpenAc, WriteAc
  <2>3. QED
    BY <2>1, <2>2
<1>5. \A s, t \in Seq(StepsWith(O)) : s \o t \in Seq(StepsWith(O))
  BY ConcatProperties
<1>6. QED
  BY <1>1, <1>2, <1>3, <1>4, <1>5 DEF StepsWith

\* The operations of a view, and of one that ends with a switch of the beamer.
Showing == {"profile", "irInit", "ifOk", "ir"}
Switching == Showing \cup {"toggle", "open", "write"}

LEMMA ViewSteps ==
    \A p \in Profiles, q \in Int : View(p, q) \in Seq(StepsWith(Showing))
                                   /\ View(p, q) \in Seq(StepsWith(Switching))
<1> SUFFICES ASSUME NEW p \in Profiles, NEW q \in Int
             PROVE  View(p, q) \in Seq(StepsWith(Showing))
                    /\ View(p, q) \in Seq(StepsWith(Switching))
  OBVIOUS
<1>1. ASSUME NEW O, Showing \subseteq O PROVE View(p, q) \in Seq(StepsWith(O))
  <2>1. /\ Profile(p) \in StepsWith(O) /\ IrInit \in StepsWith(O) /\ IfOk(1) \in StepsWith(O)
        /\ Ir(q) \in StepsWith(O)
    BY <1>1, Constants, StepsWithIs DEF Showing
  <2>2. QED
    BY <2>1 DEF View
<1>2. Showing \subseteq Switching
  BY DEF Switching
<1>3. QED
  BY <1>1, <1>2

LEMMA SwitchSteps ==
    \A n \in Int, q \in BeamerSeqs :
       <<IfOk(n), Ir(q), Step("toggle", ToggleOf(q))>> \o Save \in Seq(StepsWith(Switching))
<1> SUFFICES ASSUME NEW n \in Int, NEW q \in BeamerSeqs
             PROVE  <<IfOk(n), Ir(q), Step("toggle", ToggleOf(q))>> \o Save
                       \in Seq(StepsWith(Switching))
  OBVIOUS
<1>1. ToggleOf(q) \in Int /\ q \in Int
  BY DEF BeamerSeqs, ToggleOf
<1>2. /\ IfOk(n) \in StepsWith(Switching) /\ Ir(q) \in StepsWith(Switching)
      /\ Step("toggle", ToggleOf(q)) \in StepsWith(Switching)
      /\ Save \in Seq(StepsWith(Switching))
  BY <1>1, StepsWithIs DEF Switching, Showing
<1>3. <<IfOk(n), Ir(q), Step("toggle", ToggleOf(q))>> \in Seq(StepsWith(Switching))
  BY <1>2
<1>4. QED
  BY <1>2, <1>3, StepsWithIs

LEMMA MoreOps ==
    ASSUME NEW O, NEW Q, O \subseteq Q
    PROVE  Seq(StepsWith(O)) \subseteq Seq(StepsWith(Q))
<1>1. StepsWith(O) \subseteq StepsWith(Q)
  BY DEF StepsWith
<1>2. QED
  BY <1>1

\* The commands of the sequencer that only show, signal or switch the beamer.
Special == {"CI_RESET", "CI_BEAMER_TOGGLE"}
MadeOf(O, s) == s \in Seq(StepsWith(O))

LEMMA SequencerOps ==
    ASSUME NEW n \in SequencerNames \ Special
    PROVE  CIsequencer(n) \in Seq(StepsWith(Switching \cup {"last"}))
<1> DEFINE O == Switching \cup {"last"}
<1>0. Switching \subseteq O /\ Showing \subseteq O
  BY DEF Switching
<1>1. ASSUME NEW v \in Seq(StepsWith(Switching)) PROVE v \in Seq(StepsWith(O))
  BY <1>0, MoreOps
<1>2. \A q \in Int : Device(q) \in Seq(StepsWith(O))
  <2>1. /\ \A q \in Int : Ir(q) \in StepsWith(O)
        /\ IrInit \in StepsWith(O) /\ IfOk(1) \in StepsWith(O)
    BY StepsWithIs DEF Switching, Showing
  <2> HIDE DEF O
  <2>2. QED
    BY <2>1 DEF Device
<1>3. \A p \in Profiles, q \in Int : View(p, q) \in Seq(StepsWith(O))
  BY <1>1, ViewSteps
<1>4. \A s, t \in Seq(StepsWith(O)) : s \o t \in Seq(StepsWith(O))
  BY StepsWithIs
<1>5. \A k \in Int, q \in BeamerSeqs :
         <<IfOk(k), Ir(q), Step("toggle", ToggleOf(q))>> \o Save \in Seq(StepsWith(O))
  BY <1>1, SwitchSteps
<1>6. /\ \A q \in Int : Ir(q) \in StepsWith(O)
      /\ \A k \in Int : IfOk(k) \in StepsWith(O)
      /\ IrInit \in StepsWith(O)
  BY StepsWithIs DEF Switching, Showing
<1>7. Step("last", "SHUTDOWN") \in StepsWith(O) /\ Step("last", "WRONG_ARG") \in StepsWith(O)
  BY DEF StepsWith, StepSet, Ops, Step
<1> SUFFICES MadeOf(O, CIsequencer(n))
  BY DEF MadeOf
<1> HIDE DEF O
<1>8. CI_PAUSE \in Seq(StepsWith(O)) /\ CI_TIMER \in Seq(StepsWith(O))
  <2>1. SwitchBeamer(5) \in Seq(StepsWith(O))
    BY <1>5, Constants DEF SwitchBeamer
  <2>2. <<IfOk(1), Ir(0)>> \in Seq(StepsWith(O))
    BY <1>6
  <2>3. View(AC_SLIDERSHOW, 0) \in Seq(StepsWith(O)) /\ View(AC_SLIDERSHOW, 12) \in Seq(StepsWith(O))
    BY <1>3, Constants
  <2>4. QED
    BY <1>4, <2>1, <2>2, <2>3 DEF CI_PAUSE, CI_TIMER
<1>9. CI_BEAMER_ANALOG \in Seq(StepsWith(O))
  <2>1. View(AC_SLIDERSHOW, 0) \in Seq(StepsWith(O))
    BY <1>3, Constants
  <2>2. <<IfOk(1), Ir(7), Step("toggle", ToggleOf(7))>> \o Save \in Seq(StepsWith(O))
    BY <1>5, Constants
  <2>3. QED
    BY <1>4, <2>1, <2>2, WholeAnalog
<1>10. CI_SHUTDOWN \in Seq(StepsWith(O)) /\ <<Step("last", "WRONG_ARG")>> \in Seq(StepsWith(O))
  BY <1>6, <1>7 DEF CI_SHUTDOWN
<1>11. /\ \A q \in Int : MadeOf(O, Device(q))
       /\ \A p \in Profiles, q \in Int : MadeOf(O, View(p, q))
       /\ MadeOf(O, CI_PAUSE) /\ MadeOf(O, CI_TIMER) /\ MadeOf(O, CI_BEAMER_ANALOG)
       /\ MadeOf(O, CI_SHUTDOWN) /\ MadeOf(O, <<Step("last", "WRONG_ARG")>>)
  BY <1>2, <1>3, <1>8, <1>9, <1>10 DEF MadeOf
<1>12. CASE n \in {"CI_BEAMER_MUTE", "CI_BEAMER_ON", "CI_START_BACKUP", "CI_STOP_BACKUP",
                  "CI_SWITCH_BACKUP"}
  BY <1>11, <1>12 DEF CIsequencer
<1>13. CASE n \in {"CI_PPP_VIEW", "CI_TEXT_VIEW", "CI_GOPRO_VIEW", "CI_POSCAM_VIEW",
                  "CI_PREACHER_VIEW", "CI_PRAYER_VIEW", "CI_READERS_VIEW", "CI_SONG_VIEW",
                  "CI_LIVE_VIDEO"}
  BY <1>11, <1>13, Constants DEF CIsequencer
<1>14. CASE n \in {"CI_PAUSE", "CI_TIMER", "CI_BEAMER_ANALOG", "CI_SHUTDOWN", "undefined"}
  BY <1>11, <1>14 DEF CIsequencer
<1>15. QED
  BY <1>12, <1>13, <1>14 DEF SequencerNames, Special

LEMMA ResetSteps ==
    /\ ResetFirst \in Seq(StepSet) /\ Len(ResetFirst) = 5
    /\ ResetFirst[1] = Audio /\ ResetFirst[2] = Step("active", AC_WORSHIP)
    /\ ResetFirst[3] = OpenAc /\ ResetFirst[4] = WriteAc /\ ResetFirst[5] = Forget
    /\ \E t \in Seq(StepsWith(Switching)) :
          /\ CI_RESET = ResetFirst \o t
          /\ t = View(AC_WORSHIP, 0)
                    \o (<<IfOk(1), Ir(5), Step("toggle", ToggleOf(5))>> \o Save)
<1>1. /\ Audio \in StepSet /\ Step("active", AC_WORSHIP) \in StepSet /\ OpenAc \in StepSet
      /\ WriteAc \in StepSet /\ Forget \in StepSet
  BY Constants, PlainSteps, StepTypes
<1>2. SaveProfiles = <<OpenAc, WriteAc>>
  BY DEF SaveProfiles, OpenAc, WriteAc
<1>3. <<Audio, Step("active", AC_WORSHIP)>> \o <<OpenAc, WriteAc>>
         = <<Audio, Step("active", AC_WORSHIP), OpenAc, WriteAc>>
  BY <1>1, Joined
<1>4. <<Audio, Step("active", AC_WORSHIP), OpenAc, WriteAc>> \o <<Forget>>
         = <<Audio, Step("active", AC_WORSHIP), OpenAc, WriteAc, Forget>>
  BY <1>1, Joined
<1>5. ResetFirst = <<Audio, Step("active", AC_WORSHIP), OpenAc, WriteAc, Forget>>
  BY <1>2, <1>3, <1>4 DEF ResetFirst
<1> DEFINE v == View(AC_WORSHIP, 0)
           g == <<IfOk(1), Ir(5), Step("toggle", ToggleOf(5))>> \o Save
<1>6. v \in Seq(StepsWith(Switching)) /\ g \in Seq(StepsWith(Switching))
  BY Constants, ViewSteps, SwitchSteps
<1>7. v \o g \in Seq(StepsWith(Switching))
  BY <1>6, StepsWithIs
<1>8. StepsWith(Switching) \subseteq StepSet
  BY DEF StepsWith
<1>9. ResetFirst \in Seq(StepSet)
  BY <1>1, <1>5
<1>10. CI_RESET = (ResetFirst \o v) \o g
  BY WholeReset
<1>11. v \in Seq(StepSet) /\ g \in Seq(StepSet)
  BY <1>6, <1>8
<1> HIDE DEF v, g
<1>12. CI_RESET = ResetFirst \o (v \o g)
  BY <1>9, <1>10, <1>11, ConcatAssociative
<1>13. QED
  BY <1>1, <1>5, <1>7, <1>9, <1>12 DEF v, g

\* Two sequences, one after the other, end with the second one.
LEMMA EndsWith ==
    ASSUME NEW s \in Seq(StepSet), NEW t \in Seq(StepSet), t # <<>>
    PROVE  s \o t # <<>> /\ (s \o t)[Len(s \o t)] = t[Len(t)]
<1>1. Len(s) \in Nat /\ Len(t) \in Nat \ {0}
  BY LenProperties
<1>2. /\ Len(s \o t) = Len(s) + Len(t)
      /\ \A i \in 1..Len(t) : (s \o t)[Len(s) + i] = t[i]
  BY <1>1, Concatenated
<1>3. Len(t) \in 1..Len(t) /\ Len(s \o t) # 0
  BY <1>1, <1>2
<1>4. QED
  BY <1>2, <1>3

\* The steps of PC_Sequencer and of the turns of PC_Test.
Shots == {s \in StepSet : /\ s.op \in {"profile", "ifOk", "ir", "move"}
                          /\ s.op = "ir" => s.arg \in HdmiSeqs}

LEMMA SequencerShots ==
    ASSUME NEW a \in Profiles, NEW c \in HdmiSeqs
    PROVE  /\ PC_Sequencer(a, c) \in Seq(Shots)
           /\ Turn(a, c) \in Seq(Shots)
           /\ c # 2 => Turn(a, c) # <<>> /\ Turn(a, c)[Len(Turn(a, c))] = Ir(2)
<1>1. /\ Profile(a) \in Shots /\ Ir(c) \in Shots /\ Ir(2) \in Shots /\ Move \in Shots
      /\ \A n \in Int : IfOk(n) \in Shots
  BY Constants DEF Shots, StepSet, Ops, Profile, Ir, Move, IfOk, Step
<1> DEFINE s == <<Profile(a), IfOk(1), Ir(c), IfOk(1), Move>>
           t == IF c = 2 THEN <<>> ELSE <<IfOk(1), Ir(2)>>
           q == PC_Sequencer(a, c)
<1>2. s \in Seq(Shots) /\ t \in Seq(Shots) /\ q = s \o t
  BY <1>1 DEF PC_Sequencer
<1>3. c # 2 => t # <<>> /\ t[Len(t)] = Ir(2)
  BY <1>1
<1>4. Shots \subseteq StepSet
  BY DEF Shots
<1> HIDE DEF s, t, q
<1>5. q \in Seq(Shots)
  BY <1>2, ConcatProperties
<1> DEFINE p == <<IfOk(Len(q))>>
<1>6. p \in Seq(Shots) /\ Turn(a, c) = p \o q
  BY <1>1, <1>5, LenProperties DEF Turn, q
<1> HIDE DEF p
<1>7. p \o q \in Seq(Shots)
  BY <1>5, <1>6, ConcatProperties
<1>8. c # 2 => q # <<>> /\ q[Len(q)] = Ir(2)
  BY <1>2, <1>3, <1>4, EndsWith
<1>9. c # 2 => p \o q # <<>> /\ (p \o q)[Len(p \o q)] = Ir(2)
  BY <1>4, <1>5, <1>6, <1>8, EndsWith
<1>10. QED
  BY <1>5, <1>6, <1>7, <1>9 DEF q

LEMMA RoundShots == Round \in Seq(Shots) /\ Round # <<>> /\ Round[Len(Round)] = Ir(2)
<1> DEFINE h == Turn(AC_SLIDERSHOW, 0) \o Turn(AC_WORSHIP, 1) \o Turn(AC_PREACHING, 2)
                    \o Turn(AC_TEXT, 3)
           l == Turn(AC_BAND, 1)
<1>1. \A s, t \in Seq(Shots) : s \o t \in Seq(Shots)
  BY ConcatProperties
<1>2. /\ Turn(AC_SLIDERSHOW, 0) \in Seq(Shots) /\ Turn(AC_WORSHIP, 1) \in Seq(Shots)
      /\ Turn(AC_PREACHING, 2) \in Seq(Shots) /\ Turn(AC_TEXT, 3) \in Seq(Shots)
      /\ l \in Seq(Shots) /\ l # <<>> /\ l[Len(l)] = Ir(2)
  BY Constants, SequencerShots
<1> HIDE DEF l
<1>3. h \in Seq(Shots)
  BY <1>1, <1>2
<1>4. Round = h \o l
  BY DEF Round, h, l
<1>5. Shots \subseteq StepSet
  BY DEF Shots
<1> HIDE DEF h
<1>6. h \in Seq(StepSet) /\ l \in Seq(StepSet) /\ h \o l \in Seq(Shots)
  BY <1>1, <1>2, <1>3, <1>5
<1>7. QED
  BY <1>2, <1>4, <1>6, EndsWith

\* The commands that drive or teach the mount: what they do once the mount is
\* initialised, and the guard in front of that.
Mounted == {"CI_POS_CONTROL", "CI_POS_TEACH", "CI_POS_TEST", "CI_POS_SEQUENCE"}
Drive(c) ==
    CASE c.name = "CI_POS_CONTROL"  -> <<Move>>
      [] c.name = "CI_POS_TEACH"    -> PC_Teach
      [] c.name = "CI_POS_TEST"     -> IF c.arg = 0 THEN PC_Test_Pos ELSE PC_Test
      [] c.name = "CI_POS_SEQUENCE" -> PC_Sequencer(AC_PREACHING, c.arg)
GuardAt(c) == IF c.name = "CI_POS_SEQUENCE" THEN 3 ELSE 5

\* What may stand where in what they do.
Drives(t) ==
    /\ t \in Seq(StepSet) /\ t # <<>>
    /\ \A i \in 1..Len(t) :
          /\ t[i].op \in {"profile", "ir", "ifOk", "move", "within", "forget", "zoomSave",
                          "openPc", "writePc"}
          /\ t[i].op = "forget" => i = Len(t)
          /\ t[i].op = "ir" => t[i].arg \in HdmiSeqs
          /\ t[i].op = "within" =>
                /\ i > 1 /\ i - t[i].arg = 1
                /\ \/ i = 3 /\ t[1].op = "move" /\ t[2].op = "ifOk"
                   \/ t[i-1] = Ir(2)

LEMMA DrivesShots == \A t \in Seq(Shots) : t # <<>> => Drives(t)
<1> SUFFICES ASSUME NEW t \in Seq(Shots), t # <<>> PROVE Drives(t)
  OBVIOUS
<1>1. Shots \subseteq StepSet
  BY DEF Shots
<1>2. t \in Seq(StepSet)
  BY <1>1
<1>3. \A i \in 1..Len(t) : t[i] \in Shots
  BY ElementOfSeq
<1>4. QED
  BY <1>2, <1>3 DEF Drives, Shots

LEMMA DrivesAll ==
    ASSUME NEW c \in Commands, c.name \in Mounted
    PROVE  Drives(Drive(c))
<1>1. CASE c.name = "CI_POS_CONTROL"
  <2>1. Move \in Shots
    BY DEF Move, Step, Shots, StepSet, Ops
  <2>2. <<Move>> \in Seq(Shots) /\ <<Move>> # <<>>
    BY <2>1
  <2>3. QED
    BY <1>1, <2>2, DrivesShots DEF Drive
<1>2. CASE c.name = "CI_POS_TEACH"
  <2>1. PC_Teach[1].op = "zoomSave" /\ PC_Teach[2].op = "openPc" /\ PC_Teach[3].op = "writePc"
    BY DEF PC_Teach, Step
  <2>2. PC_Teach \in Seq(StepSet) /\ Len(PC_Teach) = 3 /\ PC_Teach # <<>>
    BY FittingPcTeach DEF Fitting
  <2>3. Drives(PC_Teach)
    BY <2>1, <2>2 DEF Drives
  <2>4. QED
    BY <1>2, <2>3 DEF Drive
<1>3. CASE c.name = "CI_POS_TEST" /\ c.arg = 0
  <2>1. /\ PC_Test_Pos[1].op = "move" /\ PC_Test_Pos[2].op = "ifOk"
        /\ PC_Test_Pos[3].op = "within" /\ PC_Test_Pos[3].arg = 2 /\ PC_Test_Pos[4].op = "forget"
    BY DEF PC_Test_Pos, Move, Forget, IfOk, Step
  <2> DEFINE t == PC_Test_Pos
  <2>2. t \in Seq(StepSet) /\ Len(t) = 4 /\ t # <<>>
    <3>1. t \in Seq(StepSet) /\ Len(t) = 4
      BY FittingTestPos DEF Fitting
    <3> HIDE DEF t
    <3>2. QED
      BY <3>1
  <2>3. Drives(PC_Test_Pos)
    BY <2>1, <2>2 DEF Drives
  <2>4. QED
    BY <1>3, <2>3 DEF Drive
<1>4. CASE c.name = "CI_POS_TEST" /\ c.arg # 0
  <2> DEFINE r == Round
             n == Len(r)
             l == <<Step("within", n), Forget>>
             t == r \o l
  <2>1. r \in Seq(StepSet) /\ n \in Nat \ {0} /\ \A i \in 1..n : r[i] \in Shots
    BY RoundShots, LenProperties, ElementOfSeq DEF Shots
  <2>2. r[n] = Ir(2)
    BY RoundShots
  <2> HIDE DEF r
  <2>3. l \in Seq(StepSet) /\ Len(l) = 2 /\ l[1] = Step("within", n) /\ l[2] = Forget
    BY <2>1 DEF Step, Forget, StepSet, Ops
  <2> HIDE DEF n, l
  <2>4. /\ t \in Seq(StepSet) /\ Len(t) = n + 2 /\ \A i \in 1..n : t[i] = r[i]
        /\ \A i \in 1..2 : t[n + i] = l[i]
    <3>1. /\ t \in Seq(StepSet) /\ Len(t) = Len(r) + Len(l)
          /\ \A i \in 1..Len(r) : t[i] = r[i]
          /\ \A i \in 1..Len(l) : t[Len(r) + i] = l[i]
      BY <2>1, <2>3, Concatenated
    <3> HIDE DEF t
    <3>2. n = Len(r)
      BY DEF n
    <3>3. QED
      BY <2>3, <3>1, <3>2
  <2> HIDE DEF t
  <2>5. t[n + 1] = Step("within", n) /\ t[n + 2] = Forget
    BY <2>3, <2>4
  <2>6. t[n + 1].op = "within" /\ t[n + 1].arg = n /\ t[n + 2].op = "forget"
    BY <2>5 DEF Step, Forget
  <2>7. \A i \in 1..Len(t) : i \in 1..n \/ i = n + 1 \/ i = n + 2
    BY <2>1, <2>4
  <2>8. \A i \in 1..n : t[i].op \in {"profile", "ifOk", "ir", "move"}
                        /\ (t[i].op = "ir" => t[i].arg \in HdmiSeqs)
    BY <2>1, <2>4 DEF Shots
  <2>9. t[n] = Ir(2) /\ n + 1 - 1 = n /\ n + 1 - n = 1 /\ n + 1 > 1
    BY <2>1, <2>2, <2>4
  <2>10. t # <<>>
    BY <2>1, <2>4
  <2>11. Drives(t)
    <3>1. ASSUME NEW i \in 1..n
          PROVE  t[i].op \in {"profile", "ifOk", "ir", "move"}
                 /\ (t[i].op = "ir" => t[i].arg \in HdmiSeqs)
      BY <2>8
    <3>2. n + 2 = Len(t) /\ n \in Nat
      BY <2>1, <2>4
    <3>3. QED
      BY <2>4, <2>6, <2>7, <2>9, <2>10, <3>1, <3>2 DEF Drives
  <2>12. QED
    BY <1>4, <2>11, PcTestIs DEF Drive, t, l, n, r
<1>5. CASE c.name = "CI_POS_SEQUENCE"
  <2>1. AC_PREACHING \in Profiles /\ c.arg \in HdmiSeqs
    BY <1>5, Constants DEF Commands, SequencerNames
  <2>2. PC_Sequencer(AC_PREACHING, c.arg) # <<>>
    <3>1. c.arg \in Int
      BY <2>1, Constants
    <3>2. QED
      BY <2>1, <3>1, SequencerBegins
  <2>3. QED
    BY <1>5, <2>1, <2>2, SequencerShots, DrivesShots DEF Drive
<1>6. QED
  BY <1>1, <1>2, <1>3, <1>4, <1>5 DEF Mounted

\* The steps of a sequence behind a head of three or five.
LEMMA OnCameraIs ==
    ASSUME NEW t \in Seq(StepSet)
    PROVE  LET u == OnCamera(t)
           IN  /\ Len(u) = 5 + Len(t)
               /\ u[1] = IrInit /\ u[2] = IfOk(1) /\ u[3] = Ir(2) /\ u[4] = PcInit
               /\ u[5] = IfOk(Len(t))
               /\ \A i \in 1..Len(t) : u[5 + i] = t[i]
<1> DEFINE n == Len(t)
<1>1. n \in Int
  BY LenProperties
<1>2. /\ IrInit \in StepSet /\ Ir(2) \in StepSet /\ PcInit \in StepSet
      /\ IfOk(1) \in StepSet /\ IfOk(n) \in StepSet
  BY <1>1, PlainSteps, StepTypes
<1> DEFINE p == <<IrInit, IfOk(1), Ir(2), PcInit, IfOk(n)>>
<1>3. p \in Seq(StepSet) /\ Len(p) = 5
  BY <1>2
<1>4. /\ p[1] = IrInit /\ p[2] = IfOk(1) /\ p[3] = Ir(2) /\ p[4] = PcInit /\ p[5] = IfOk(n)
  OBVIOUS
<1>5. OnCamera(t) = p \o t
  BY DEF OnCamera
<1> HIDE DEF p
<1>6. /\ Len(p \o t) = Len(p) + Len(t)
      /\ \A i \in 1..Len(p) : (p \o t)[i] = p[i]
      /\ \A i \in 1..Len(t) : (p \o t)[Len(p) + i] = t[i]
  BY <1>3, Concatenated
<1>7. QED
  BY <1>3, <1>4, <1>5, <1>6 DEF n

LEMMA PosSequenceIs ==
    ASSUME NEW a \in Profiles, NEW c \in Int
    PROVE  LET t == PC_Sequencer(a, c)
               u == CI_POS_SEQUENCE(a, c)
           IN  /\ Len(u) = 3 + Len(t)
               /\ u[1] = IrInit /\ u[2] = PcInit /\ u[3] = IfOk(Len(t))
               /\ \A i \in 1..Len(t) : u[3 + i] = t[i]
<1> DEFINE t == PC_Sequencer(a, c)
           n == Len(t)
<1>1. t \in Seq(StepSet)
  BY SequencerBegins
<1>2. n \in Int
  BY <1>1, LenProperties
<1>3. IrInit \in StepSet /\ PcInit \in StepSet /\ IfOk(n) \in StepSet
  BY <1>2, PlainSteps, StepTypes
<1> DEFINE p == <<IrInit, PcInit, IfOk(n)>>
<1>4. p \in Seq(StepSet) /\ Len(p) = 3
  BY <1>3
<1>5. p[1] = IrInit /\ p[2] = PcInit /\ p[3] = IfOk(n)
  OBVIOUS
<1>6. CI_POS_SEQUENCE(a, c) = p \o t
  BY DEF CI_POS_SEQUENCE
<1> HIDE DEF p, t
<1>7. /\ Len(p \o t) = Len(p) + Len(t)
      /\ \A i \in 1..Len(p) : (p \o t)[i] = p[i]
      /\ \A i \in 1..Len(t) : (p \o t)[Len(p) + i] = t[i]
  BY <1>1, <1>4, Concatenated
<1>8. QED
  BY <1>4, <1>5, <1>6, <1>7 DEF n, t

\* The commands with the mount prepare it, test whether that went well, and
\* drive it.
Prepares(s, t, d) ==
    /\ d \in {3, 5} /\ Len(s) = d + Len(t)
    /\ s[1] = IrInit /\ s[d-1] = PcInit /\ s[d] = IfOk(Len(t))
    /\ d = 5 => s[2] = IfOk(1) /\ s[3] = Ir(2)
    /\ \A i \in 1..Len(t) : s[d + i] = t[i]

LEMMA MountSteps ==
    ASSUME NEW c \in Commands, c.name \in Mounted
    PROVE  /\ Prepares(StepsOf(c), Drive(c), GuardAt(c)) /\ Drives(Drive(c))
           /\ GuardAt(c) = 3 => c.name = "CI_POS_SEQUENCE"
<1>1. ASSUME NEW t \in Seq(StepSet) PROVE Prepares(OnCamera(t), t, 5)
  <2> DEFINE u == OnCamera(t)
  <2>1. /\ Len(u) = 5 + Len(t)
        /\ u[1] = IrInit /\ u[2] = IfOk(1) /\ u[3] = Ir(2) /\ u[4] = PcInit
        /\ u[5] = IfOk(Len(t))
        /\ \A i \in 1..Len(t) : u[5 + i] = t[i]
    BY OnCameraIs
  <2> HIDE DEF u
  <2>2. Prepares(u, t, 5)
    BY <2>1 DEF Prepares
  <2>3. QED
    BY <2>2 DEF u
<1>2. Drives(Drive(c)) /\ Drive(c) \in Seq(StepSet)
  BY DrivesAll DEF Drives
<1>3. CASE c.name # "CI_POS_SEQUENCE"
  <2>1. StepsOf(c) = OnCamera(Drive(c))
    BY <1>3 DEF StepsOf, Drive, SequencerNames, Mounted
  <2>2. GuardAt(c) = 5
    BY <1>3 DEF GuardAt
  <2>3. QED
    BY <1>1, <1>2, <2>1, <2>2
<1>4. CASE c.name = "CI_POS_SEQUENCE"
  <2>1. /\ StepsOf(c) = CI_POS_SEQUENCE(AC_PREACHING, c.arg) /\ c.arg \in Int
        /\ Drive(c) = PC_Sequencer(AC_PREACHING, c.arg) /\ GuardAt(c) = 3
    BY <1>4 DEF StepsOf, Drive, SequencerNames, GuardAt, Commands
  <2>2. Prepares(CI_POS_SEQUENCE(AC_PREACHING, c.arg), PC_Sequencer(AC_PREACHING, c.arg), 3)
    <3> DEFINE t == PC_Sequencer(AC_PREACHING, c.arg)
               u == CI_POS_SEQUENCE(AC_PREACHING, c.arg)
    <3>1. AC_PREACHING \in Profiles
      BY Constants
    <3>2. /\ Len(u) = 3 + Len(t)
          /\ u[1] = IrInit /\ u[2] = PcInit /\ u[3] = IfOk(Len(t))
          /\ \A i \in 1..Len(t) : u[3 + i] = t[i]
      BY <2>1, <3>1, PosSequenceIs
    <3> HIDE DEF t, u
    <3>3. Prepares(u, t, 3)
      BY <3>2 DEF Prepares
    <3>4. QED
      BY <3>3 DEF t, u
  <2>3. QED
    BY <1>2, <1>4, <2>1, <2>2
<1>5. QED
  BY <1>3, <1>4

\* What a command consists of, by its name.
LEMMA OpsOfCommands ==
    ASSUME NEW c \in Commands
    PROVE  /\ c.name \in SequencerNames \ Special =>
                 StepsOf(c) \in Seq(StepsWith(Switching \cup {"last"}))
           /\ c.name = "CI_RESET" => StepsOf(c) = CI_RESET
           /\ c.name = "CI_BEAMER_TOGGLE" => StepsOf(c) =
                 <<IrInit, Step("read", 0), IfOk(3), Step("flip", 0), Open, WriteIt>>
           /\ c.name = "CI_IR" => c.arg \in Int /\ StepsOf(c) = <<IrInit, IfOk(1), Ir(c.arg)>>
           /\ c.name = "CI_IR_TEACH" => StepsOf(c) = <<IrInit, IfOk(1), Step("irTeach", c.arg)>>
           /\ c.name = "CI_AUDIO_SWITCH" =>
                 \/ c.arg = Direct /\ StepsOf(c) = <<Audio>>
                 \/ c.arg \in Profiles /\ StepsOf(c) = <<Profile(c.arg)>>
           /\ c.name = "CI_AUDIO_TEACH" =>
                 /\ c.arg \in Teachable
                 /\ StepsOf(c) = <<OpenAc, WriteAc>>
                       \o <<IfOk(4), Profile(c.arg), IfOk(2), OpenAc, WriteAc>>
           /\ c.name = "CI_POS_MOVE_BTN" => StepsOf(c) = <<PcInit>>
           /\ c.name = "CItestSequence" =>
                 StepsOf(c) = <<IrInit>> \o Signalled(c.arg)
                                \o <<Step("again", Len(Signalled(c.arg)))>>
           /\ \/ c.name \in SequencerNames \/ c.name \in Mounted
              \/ c.name \in {"CI_IR", "CI_IR_TEACH", "CI_AUDIO_SWITCH", "CI_AUDIO_TEACH",
                             "CI_POS_MOVE_BTN", "CItestSequence"}
<1>1. c.name \in SequencerNames \ Special =>
         StepsOf(c) \in Seq(StepsWith(Switching \cup {"last"}))
  BY SequencerSteps, SequencerOps
<1>2. c.name = "CI_RESET" => StepsOf(c) = CI_RESET
  BY DEF StepsOf, SequencerNames, CIsequencer
<1>3. c.name = "CI_BEAMER_TOGGLE" => StepsOf(c) =
         <<IrInit, Step("read", 0), IfOk(3), Step("flip", 0), Open, WriteIt>>
  <2>1. c.name = "CI_BEAMER_TOGGLE" => StepsOf(c) = CI_BEAMER_TOGGLE
    BY DEF StepsOf, SequencerNames, CIsequencer
  <2>2. QED
    BY <2>1, WholeBeamerToggle
<1>4. c.name = "CI_IR" => c.arg \in Int /\ StepsOf(c) = <<IrInit, IfOk(1), Ir(c.arg)>>
  BY Constants DEF Commands, StepsOf, SequencerNames, Device, NUM_SEQ
<1>5. c.name = "CI_IR_TEACH" => StepsOf(c) = <<IrInit, IfOk(1), Step("irTeach", c.arg)>>
  BY DEF Commands, StepsOf, SequencerNames
<1>6. c.name = "CI_AUDIO_SWITCH" =>
         \/ c.arg = Direct /\ StepsOf(c) = <<Audio>>
         \/ c.arg \in Profiles /\ StepsOf(c) = <<Profile(c.arg)>>
  <2>1. c.name = "CI_AUDIO_SWITCH" =>
           /\ c.arg \in Profiles \cup {Direct}
           /\ StepsOf(c) = IF c.arg = Direct THEN <<Audio>> ELSE <<Profile(c.arg)>>
    BY DEF Commands, StepsOf, SequencerNames
  <2>2. QED
    BY <2>1
<1>7. c.name = "CI_AUDIO_TEACH" =>
         /\ c.arg \in Teachable
         /\ StepsOf(c) = <<OpenAc, WriteAc>>
               \o <<IfOk(4), Profile(c.arg), IfOk(2), OpenAc, WriteAc>>
  <2>1. c.name = "CI_AUDIO_TEACH" => c.arg \in Teachable /\ StepsOf(c) = AC_Teach(c.arg)
    BY DEF Commands, StepsOf, SequencerNames
  <2>2. QED
    BY <2>1, WholeAcTeach
<1>8. c.name = "CI_POS_MOVE_BTN" => StepsOf(c) = <<PcInit>>
  BY DEF StepsOf, SequencerNames
<1>9. c.name = "CItestSequence" =>
         StepsOf(c) = <<IrInit>> \o Signalled(c.arg) \o <<Step("again", Len(Signalled(c.arg)))>>
  <2>1. c.name = "CItestSequence" => StepsOf(c) = CItestSequence(c.arg)
    BY DEF StepsOf, SequencerNames
  <2>2. QED
    BY <2>1, SignalledIs
<1>10. \/ c.name \in SequencerNames \/ c.name \in Mounted
       \/ c.name \in {"CI_IR", "CI_IR_TEACH", "CI_AUDIO_SWITCH", "CI_AUDIO_TEACH",
                      "CI_POS_MOVE_BTN", "CItestSequence"}
  BY DEF Commands, Mounted
<1> QED
  BY <1>1, <1>2, <1>3, <1>4, <1>5, <1>6, <1>7, <1>8, <1>9, <1>10

\* Which operations a command of the mount has, and where.
LEMMA MountOps ==
    ASSUME NEW c \in Commands, c.name \in Mounted, NEW k \in 1..Len(StepsOf(c))
    PROVE  LET s == StepsOf(c)
               d == GuardAt(c)
               t == Drive(c)
           IN  /\ d \in {3, 5} /\ Len(s) = d + Len(t) /\ Len(t) \in Nat
               /\ k < d - 1 => s[k].op \in {"irInit", "ifOk", "ir"}
               /\ k < d - 1 /\ s[k].op = "ir" => k = 3 /\ s[k] = Ir(2)
               /\ k = d - 1 => s[k].op = "pcInit"
               /\ k = d => s[k].op = "ifOk"
               /\ k > d => k - d \in 1..Len(t) /\ s[k] = t[k-d]
               /\ k > d => s[k].op \in {"profile", "ir", "ifOk", "move", "within", "forget",
                                        "zoomSave", "openPc", "writePc"}
<1> DEFINE s == StepsOf(c)
           d == GuardAt(c)
           t == Drive(c)
<1>1. Prepares(s, t, d) /\ Drives(t)
  BY MountSteps
<1>2. Len(t) \in Nat
  BY <1>1, LenProperties DEF Drives
<1>3. k \in 1..Len(s)
  OBVIOUS
<1> HIDE DEF s, d, t
<1>4. /\ d \in {3, 5} /\ Len(s) = d + Len(t)
      /\ s[1] = IrInit /\ s[d-1] = PcInit /\ s[d] = IfOk(Len(t))
      /\ d = 5 => s[2] = IfOk(1) /\ s[3] = Ir(2)
      /\ \A i \in 1..Len(t) : s[d + i] = t[i]
  BY <1>1 DEF Prepares
<1>5. /\ IrInit.op = "irInit" /\ PcInit.op = "pcInit" /\ Ir(2).op = "ir"
      /\ \A n : IfOk(n).op = "ifOk"
  BY DEF IrInit, PcInit, Ir, IfOk, Step
<1>6. k < d - 1 => (k = 1 \/ (d = 5 /\ (k = 2 \/ k = 3)))
  BY <1>2, <1>3, <1>4
<1>7. k < d - 1 => s[k].op \in {"irInit", "ifOk", "ir"} /\ (s[k].op = "ir" => k = 3 /\ s[k] = Ir(2))
  BY <1>4, <1>5, <1>6
<1>8. ASSUME k > d PROVE k - d \in 1..Len(t) /\ s[k] = t[k-d]
  <2>1. k - d \in 1..Len(t) /\ d + (k - d) = k
    BY <1>2, <1>3, <1>4, <1>8
  <2>2. QED
    BY <1>4, <2>1
<1>9. k > d => s[k].op \in {"profile", "ir", "ifOk", "move", "within", "forget",
                            "zoomSave", "openPc", "writePc"}
  BY <1>1, <1>8 DEF Drives
<1>10. /\ k = d - 1 => s[k].op = "pcInit"
       /\ k = d => s[k].op = "ifOk"
  BY <1>4, <1>5
<1>11. QED
  BY <1>2, <1>4, <1>7, <1>8, <1>9, <1>10 DEF s, d, t

\* Profiles a process can save as the active one.
Keepable == {AC_WORSHIP} \cup Teachable
Keeping == {s \in StepSet : s.op \in {"profile", "active"} => s.arg \in Keepable}

\* Of the commands that save the profiles none sets another one.
LEMMA SavingSteps ==
    ASSUME NEW c \in Commands
    PROVE  \/ \A k \in 1..Len(StepsOf(c)) : StepsOf(c)[k].op \notin {"openAc", "writeAc"}
           \/ StepsOf(c) \in Seq(Keeping)
<1> DEFINE O == Ops \ {"openAc", "writeAc"}
<1>1. ASSUME NEW s \in Seq(StepsWith(O))
      PROVE  \A k \in 1..Len(s) : s[k].op \notin {"openAc", "writeAc"}
  BY ElementOfSeq DEF StepsWith
<1>2. ASSUME NEW Q, Q \subseteq O, NEW s \in Seq(StepsWith(Q)) PROVE s \in Seq(StepsWith(O))
  BY <1>2, MoreOps
<1>3. CASE c.name \in SequencerNames \ Special
  <2>1. StepsOf(c) \in Seq(StepsWith(Switching \cup {"last"}))
    BY <1>3, OpsOfCommands
  <2>2. Switching \cup {"last"} \subseteq O
    BY DEF Switching, Showing, Ops
  <2> HIDE DEF O
  <2>3. QED
    BY <1>1, <1>2, <2>1, <2>2
<1>4. CASE c.name = "CI_RESET"
  <2>1. \A s, t \in Seq(Keeping) : s \o t \in Seq(Keeping)
    BY ConcatProperties
  <2>2. /\ Audio \in Keeping /\ Step("active", AC_WORSHIP) \in Keeping /\ OpenAc \in Keeping
        /\ WriteAc \in Keeping /\ Forget \in Keeping /\ Profile(AC_WORSHIP) \in Keeping
        /\ IrInit \in Keeping /\ IfOk(1) \in Keeping /\ Ir(0) \in Keeping /\ Ir(5) \in Keeping
        /\ Step("toggle", ToggleOf(5)) \in Keeping /\ Open \in Keeping /\ WriteIt \in Keeping
    BY Constants DEF Keeping, Keepable, StepSet, Ops, Audio, Step, OpenAc, WriteAc, Forget,
       Profile, IrInit, IfOk, Ir, Open, WriteIt
  <2>3. <<Audio, Step("active", AC_WORSHIP)>> \in Seq(Keeping) /\ <<Forget>> \in Seq(Keeping)
    BY <2>2
  <2>4. SaveProfiles \in Seq(Keeping) /\ Save \in Seq(Keeping)
    <3>1. SaveProfiles = <<OpenAc, WriteAc>> /\ Save = <<Open, WriteIt>>
      BY DEF SaveProfiles, OpenAc, WriteAc, Save, Open, WriteIt
    <3>2. QED
      BY <2>2, <3>1
  <2>5. View(AC_WORSHIP, 0) \in Seq(Keeping)
    BY <2>2 DEF View
  <2>6. <<IfOk(1), Ir(5), Step("toggle", ToggleOf(5))>> \in Seq(Keeping)
    BY <2>2
  <2>7. ResetFirst \in Seq(Keeping)
    BY <2>1, <2>3, <2>4 DEF ResetFirst
  <2>8. CI_RESET \in Seq(Keeping)
    BY <2>1, <2>4, <2>5, <2>6, <2>7, WholeReset
  <2>9. QED
    BY <1>4, <2>8, OpsOfCommands
<1>5. CASE c.name = "CI_AUDIO_TEACH"
  <2>1. /\ c.arg \in Teachable
        /\ StepsOf(c) = <<OpenAc, WriteAc>> \o <<IfOk(4), Profile(c.arg), IfOk(2), OpenAc, WriteAc>>
    BY <1>5, OpsOfCommands
  <2>2. c.arg \in Int
    <3>1. c.arg \in Teachable
      BY <2>1
    <3>2. c.arg \in 0..9
      BY <3>1, TeachableAssumption
    <3>3. QED
      BY <3>2
  <2>3. /\ OpenAc \in Keeping /\ WriteAc \in Keeping /\ IfOk(4) \in Keeping /\ IfOk(2) \in Keeping
        /\ Profile(c.arg) \in Keeping
    BY <2>1, <2>2 DEF Keeping, Keepable, StepSet, Ops, Step, OpenAc, WriteAc, Profile, IfOk
  <2>4. /\ <<OpenAc, WriteAc>> \in Seq(Keeping)
        /\ <<IfOk(4), Profile(c.arg), IfOk(2), OpenAc, WriteAc>> \in Seq(Keeping)
    BY <2>3
  <2>5. QED
    BY <2>1, <2>4, ConcatProperties
<1>6. CASE c.name \in Mounted
  <2>1. ASSUME NEW k \in 1..Len(StepsOf(c))
        PROVE  StepsOf(c)[k].op \notin {"openAc", "writeAc"}
    <3>0. GuardAt(c) \in {3, 5} /\ k \in Int
      BY <1>6, MountOps
    <3>1. k < GuardAt(c) - 1 \/ k = GuardAt(c) - 1 \/ k = GuardAt(c) \/ k > GuardAt(c)
      BY <3>0
    <3>2. QED
      BY <1>6, <3>1, MountOps
  <2>2. QED
    BY <2>1
<1>7. CASE c.name = "CItestSequence"
  <2> DEFINE n == Len(Signalled(c.arg))
  <2>1. Signalled(c.arg) \in Seq(StepsWith(O))
    <3>1. \A s \in Signals : s \in StepsWith(O)
      BY DEF Signals, Plain, StepsWith, Ops
    <3>2. Signalled(c.arg) \in Seq(Signals)
      BY SignalledIs
    <3> HIDE DEF O
    <3>3. QED
      BY <3>1, <3>2
  <2>2. n \in Int
    BY <2>1, LenProperties
  <2> HIDE DEF n
  <2>3. IrInit \in StepsWith(O) /\ Step("again", n) \in StepsWith(O)
    BY <2>2 DEF StepsWith, StepSet, Ops, IrInit, Step
  <2>4. <<IrInit>> \in Seq(StepsWith(O)) /\ <<Step("again", n)>> \in Seq(StepsWith(O))
    BY <2>3
  <2>5. \A s, t \in Seq(StepsWith(O)) : s \o t \in Seq(StepsWith(O))
    BY StepsWithIs
  <2>6. StepsOf(c) = <<IrInit>> \o Signalled(c.arg) \o <<Step("again", n)>>
    BY <1>7, OpsOfCommands DEF n
  <2> HIDE DEF O
  <2>7. StepsOf(c) \in Seq(StepsWith(O))
    BY <2>1, <2>4, <2>5, <2>6
  <2>8. QED
    BY <1>1, <2>7
<1>8. CASE c.name \in {"CI_BEAMER_TOGGLE", "CI_IR", "CI_IR_TEACH", "CI_AUDIO_SWITCH",
                       "CI_POS_MOVE_BTN"}
  <2>1. /\ \A q \in Int : Ir(q).op = "ir" /\ Profile(q).op = "profile"
        /\ \A n : IfOk(n).op = "ifOk" /\ Step("irTeach", n).op = "irTeach"
        /\ IrInit.op = "irInit" /\ Audio.op = "audio" /\ PcInit.op = "pcInit"
        /\ Open.op = "open" /\ WriteIt.op = "write"
        /\ Step("read", 0).op = "read" /\ Step("flip", 0).op = "flip"
    BY DEF IrInit, IfOk, Ir, Audio, Profile, PcInit, Open, WriteIt, Step
  <2>2. CASE c.name = "CI_BEAMER_TOGGLE"
    <3>1. StepsOf(c) = <<IrInit, Step("read", 0), IfOk(3), Step("flip", 0), Open, WriteIt>>
      BY <2>2, OpsOfCommands
    <3>2. QED
      BY <2>1, <3>1
  <2>3. CASE c.name = "CI_IR"
    <3>1. c.arg \in Int /\ StepsOf(c) = <<IrInit, IfOk(1), Ir(c.arg)>>
      BY <2>3, OpsOfCommands
    <3>2. QED
      BY <2>1, <3>1
  <2>4. CASE c.name = "CI_IR_TEACH"
    <3>1. StepsOf(c) = <<IrInit, IfOk(1), Step("irTeach", c.arg)>>
      BY <2>4, OpsOfCommands
    <3>2. QED
      BY <2>1, <3>1
  <2>5. CASE c.name = "CI_AUDIO_SWITCH"
    <3>1. \/ StepsOf(c) = <<Audio>>
          \/ c.arg \in Profiles /\ StepsOf(c) = <<Profile(c.arg)>>
      BY <2>5, OpsOfCommands
    <3>2. QED
      BY <2>1, <3>1, Constants
  <2>6. CASE c.name = "CI_POS_MOVE_BTN"
    <3>1. StepsOf(c) = <<PcInit>>
      BY <2>6, OpsOfCommands
    <3>2. QED
      BY <2>1, <3>1
  <2>7. QED
    BY <1>8, <2>2, <2>3, <2>4, <2>5, <2>6
<1>9. QED
  BY <1>3, <1>4, <1>5, <1>6, <1>7, <1>8, OpsOfCommands DEF Special

-----------------------------------------------------------------------------
(* The types                                                               *)

\* A process is placed in its command when it starts, until it is gone.
LEMMA StartsPlaced ==
    ASSUME NEW c \in Commands, Start(c)
    PROVE  Placed' /\ Here' = 1 /\ pc' = "run" /\ command' = c
<1>1. pc' = "run" /\ command' = c /\ todo' = StepsOf(c)
  BY DEF Start
<1>2. StepsOf(c) \in Seq(StepSet) /\ Len(StepsOf(c)) \in Nat
  BY WholeSteps, LenProperties DEF Whole, Fitting
<1>3. Here' = 1
  BY <1>1, <1>2 DEF Here, Done
<1>4. SubSeq(StepsOf(c), 1, Len(StepsOf(c))) = StepsOf(c)
  <2> DEFINE s == StepsOf(c)
             r == SubSeq(s, 1, Len(s))
  <2>1. s \in Seq(StepSet) /\ Len(s) \in Nat
    BY <1>2
  <2> HIDE DEF s
  <2>2. r \in Seq(StepSet) /\ Len(r) = Len(s) - 1 + 1
        /\ \A i \in 1..(Len(s) - 1 + 1) : r[i] = s[1 + i - 1]
    BY <2>1, SubSeqProperties
  <2>3. \A i \in 1..Len(s) : 1 + i - 1 = i
    OBVIOUS
  <2> HIDE DEF r
  <2>4. r = s
    BY <2>1, <2>2, <2>3, SeqEqual
  <2>5. QED
    BY <2>4 DEF r, s
<1>5. QED
  BY <1>1, <1>2, <1>3, <1>4 DEF Placed

LEMMA PlacedStep ==
    ASSUME Placed, [Next]_vars
    PROVE  Placed'
<1>1. CASE \E c \in Commands : Start(c)
  BY <1>1, StartsPlaced
<1>2. CASE Steps
  BY <1>2, Flow
<1>3. CASE Return
  <2>1. pc' = "returned" /\ command' = command /\ todo' = <<>>
    BY <1>3 DEF Return
  <2>2. QED
    BY <2>1 DEF Placed
<1>4. CASE Exit \/ Kill
  <2>1. pc' = "idle" /\ command' = NoCommand /\ todo' = <<>>
    BY <1>4 DEF Exit, Kill, Gone
  <2>2. NoCommand \in Commands
    BY DEF NoCommand, Commands, SequencerNames
  <2>3. QED
    BY <2>1, <2>2 DEF Placed
<1>5. CASE UNCHANGED vars
  BY <1>5 DEF vars, control, Placed, Here, Done
<1>6. QED
  BY <1>1, <1>2, <1>3, <1>4, <1>5 DEF Next

\* Types of what is neither control nor history, and that a process that is to
\* save the profiles has an active one that can be saved.
Flags ==
    /\ ok \in BOOLEAN /\ stored \in BOOLEAN /\ loaded \in BOOLEAN /\ table \in BOOLEAN
    /\ pcFile \in BOOLEAN /\ disturbed \in BOOLEAN
Values ==
    /\ toggle \in 0..2
    /\ active \in Profiles \cup Teachable
    /\ taught \subseteq Sequences0 /\ parts \subseteq Sequences0 \ taught
    /\ ciFile \in (0..2) \cup {Missing, Empty}
    /\ acFile \in AcData \cup {EmptyAc}
    /\ hdmi \in HdmiSeqs \cup {Unknown} /\ beamer \in BeamerSeqs
    /\ mixer \in Profiles \cup Teachable \cup {Unknown}
    /\ lost \subseteq {"profiles", "positions"}
DataTypes == Flags /\ Values
CanSave == pc = "run" /\ Saves(command) => active \in Keepable
TypeInv == Placed /\ DataTypes /\ CanSave

\* Where the profiles are saved, they are so in one of the commands for that.
LEMMA SavesHere ==
    ASSUME Placed, pc = "run", todo # <<>>
    PROVE  /\ Current.op \in {"openAc", "writeAc"} => Saves(command)
           /\ Saves(command) /\ Current.op \in {"profile", "active"} => Current.arg \in Keepable
<1> DEFINE s == StepsOf(command)
<1>1. /\ s \in Seq(StepSet) /\ Len(s) \in Nat /\ Here \in 1..Len(s) /\ Fits(s, Here)
      /\ Current = s[Here] /\ command \in Commands
  BY Located DEF Current, Placed
<1>2. s[1].op \notin Bound
  BY <1>1, WholeSteps DEF Whole
<1>3. \A k \in 1..Len(s) : s[k].op = "openAc" => Saves(command)
  BY DEF Saves
<1> HIDE DEF s
<1>4. CASE Current.op = "writeAc"
  <2>1. Here > 1 /\ s[Here-1].op \in Before("writeAc")
    BY <1>1, <1>2, <1>4 DEF Fits, Bound
  <2>2. s[Here-1].op = "openAc" /\ Here - 1 \in 1..Len(s)
    BY <1>1, <2>1 DEF Before
  <2>3. QED
    BY <1>3, <1>4, <2>2
<1>5. Saves(command) => s \in Seq(Keeping)
  BY <1>1, SavingSteps DEF Saves, s
<1>6. s \in Seq(Keeping) => s[Here] \in Keeping
  BY <1>1, ElementOfSeq
<1>7. QED
  BY <1>1, <1>3, <1>4, <1>5, <1>6 DEF Keeping

\* The arguments of the steps that enter them into the data.
LEMMA ArgTypes ==
    ASSUME Placed, pc = "run", todo # <<>>
    PROVE  /\ Head(todo) = Current
           /\ Current.op \in {"profile", "active"} => Arg \in Profiles \cup Teachable
           /\ Current.op = "irTeach" => Arg \in Sequences0
           /\ Current.op = "toggle" => Arg \in 0..2
<1> DEFINE s == StepsOf(command)
<1>1. /\ Head(todo) = Current /\ Here \in 1..Len(s) /\ Fits(s, Here) /\ Current = s[Here]
  BY Located DEF Current
<1>2. \A q \in BeamerSeqs : ToggleOf(q) \in 0..2
  BY DEF BeamerSeqs, ToggleOf
<1> HIDE DEF s
<1>3. Current.op = "toggle" => Current.arg \in 0..2
  BY <1>1, <1>2 DEF Fits
<1>4. QED
  BY <1>1, <1>3 DEF Fits, Arg

\* A torn file has whole sequences and parts of others.
LEMMA TearsTyped ==
    ASSUME Values, NEW n \in Cuts, TearsAt(n), Arg \in Sequences0
    PROVE  taught' \subseteq Sequences0 /\ parts' \subseteq Sequences0 \ taught'
<1>1. n \in Sequences0 /\ n >= n
  BY CutsAssumption DEF Sequences0, NUM_SEQ
<1>2. taught \subseteq Sequences0 /\ parts \subseteq Sequences0 \ taught
  BY DEF Values
<1> DEFINE gone == {seq \in Sequences0 : seq >= n}
<1>3. n \in gone
  BY <1>1
<1>4. /\ taught' = (taught \cup {Arg}) \ gone
      /\ parts' \subseteq ((parts \ {Arg}) \ gone) \cup {n}
  BY DEF TearsAt
<1> HIDE DEF gone
<1>5. QED
  BY <1>1, <1>2, <1>3, <1>4

LEMMA DataStep ==
    ASSUME TypeInv, Steps
    PROVE  DataTypes' /\ CanSave'
<1>1. /\ pc = "run" /\ pc' = "run" /\ command' = command /\ todo # <<>>
      /\ Head(todo) = Current
  BY Flow DEF TypeInv
<1>2. /\ Current.op \in {"profile", "active"} => Arg \in Profiles \cup Teachable
      /\ Current.op = "irTeach" => Arg \in Sequences0
      /\ Current.op = "toggle" => Arg \in 0..2
  BY <1>1, ArgTypes DEF TypeInv
<1>3. /\ Current.op \in {"openAc", "writeAc"} => Saves(command)
      /\ Saves(command) /\ Current.op \in {"profile", "active"} => Arg \in Keepable
  BY <1>1, SavesHere DEF TypeInv, Arg
<1>4. Flags /\ Values /\ (Saves(command) => active \in Keepable)
  BY <1>1 DEF TypeInv, DataTypes, CanSave
<1>5. CanSave' <=> (Saves(command) => active' \in Keepable)
  BY <1>1 DEF CanSave
<1>6. \A op : Running(op) <=> Current.op = op
  BY <1>1 DEF Running
<1>7. CASE IfOkStep
  <2>1. Flags'
    BY <1>4, <1>7, Zenon DEF IfOkStep, control, audio, picture, toggles, mount, Flags
  <2>2. Values' /\ (Saves(command) => active' \in Keepable)
    BY <1>4, <1>7 DEF IfOkStep, control, audio, picture, toggles, mount, Values
  <2>3. QED
    BY <1>5, <2>1, <2>2 DEF DataTypes
<1>8. CASE AgainStep
  <2>1. Flags'
    BY <1>4, <1>8, Zenon DEF AgainStep, control, audio, picture, toggles, mount, Flags
  <2>2. Values' /\ (Saves(command) => active' \in Keepable)
    BY <1>4, <1>8 DEF AgainStep, control, audio, picture, toggles, mount, Values
  <2>3. QED
    BY <1>5, <2>1, <2>2 DEF DataTypes
<1>9. CASE MoveStep
  <2>1. Flags'
    BY <1>4, <1>9, Zenon DEF MoveStep, Continue, Fails, audio, picture, toggles, mount, Flags
  <2>2. Values' /\ (Saves(command) => active' \in Keepable)
    BY <1>4, <1>9 DEF MoveStep, Fails, audio, picture, toggles, mount, Values
  <2>3. QED
    BY <1>5, <2>1, <2>2 DEF DataTypes
<1>10. CASE LastStep
  <2>1. Flags'
    BY <1>4, <1>10, Zenon DEF LastStep, Continue, Fails, audio, picture, toggles, mount, Flags
  <2>2. Values' /\ (Saves(command) => active' \in Keepable)
    BY <1>4, <1>10 DEF LastStep, Fails, audio, picture, toggles, mount, Values
  <2>3. QED
    BY <1>5, <2>1, <2>2 DEF DataTypes
<1>11. CASE ForgetStep
  <2>1. Flags'
    BY <1>4, <1>11, Zenon DEF ForgetStep, Continue, audio, picture, toggles, mount, Flags
  <2>2. Values' /\ (Saves(command) => active' \in Keepable)
    BY <1>4, <1>11 DEF ForgetStep, audio, picture, toggles, mount, Values
  <2>3. QED
    BY <1>5, <2>1, <2>2 DEF DataTypes
<1>12. CASE ProfileStep
  <2>1. Flags'
    BY <1>4, <1>12, Zenon DEF ProfileStep, Continue, Fails, picture, toggles, mount, Flags
  <2>2. Values' /\ (Saves(command) => active' \in Keepable)
    BY <1>2, <1>3, <1>6, <1>4, <1>12 DEF ProfileStep, Fails, picture, toggles, mount, Values
  <2>3. QED
    BY <1>5, <2>1, <2>2 DEF DataTypes
<1>13. CASE AudioStep
  <2>1. Flags'
    BY <1>4, <1>13, Zenon DEF AudioStep, Continue, Fails, picture, toggles, mount, Flags
  <2>2. Values' /\ (Saves(command) => active' \in Keepable)
    BY <1>4, <1>13 DEF AudioStep, Fails, picture, toggles, mount, Values
  <2>3. QED
    BY <1>5, <2>1, <2>2 DEF DataTypes
<1>14. CASE ActiveStep
  <2>1. Flags'
    BY <1>4, <1>14, Zenon DEF ActiveStep, Continue, picture, toggles, mount, Flags
  <2>2. Values' /\ (Saves(command) => active' \in Keepable)
    BY <1>2, <1>3, <1>6, <1>4, <1>14 DEF ActiveStep, picture, toggles, mount, Values
  <2>3. QED
    BY <1>5, <2>1, <2>2 DEF DataTypes
<1>15. CASE OpenAcStep
  <2>1. Flags'
    BY <1>4, <1>15, Zenon DEF OpenAcStep, Fails, picture, toggles, mount, Flags
  <2>2. Values' /\ (Saves(command) => active' \in Keepable)
    BY <1>4, <1>15 DEF OpenAcStep, Fails, picture, toggles, mount, Values
  <2>3. QED
    BY <1>5, <2>1, <2>2 DEF DataTypes
<1>16. CASE WriteAcStep
  <2>1. active \in Keepable
    BY <1>3, <1>4, <1>6, <1>16 DEF WriteAcStep
  <2>2. [active |-> active, stored |-> stored] \in AcData
    BY <2>1, <1>4 DEF AcData, Keepable, Flags
  <2>3. Flags'
    BY <1>4, <1>16, Zenon DEF WriteAcStep, Continue, Lose, picture, toggles, mount, Flags
  <2>4. Values' /\ (Saves(command) => active' \in Keepable)
    BY <1>4, <1>16, <2>1, <2>2 DEF WriteAcStep, Lose, picture, toggles, mount, Values
  <2>5. QED
    BY <1>5, <2>3, <2>4 DEF DataTypes
<1>17. CASE IrInitStep
  <2>1. Flags'
    BY <1>4, <1>17, Zenon DEF IrInitStep, Continue, ReadIrDat, Fails, audio, toggles, mount, Flags
  <2>2. Values' /\ (Saves(command) => active' \in Keepable)
    BY <1>4, <1>17 DEF IrInitStep, ReadIrDat, Fails, audio, toggles, mount, Values
  <2>3. QED
    BY <1>5, <2>1, <2>2 DEF DataTypes
<1>18. CASE IrStep
  <2>1. Flags'
    BY <1>4, <1>18, Zenon DEF IrStep, Continue, Send, Settle, Fails, audio, mount, Flags
  <2>2. Values' /\ (Saves(command) => active' \in Keepable)
    BY <1>4, <1>18 DEF IrStep, Send, Settle, Fails, audio, mount, Values
  <2>3. QED
    BY <1>5, <2>1, <2>2 DEF DataTypes
<1>19. CASE IrTeachStep
  <2>1. Flags'
    BY <1>4, <1>19, Zenon DEF IrTeachStep, Continue, audio, toggles, mount, Flags
  <2>2. Arg \in Sequences0
    BY <1>2, <1>6, <1>19 DEF IrTeachStep
  <2>3. taught' \subseteq Sequences0 /\ parts' \subseteq Sequences0 \ taught'
    <3>1. CASE taught' = taught \cup {Arg} /\ parts' = parts \ {Arg}
      BY <1>4, <2>2, <3>1 DEF Values
    <3>2. CASE UNCHANGED <<taught, parts>>
      BY <1>4, <3>2 DEF Values
    <3>3. ASSUME NEW n \in Cuts, TearsAt(n)
          PROVE  taught' \subseteq Sequences0 /\ parts' \subseteq Sequences0 \ taught'
      BY <1>4, <2>2, <3>3, TearsTyped
    <3>4. QED
      BY <1>19, <3>1, <3>2, <3>3 DEF IrTeachStep
  <2>4. Values' /\ (Saves(command) => active' \in Keepable)
    BY <1>2, <1>6, <1>4, <1>19, <2>3 DEF IrTeachStep, audio, toggles, mount, Values
  <2>5. QED
    BY <1>5, <2>1, <2>4 DEF DataTypes
<1>20. CASE FlipStep
  <2>1. FlipTo(toggle) \in {5, 6}
    BY DEF FlipTo
  <2>2. ToggleOf(FlipTo(toggle)) \in 0..2
    BY <2>1 DEF ToggleOf
  <2>3. Flags'
    BY <1>4, <1>20, Zenon DEF FlipStep, Continue, Send, Settle, Fails, audio, mount, Flags
  <2>4. Values' /\ (Saves(command) => active' \in Keepable)
    BY <1>4, <1>20, <2>1, <2>2 DEF FlipStep, Send, Settle, Fails, audio, mount, Values
  <2>5. QED
    BY <1>5, <2>3, <2>4 DEF DataTypes
<1>21. CASE ToggleStep
  <2>1. Flags'
    BY <1>4, <1>21, Zenon DEF ToggleStep, Continue, Disturb, audio, picture, mount, Flags
  <2>2. Values' /\ (Saves(command) => active' \in Keepable)
    BY <1>2, <1>6, <1>4, <1>21 DEF ToggleStep, Disturb, audio, picture, mount, Values
  <2>3. QED
    BY <1>5, <2>1, <2>2 DEF DataTypes
<1>22. CASE ReadStep
  <2>1. ciFile # Missing => ReadToggle(ciFile) \in 0..2
    BY <1>4 DEF ReadToggle, Values
  <2>2. Flags'
    BY <1>4, <1>22, Zenon DEF ReadStep, Continue, Fails, audio, picture, mount, Flags
  <2>3. Values' /\ (Saves(command) => active' \in Keepable)
    BY <1>4, <1>22, <2>1 DEF ReadStep, Fails, audio, picture, mount, Values
  <2>4. QED
    BY <1>5, <2>2, <2>3 DEF DataTypes
<1>23. CASE OpenStep
  <2>1. Flags'
    BY <1>4, <1>23, Zenon DEF OpenStep, Disturb, Fails, audio, picture, mount, Flags
  <2>2. Values' /\ (Saves(command) => active' \in Keepable)
    BY <1>4, <1>23 DEF OpenStep, Disturb, Fails, audio, picture, mount, Values
  <2>3. QED
    BY <1>5, <2>1, <2>2 DEF DataTypes
<1>24. CASE WriteStep
  <2>1. Flags'
    BY <1>4, <1>24, Zenon DEF WriteStep, Continue, Disturb, audio, picture, mount, Flags
  <2>2. Values' /\ (Saves(command) => active' \in Keepable)
    BY <1>4, <1>24 DEF WriteStep, Disturb, audio, picture, mount, Values
  <2>3. QED
    BY <1>5, <2>1, <2>2 DEF DataTypes
<1>25. CASE PcInitStep
  <2>1. Flags'
    BY <1>4, <1>25, Zenon DEF PcInitStep, Continue, Fails, Lose, audio, picture, toggles, Flags
  <2>2. Values' /\ (Saves(command) => active' \in Keepable)
    BY <1>4, <1>25 DEF PcInitStep, Fails, Lose, audio, picture, toggles, Values
  <2>3. QED
    BY <1>5, <2>1, <2>2 DEF DataTypes
<1>26. CASE OpenPcStep
  <2>1. Flags'
    BY <1>4, <1>26, Zenon DEF OpenPcStep, Fails, audio, picture, toggles, Flags
  <2>2. Values' /\ (Saves(command) => active' \in Keepable)
    BY <1>4, <1>26 DEF OpenPcStep, Fails, audio, picture, toggles, Values
  <2>3. QED
    BY <1>5, <2>1, <2>2 DEF DataTypes
<1>27. CASE WritePcStep
  <2>1. Flags'
    BY <1>4, <1>27, Zenon DEF WritePcStep, Continue, Lose, audio, picture, toggles, Flags
  <2>2. Values' /\ (Saves(command) => active' \in Keepable)
    BY <1>4, <1>27 DEF WritePcStep, Lose, audio, picture, toggles, Values
  <2>3. QED
    BY <1>5, <2>1, <2>2 DEF DataTypes
<1>28. QED
  BY <1>7, <1>8, <1>9, <1>10, <1>11, <1>12, <1>13, <1>14, <1>15, <1>16, <1>17, <1>18, <1>19, <1>20, <1>21, <1>22, <1>23, <1>24, <1>25, <1>26, <1>27 DEF Steps

LEMMA TypeInvInit == Init => TypeInv
<1> SUFFICES ASSUME Init PROVE TypeInv
  OBVIOUS
<1>1. NoCommand \in Commands
  BY DEF NoCommand, Commands, SequencerNames
<1>2. Placed
  BY <1>1 DEF Init, Placed
<1>3. taught \subseteq Sequences0 /\ parts = {}
  BY TaughtAssumption DEF Init
<1>4. ciFile \in 0..2 /\ beamer \in BeamerSeqs
  BY DEF Init, BeamerSeqs, ToggleOf
<1>5. acFile \in AcData
  BY DEF Init, AcData
<1>6. active \in Profiles /\ toggle \in 0..2
  BY Constants DEF Init
<1>7. DataTypes
  BY <1>3, <1>4, <1>5, <1>6 DEF Init, DataTypes, Flags, Values
<1>8. CanSave
  BY DEF Init, CanSave
<1>9. QED
  BY <1>2, <1>7, <1>8 DEF TypeInv

LEMMA TypeInvStep == TypeInv /\ [Next]_vars => TypeInv'
<1> SUFFICES ASSUME TypeInv, [Next]_vars PROVE TypeInv'
  OBVIOUS
<1>1. Placed'
  BY PlacedStep DEF TypeInv
<1>2. CASE Steps
  BY <1>1, <1>2, DataStep DEF TypeInv
<1>3. ASSUME NEW c \in Commands, Start(c) PROVE DataTypes' /\ CanSave'
  <2>1. PICK file \in {acFile, EmptyAc} :
           active' = AfterRead(file).active /\ stored' = AfterRead(file).stored
           /\ Lose("profiles", file # acFile /\ Saves(c))
    BY <1>3 DEF Start
  <2>2. file \in AcData \cup {EmptyAc}
    BY <2>1 DEF TypeInv, DataTypes, Values
  <2>3. AfterRead(file).active \in Keepable /\ AfterRead(file).stored \in BOOLEAN
    <3>1. CASE file = EmptyAc
      BY <3>1 DEF AfterRead, ZeroedAc, Keepable
    <3>2. CASE file # EmptyAc
      BY <2>2, <3>2 DEF AfterRead, AcData, Keepable
    <3>3. QED
      BY <3>1, <3>2
  <2>4. Keepable \subseteq Profiles \cup Teachable
    BY Constants DEF Keepable
  <2>5. CanSave'
    BY <2>1, <2>3 DEF CanSave
  <2>6. lost' \subseteq {"profiles", "positions"}
    BY <2>1 DEF Lose, TypeInv, DataTypes, Values
  <2>7. Flags'
    BY <1>3, <2>1, <2>3, Zenon DEF Start, picture, toggles, mount, TypeInv, DataTypes, Flags
  <2>8. Values'
    BY <1>3, <2>1, <2>3, <2>4, <2>6 DEF Start, picture, toggles, mount, TypeInv, DataTypes, Values
  <2>9. QED
    BY <2>5, <2>7, <2>8 DEF DataTypes
<1>4. CASE Return
  <2>1. Flags'
    BY <1>4, Zenon DEF Return, audio, picture, toggles, mount, TypeInv, DataTypes, Flags
  <2>2. Values' /\ CanSave'
    BY <1>4 DEF Return, audio, picture, toggles, mount, TypeInv, DataTypes, Values, CanSave
  <2>3. QED
    BY <1>1, <2>1, <2>2 DEF TypeInv, DataTypes
<1>5. CASE Exit \/ Kill
  <2>1. Gone
    BY <1>5 DEF Exit, Kill
  <2>2. /\ taught' \subseteq Sequences0 /\ parts' \subseteq Sequences0 \ taught'
        /\ lost' \subseteq {"profiles", "positions"}
    <3>1. lost' \subseteq {"profiles", "positions"}
      BY <1>5 DEF Exit, Kill, TypeInv, DataTypes, Values
    <3>2. CASE UNCHANGED <<taught, parts>>
      BY <3>1, <3>2 DEF TypeInv, DataTypes, Values
    <3>3. ASSUME Running("irTeach"), NEW n \in Cuts, TearsAt(n)
          PROVE  taught' \subseteq Sequences0 /\ parts' \subseteq Sequences0 \ taught'
      <4>1. Arg \in Sequences0
        BY <3>3, ArgTypes DEF Running, TypeInv
      <4>2. QED
        BY <3>3, <4>1, TearsTyped DEF TypeInv, DataTypes
    <3>4. QED
      BY <1>5, <3>1, <3>2, <3>3 DEF Exit, Kill
  <2>3. disturbed' \in BOOLEAN
    BY <1>5, Zenon DEF Exit, Kill, Disturb, TypeInv, DataTypes, Flags
  <2>4. active' \in Profiles /\ toggle' \in 0..2
    BY <2>1, Constants DEF Gone
  <2>5. Flags'
    BY <2>1, <2>3, Zenon DEF Gone, TypeInv, DataTypes, Flags
  <2>6. Values'
    BY <2>1, <2>2, <2>4 DEF Gone, TypeInv, DataTypes, Values
  <2>7. CanSave'
    BY <2>1 DEF Gone, CanSave
  <2>8. QED
    BY <1>1, <2>5, <2>6, <2>7 DEF TypeInv, DataTypes
<1>6. CASE UNCHANGED vars
  <2>1. Flags'
    BY <1>6, Zenon DEF vars, control, audio, picture, toggles, mount, TypeInv, DataTypes, Flags
  <2>2. Values' /\ CanSave'
    BY <1>6 DEF vars, control, audio, picture, toggles, mount, TypeInv, DataTypes, Values, CanSave
  <2>3. QED
    BY <1>1, <2>1, <2>2 DEF TypeInv, DataTypes
<1>7. QED
  BY <1>1, <1>2, <1>3, <1>4, <1>5, <1>6 DEF Next, TypeInv

LEMMA TypeInvHolds == Spec => []TypeInv
<1>1. QED
  BY TypeInvInit, TypeInvStep, PTL DEF Spec

\* A running command is always at a step of its own, and every variable has its
\* type: the saved active profile is worship or one that was taught, and what is
\* read from CI_Dat.bin is a state of the toggle.
THEOREM TypeCorrect == Spec => []TypeOK
<1>1. TypeInv => TypeOK
  <2> SUFFICES ASSUME TypeInv PROVE TypeOK
    OBVIOUS
  <2>1. pc = "run" => todo = SubSeq(StepsOf(command), Done + 1, Len(StepsOf(command)))
    BY DEF TypeInv, Placed, Here
  <2>2. QED
    BY <2>1 DEF TypeInv, Placed, DataTypes, Flags, Values, TypeOK
<1>2. QED
  BY <1>1, TypeInvHolds, PTL

-----------------------------------------------------------------------------
(* How a step is reached                                                   *)

Next1 == StepsOf(command)[Here'].op
Within1 == Here' <= Len(StepsOf(command))

LEMMA Entered ==
    ASSUME Placed, Steps, Within1
    PROVE  /\ Here' \in 1..Len(StepsOf(command))
           /\ Next1 \in Bound \ {"move", "toggle"} => Onward /\ Current.op \in Before(Next1)
           /\ Next1 = "toggle" => (Onward /\ Current.op = "ir") \/ (Jumps /\ ~ok')
           /\ Next1 = "move" => Onward \/ Loops
           /\ StepsOf(command)[Here'-1].op = "ifOk" /\ Next1 # "ifOk" =>
                 (Onward /\ Here' > 1) \/ (Loops /\ Current.op = "within")
<1> DEFINE s == StepsOf(command)
<1>1. /\ Here \in 1..Len(s) /\ Len(s) \in Nat /\ Fits(s, Here) /\ Current = s[Here]
      /\ Onward \/ Jumps \/ Unopened \/ Loops
  BY Flow, Located DEF Current
<1>2. /\ Here' \in 1..(Len(s) + 1) /\ command' = command
  <2>1. pc' = "run" /\ command' = command /\ Placed'
    BY Flow
  <2>2. QED
    BY <2>1 DEF Placed
<1>3. Here' \in 1..Len(s) /\ Fits(s, Here')
  <2>1. Here' \in 1..Len(s)
    BY <1>1, <1>2 DEF Within1
  <2>2. Whole(s)
    BY WholeSteps, Flow DEF Placed
  <2> HIDE DEF s
  <2>3. QED
    BY <2>1, <2>2 DEF Whole, Fitting
<1>4. Next1 = s[Here'].op
  BY DEF Next1
<1> HIDE DEF s
<1>5. CASE Onward
  <2>1. Here' = Here + 1 /\ Here' > 1 /\ Here' - 1 = Here
    BY <1>1, <1>5 DEF Onward
  <2>2. Next1 \in Bound => Current.op \in Before(Next1)
    BY <1>1, <1>3, <1>4, <2>1 DEF Fits
  <2>3. Next1 = "toggle" => Current.op = "ir"
    BY <2>2 DEF Bound, Before
  <2>4. QED
    BY <1>3, <1>4, <1>5, <2>1, <2>2, <2>3 DEF s
<1>6. CASE Jumps
  <2>1. /\ Current.op = "ifOk" /\ ~ok' /\ Here' = Here + Current.arg + 1
    BY <1>6 DEF Jumps
  <2>2. /\ Current.arg \in Nat /\ s[Here + Current.arg].op # "ifOk"
        /\ Here + Current.arg < Len(s) => s[Here + Current.arg + 1].op \notin Bound \ {"toggle"}
    BY <1>1, <2>1 DEF Fits
  <2>3. Here + Current.arg < Len(s) /\ Here' - 1 = Here + Current.arg
    BY <1>1, <1>3, <2>1, <2>2
  <2>4. Next1 \notin Bound \ {"toggle"} /\ s[Here' - 1].op # "ifOk"
    BY <1>4, <2>1, <2>2, <2>3
  <2>5. QED
    BY <1>3, <1>4, <1>6, <2>1, <2>4 DEF Bound, s
<1>7. CASE Unopened
  <2>1. Current.op \in {"open", "openAc", "openPc"} /\ Here' = Here + 2 /\ Here' - 1 = Here + 1
    BY <1>1, <1>7 DEF Unopened
  <2>2. s[Here + 1].op \in {"write", "writeAc", "writePc"}
    BY <1>1, <2>1 DEF Fits, Leading, Sequel
  <2>3. Next1 \in Bound => s[Here' - 1].op \in Before(Next1)
    BY <1>1, <1>3, <1>4, <2>1 DEF Fits
  <2>4. Next1 \notin Bound
    BY <2>1, <2>2, <2>3 DEF Bound, Before
  <2>5. QED
    BY <1>3, <1>4, <2>1, <2>2, <2>4 DEF Bound, s
<1>8. CASE Loops
  <2>1. Current.op \in {"again", "within"} /\ Here' = Here - Current.arg
    BY <1>8 DEF Loops
  <2>2. CASE Current.op = "within"
    <3>1. s[Here - Current.arg].op \notin Bound \ {"move"}
      BY <1>1, <2>2 DEF Fits
    <3>2. Next1 \notin Bound \ {"move"}
      BY <1>4, <2>1, <3>1
    <3>3. QED
      BY <1>3, <1>8, <2>2, <3>2 DEF Bound, s
  <2>3. CASE Current.op = "again"
    <3>1. s[Here - Current.arg].op \notin Bound /\ s[Here - Current.arg - 1].op # "ifOk"
      BY <1>1, <2>3 DEF Fits
    <3>2. Next1 \notin Bound /\ s[Here' - 1].op # "ifOk"
      BY <1>4, <2>1, <3>1
    <3>3. QED
      BY <1>3, <3>2 DEF Bound, s
  <2>4. QED
    BY <2>1, <2>2, <2>3
<1>9. QED
  BY <1>1, <1>5, <1>6, <1>7, <1>8 DEF s

\* What follows a guard, if it is not another one, is done with success only.
GuardInv ==
    pc = "run" /\ Here > 1 /\ Here <= Len(StepsOf(command))
    /\ StepsOf(command)[Here-1].op = "ifOk" /\ Current.op # "ifOk" => ok

\* Success is lost by failures, and comes back only where it is declared.
LEMMA OkStays ==
    ASSUME Placed, Steps
    PROVE  /\ Current.op \in {"ifOk", "again", "within"} /\ ok => ok'
           /\ ok' => ok \/ Current.op \in {"forget", "irTeach"}
<1>1. pc = "run" /\ Head(todo) = Current
  BY Flow
<1>2. \A op : Running(op) => Current.op = op
  BY <1>1 DEF Running
<1>3. CASE IfOkStep \/ AgainStep
  <2>1. ok' = ok
    BY <1>3 DEF IfOkStep, AgainStep, control
  <2>2. QED
    BY <2>1
<1>4. CASE ForgetStep \/ IrTeachStep
  <2>1. Current.op \in {"forget", "irTeach"}
    BY <1>2, <1>4 DEF ForgetStep, IrTeachStep
  <2>2. QED
    BY <2>1
<1>5. CASE ProfileStep \/ AudioStep \/ ActiveStep
  <2>1. ok' => ok
    BY <1>5, Zenon DEF ProfileStep, AudioStep, ActiveStep, Fails
  <2>2. Current.op \notin {"ifOk", "again", "within"}
    BY <1>2, <1>5 DEF ProfileStep, AudioStep, ActiveStep
  <2>3. QED
    BY <2>1, <2>2
<1>6. CASE OpenAcStep \/ WriteAcStep \/ IrInitStep
  <2>1. ok' => ok
    BY <1>6, Zenon DEF OpenAcStep, WriteAcStep, IrInitStep, Fails, ReadIrDat
  <2>2. Current.op \notin {"ifOk", "again", "within"}
    BY <1>2, <1>6 DEF OpenAcStep, WriteAcStep, IrInitStep
  <2>3. QED
    BY <2>1, <2>2
<1>7. CASE IrStep \/ FlipStep \/ ToggleStep
  <2>1. ok' => ok
    BY <1>7, Zenon DEF IrStep, FlipStep, ToggleStep, Fails, Send
  <2>2. Current.op \notin {"ifOk", "again", "within"}
    BY <1>2, <1>7 DEF IrStep, FlipStep, ToggleStep
  <2>3. QED
    BY <2>1, <2>2
<1>8. CASE ReadStep \/ OpenStep \/ WriteStep
  <2>1. ok' => ok
    BY <1>8, Zenon DEF ReadStep, OpenStep, WriteStep, Fails
  <2>2. Current.op \notin {"ifOk", "again", "within"}
    BY <1>2, <1>8 DEF ReadStep, OpenStep, WriteStep
  <2>3. QED
    BY <2>1, <2>2
<1>9. CASE PcInitStep \/ MoveStep \/ OpenPcStep
  <2>1. ok' => ok
    BY <1>9, Zenon DEF PcInitStep, MoveStep, OpenPcStep, Fails
  <2>2. Current.op \notin {"ifOk", "again", "within"}
    BY <1>2, <1>9 DEF PcInitStep, MoveStep, OpenPcStep
  <2>3. QED
    BY <2>1, <2>2
<1>10. CASE WritePcStep \/ LastStep
  <2>1. ok' => ok
    BY <1>10, Zenon DEF WritePcStep, LastStep, Fails
  <2>2. Current.op \notin {"ifOk", "again", "within"}
    BY <1>2, <1>10 DEF WritePcStep, LastStep
  <2>3. QED
    BY <2>1, <2>2
<1>11. QED
  BY <1>3, <1>4, <1>5, <1>6, <1>7, <1>8, <1>9, <1>10 DEF Steps

LEMMA GuardStep ==
    ASSUME Placed, GuardInv, Steps
    PROVE  GuardInv'
<1>1. /\ pc = "run" /\ pc' = "run" /\ command' = command
      /\ Here \in 1..Len(StepsOf(command))
      /\ Fits(StepsOf(command), Here) /\ Current = StepsOf(command)[Here]
  BY Flow, Located DEF Current
<1> SUFFICES ASSUME Here' <= Len(StepsOf(command)),
                    StepsOf(command)[Here'-1].op = "ifOk", Next1 # "ifOk"
             PROVE  ok'
  BY <1>1 DEF GuardInv, Next1, Current
<1>2. Within1
  BY DEF Within1
<1>3. (Onward /\ Here' > 1) \/ (Loops /\ Current.op = "within")
  BY <1>2, Entered
<1>4. CASE Onward
  <2>1. Here' - 1 = Here
    BY <1>1, <1>4 DEF Onward
  <2>2. Current.op = "ifOk" /\ ok
    BY <1>1, <1>4, <2>1 DEF Onward
  <2>3. QED
    BY <2>2, OkStays
<1>5. CASE Loops /\ Current.op = "within"
  <2>1. Here' = Here - Current.arg
    BY <1>5 DEF Loops
  <2>2. Next1 = StepsOf(command)[Here - Current.arg].op
    BY <2>1 DEF Next1
  <2>3. Here > 1 /\ StepsOf(command)[Here - 1].op = "ifOk"
    BY <1>1, <1>5, <2>2 DEF Fits
  <2>4. ok
    BY <1>1, <1>5, <2>3 DEF GuardInv
  <2>5. QED
    BY <1>5, <2>4, OkStays
<1>6. QED
  BY <1>3, <1>4, <1>5

-----------------------------------------------------------------------------
(* Taught profiles and positions                                           *)

\* What a step leaves alone.
LEMMA FilesStay ==
    ASSUME Placed, Steps
    PROVE  /\ stored' = stored /\ lost \subseteq lost'
           /\ Current.op # "pcInit" => table' = table
           /\ Current.op \notin {"openAc", "writeAc"} => acFile' = acFile
           /\ Current.op \notin {"openPc", "writePc", "pcInit"} => pcFile' = pcFile
<1>1. pc = "run" /\ Head(todo) = Current
  BY Flow
<1>2. \A op : Running(op) => Current.op = op
  BY <1>1 DEF Running
<1>3. CASE IfOkStep
  BY <1>2, <1>3 DEF IfOkStep, control, audio, picture, toggles, mount
<1>4. CASE AgainStep
  BY <1>2, <1>4 DEF AgainStep, control, audio, picture, toggles, mount
<1>5. CASE MoveStep
  BY <1>2, <1>5 DEF MoveStep, audio, picture, toggles, mount
<1>6. CASE LastStep
  BY <1>2, <1>6 DEF LastStep, audio, picture, toggles, mount
<1>7. CASE ForgetStep
  BY <1>2, <1>7 DEF ForgetStep, audio, picture, toggles, mount
<1>8. CASE ProfileStep
  BY <1>2, <1>8 DEF ProfileStep, picture, toggles, mount
<1>9. CASE AudioStep
  BY <1>2, <1>9 DEF AudioStep, picture, toggles, mount
<1>10. CASE ActiveStep
  BY <1>2, <1>10 DEF ActiveStep, picture, toggles, mount
<1>11. CASE OpenAcStep
  BY <1>2, <1>11 DEF OpenAcStep, picture, toggles, mount
<1>12. CASE WriteAcStep
  BY <1>2, <1>12 DEF WriteAcStep, Lose, picture, toggles, mount
<1>13. CASE IrInitStep
  BY <1>2, <1>13 DEF IrInitStep, audio, toggles, mount
<1>14. CASE IrStep
  BY <1>2, <1>14 DEF IrStep, audio, mount
<1>15. CASE IrTeachStep
  BY <1>2, <1>15 DEF IrTeachStep, audio, toggles, mount
<1>16. CASE FlipStep
  BY <1>2, <1>16 DEF FlipStep, audio, mount
<1>17. CASE ToggleStep
  BY <1>2, <1>17 DEF ToggleStep, audio, picture, mount
<1>18. CASE ReadStep
  BY <1>2, <1>18 DEF ReadStep, audio, picture, mount
<1>19. CASE OpenStep
  BY <1>2, <1>19 DEF OpenStep, audio, picture, mount
<1>20. CASE WriteStep
  BY <1>2, <1>20 DEF WriteStep, audio, picture, mount
<1>21. CASE PcInitStep
  BY <1>2, <1>21 DEF PcInitStep, Lose, audio, picture, toggles
<1>22. CASE OpenPcStep
  BY <1>2, <1>22 DEF OpenPcStep, audio, picture, toggles
<1>23. CASE WritePcStep
  BY <1>2, <1>23 DEF WritePcStep, Lose, audio, picture, toggles
<1>24. QED
  BY <1>3, <1>4, <1>5, <1>6, <1>7, <1>8, <1>9, <1>10, <1>11, <1>12, <1>13, <1>14, <1>15,
     <1>16, <1>17, <1>18, <1>19, <1>20, <1>21, <1>22, <1>23 DEF Steps

\* Only the commands with the mount drive it or save positions.
LEMMA MountOnly ==
    ASSUME NEW c \in Commands, NEW k \in 1..Len(StepsOf(c)),
           StepsOf(c)[k].op \in {"move", "zoomSave", "openPc", "writePc"}
    PROVE  c.name \in Mounted /\ k > GuardAt(c)
<1> DEFINE N == {"move", "zoomSave", "openPc", "writePc"}
           O == Ops \ N
<1>1. ASSUME NEW s \in Seq(StepsWith(O))
      PROVE  \A i \in 1..Len(s) : s[i].op \notin N
  BY ElementOfSeq DEF StepsWith
<1>2. CASE c.name \in Mounted
  <2>1. /\ GuardAt(c) \in {3, 5}
        /\ k < GuardAt(c) - 1 => StepsOf(c)[k].op \in {"irInit", "ifOk", "ir"}
        /\ k = GuardAt(c) - 1 => StepsOf(c)[k].op = "pcInit"
        /\ k = GuardAt(c) => StepsOf(c)[k].op = "ifOk"
    BY <1>2, MountOps
  <2>2. k \in Int
    OBVIOUS
  <2>3. QED
    BY <1>2, <2>1, <2>2
<1>3. CASE c.name \notin Mounted
  <2> SUFFICES StepsOf(c) \in Seq(StepsWith(O))
    BY <1>1
  <2>1. \A s, t \in Seq(StepsWith(O)) : s \o t \in Seq(StepsWith(O))
    BY StepsWithIs
  <2>2. /\ \A q \in Int : Ir(q) \in StepsWith(O) /\ Profile(q) \in StepsWith(O)
                          /\ IfOk(q) \in StepsWith(O) /\ Step("active", q) \in StepsWith(O)
                          /\ Step("irTeach", q) \in StepsWith(O) /\ Step("toggle", q) \in StepsWith(O)
                          /\ Step("again", q) \in StepsWith(O)
        /\ IrInit \in StepsWith(O) /\ Audio \in StepsWith(O) /\ PcInit \in StepsWith(O)
        /\ Forget \in StepsWith(O)
        /\ Open \in StepsWith(O) /\ WriteIt \in StepsWith(O) /\ OpenAc \in StepsWith(O)
        /\ WriteAc \in StepsWith(O)
        /\ Step("read", 0) \in StepsWith(O) /\ Step("flip", 0) \in StepsWith(O)
    BY DEF IrInit, IfOk, Ir, Audio, Profile, PcInit, Forget, Open, WriteIt, OpenAc, WriteAc, Step,
       StepsWith, StepSet, Ops
  <2>3. CASE c.name \in SequencerNames \ Special
    <3>1. StepsOf(c) \in Seq(StepsWith(Switching \cup {"last"}))
      BY <2>3, OpsOfCommands
    <3>2. Switching \cup {"last"} \subseteq O
      BY DEF Switching, Showing, Ops
    <3> HIDE DEF O
    <3>3. QED
      BY <3>1, <3>2, MoreOps
  <2>4. CASE c.name = "CI_RESET"
    <3>1. PICK t \in Seq(StepsWith(Switching)) : CI_RESET = ResetFirst \o t
      BY ResetSteps
    <3>2. Switching \subseteq O
      BY DEF Switching, Showing, Ops
    <3> HIDE DEF O
    <3>3. t \in Seq(StepsWith(O))
      BY <3>2, MoreOps
    <3>4. <<Audio, Step("active", AC_WORSHIP)>> \in Seq(StepsWith(O)) /\ <<Forget>> \in Seq(StepsWith(O))
      BY <2>2, Constants
    <3>5. SaveProfiles \in Seq(StepsWith(O))
      <4>1. SaveProfiles = <<OpenAc, WriteAc>>
        BY DEF SaveProfiles, OpenAc, WriteAc
      <4>2. QED
        BY <2>2, <4>1
    <3>6. ResetFirst \in Seq(StepsWith(O))
      BY <2>1, <3>4, <3>5 DEF ResetFirst
    <3>7. CI_RESET \in Seq(StepsWith(O))
      BY <2>1, <3>1, <3>3, <3>6
    <3>8. QED
      BY <2>4, <3>7, OpsOfCommands
  <2>5. CASE c.name = "CI_AUDIO_TEACH"
    <3>1. c.arg \in Teachable
      BY <2>5, OpsOfCommands
    <3>2. c.arg \in 0..9
      BY <3>1, TeachableAssumption
    <3>3. StepsOf(c) = <<OpenAc, WriteAc>> \o <<IfOk(4), Profile(c.arg), IfOk(2), OpenAc, WriteAc>>
      BY <2>5, OpsOfCommands
    <3> HIDE DEF O
    <3>4. /\ <<OpenAc, WriteAc>> \in Seq(StepsWith(O))
          /\ <<IfOk(4), Profile(c.arg), IfOk(2), OpenAc, WriteAc>> \in Seq(StepsWith(O))
      BY <2>2, <3>2
    <3>5. QED
      BY <2>1, <3>3, <3>4
  <2>6. CASE c.name = "CItestSequence"
    <3> DEFINE n == Len(Signalled(c.arg))
    <3>1. \A s \in Signals : s \in StepsWith(O)
      BY DEF Signals, Plain, StepsWith, Ops, Bound, Leading
    <3>2. Signalled(c.arg) \in Seq(Signals)
      BY SignalledIs
    <3> HIDE DEF O
    <3>3. Signalled(c.arg) \in Seq(StepsWith(O)) /\ n \in Int
      BY <3>1, <3>2, LenProperties
    <3>4. StepsOf(c) = <<IrInit>> \o Signalled(c.arg) \o <<Step("again", n)>>
      BY <2>6, OpsOfCommands
    <3> HIDE DEF n
    <3>5. <<IrInit>> \in Seq(StepsWith(O)) /\ <<Step("again", n)>> \in Seq(StepsWith(O))
      BY <2>2, <3>3
    <3>6. QED
      BY <2>1, <3>3, <3>4, <3>5
  <2>7. CASE c.name = "CI_BEAMER_TOGGLE"
    <3>1. StepsOf(c) = <<IrInit, Step("read", 0), IfOk(3), Step("flip", 0), Open, WriteIt>>
      BY <2>7, OpsOfCommands
    <3> HIDE DEF O
    <3>2. QED
      BY <2>2, <3>1
  <2>8. CASE c.name = "CI_IR"
    <3>1. c.arg \in Int /\ StepsOf(c) = <<IrInit, IfOk(1), Ir(c.arg)>>
      BY <2>8, OpsOfCommands
    <3> HIDE DEF O
    <3>2. QED
      BY <2>2, <3>1
  <2>9. CASE c.name = "CI_IR_TEACH"
    <3>1. StepsOf(c) = <<IrInit, IfOk(1), Step("irTeach", c.arg)>> /\ c.arg \in {0, 5}
      BY <2>9, OpsOfCommands DEF Commands, SequencerNames
    <3> HIDE DEF O
    <3>2. QED
      BY <2>2, <3>1
  <2>10. CASE c.name = "CI_AUDIO_SWITCH"
    <3>1. \/ StepsOf(c) = <<Audio>>
          \/ c.arg \in Profiles /\ StepsOf(c) = <<Profile(c.arg)>>
      BY <2>10, OpsOfCommands
    <3> HIDE DEF O
    <3>2. CASE StepsOf(c) = <<Audio>>
      BY <2>2, <3>2
    <3>3. CASE c.arg \in Profiles /\ StepsOf(c) = <<Profile(c.arg)>>
      <4>1. c.arg \in Int
        BY <3>3, Constants
      <4>2. QED
        BY <2>2, <3>3, <4>1
    <3>4. QED
      BY <3>1, <3>2, <3>3
  <2>11. CASE c.name = "CI_POS_MOVE_BTN"
    <3>1. StepsOf(c) = <<PcInit>>
      BY <2>11, OpsOfCommands
    <3> HIDE DEF O
    <3>2. QED
      BY <2>2, <3>1
  <2>12. QED
    BY <1>3, <2>3, <2>4, <2>5, <2>6, <2>7, <2>8, <2>9, <2>10, <2>11, OpsOfCommands DEF Special
<1>4. QED
  BY <1>2, <1>3

\* Since the mount was prepared without an error, the positions are the taught
\* ones; so they are where they are saved.
TaughtTable == table \/ "positions" \in lost
AtStep(ops) == pc = "run" /\ Here <= Len(StepsOf(command)) /\ Current.op \in ops
Prepared == pc = "run" /\ command.name \in Mounted /\ Here >= GuardAt(command)
                /\ Here <= Len(StepsOf(command))
TableInv ==
    /\ Prepared /\ ok => TaughtTable
    /\ AtStep({"openPc", "writePc"}) => TaughtTable

\* A file is without what was taught only between its two halves.
PositionsInv == pcFile \/ "positions" \in lost \/ AtStep({"writePc"})
ProfilesInv ==
    /\ \/ acFile.stored \/ "profiles" \in lost
       \/ AtStep({"writeAc"}) /\ acFile = EmptyAc
    /\ pc = "run" /\ Saves(command) => stored \/ "profiles" \in lost

KeptInv == GuardInv /\ TableInv /\ PositionsInv /\ ProfilesInv

\* The action is the one of the current step.
LEMMA StepIs ==
    ASSUME Placed, Steps
    PROVE  /\ Current.op = "ifOk" => IfOkStep
           /\ Current.op = "profile" => ProfileStep
           /\ Current.op = "audio" => AudioStep
           /\ Current.op = "active" => ActiveStep
           /\ Current.op = "forget" => ForgetStep
           /\ Current.op = "openAc" => OpenAcStep
           /\ Current.op = "writeAc" => WriteAcStep
           /\ Current.op = "irInit" => IrInitStep
           /\ Current.op = "ir" => IrStep
           /\ Current.op = "irTeach" => IrTeachStep
           /\ Current.op = "flip" => FlipStep
           /\ Current.op = "toggle" => ToggleStep
           /\ Current.op = "read" => ReadStep
           /\ Current.op = "open" => OpenStep
           /\ Current.op = "write" => WriteStep
           /\ Current.op = "pcInit" => PcInitStep
           /\ Current.op = "openPc" => OpenPcStep
           /\ Current.op = "writePc" => WritePcStep
           /\ Current.op = "last" => LastStep
           /\ Current.op \in {"move", "zoomSave"} => MoveStep
           /\ Current.op \in {"again", "within"} => AgainStep
<1>1. pc = "run" /\ Head(todo) = Current
  BY Flow
<1>2. \A op : Running(op) => Current.op = op
  BY <1>1 DEF Running
<1>3. /\ IfOkStep => Current.op = "ifOk"
      /\ ProfileStep => Current.op = "profile"
      /\ AudioStep => Current.op = "audio"
      /\ ActiveStep => Current.op = "active"
      /\ ForgetStep => Current.op = "forget"
      /\ OpenAcStep => Current.op = "openAc"
      /\ WriteAcStep => Current.op = "writeAc"
      /\ IrInitStep => Current.op = "irInit"
      /\ IrStep => Current.op = "ir"
      /\ IrTeachStep => Current.op = "irTeach"
      /\ FlipStep => Current.op = "flip"
      /\ ToggleStep => Current.op = "toggle"
      /\ ReadStep => Current.op = "read"
      /\ OpenStep => Current.op = "open"
      /\ WriteStep => Current.op = "write"
      /\ PcInitStep => Current.op = "pcInit"
      /\ OpenPcStep => Current.op = "openPc"
      /\ WritePcStep => Current.op = "writePc"
      /\ LastStep => Current.op = "last"
      /\ MoveStep => Current.op \in {"move", "zoomSave"}
      /\ AgainStep => Current.op \in {"again", "within"}
  BY <1>2 DEF IfOkStep, ProfileStep, AudioStep, ActiveStep, ForgetStep, OpenAcStep,
     WriteAcStep, IrInitStep, IrStep, IrTeachStep, FlipStep, ToggleStep, ReadStep,
     OpenStep, WriteStep, PcInitStep, OpenPcStep, WritePcStep, LastStep, MoveStep, AgainStep
<1>4. QED
  BY <1>3 DEF Steps

LEMMA TableStep ==
    ASSUME Placed, GuardInv, TableInv, PositionsInv, Steps
    PROVE  TableInv'
<1> DEFINE s == StepsOf(command)
           d == GuardAt(command)
<1>1. /\ pc = "run" /\ pc' = "run" /\ command' = command /\ command \in Commands
      /\ Here \in 1..Len(s) /\ Len(s) \in Nat /\ Current = s[Here] /\ Fits(s, Here) /\ Placed'
      /\ Onward \/ Jumps \/ Unopened \/ Loops
  BY Flow, Located DEF Current, Placed
<1>2. lost \subseteq lost' /\ (Current.op # "pcInit" => table' = table)
  BY FilesStay
<1>3. TaughtTable /\ Current.op # "pcInit" => TaughtTable'
  BY <1>2 DEF TaughtTable
<1>4. ASSUME Prepared', ok' PROVE TaughtTable'
  <2>1. command.name \in Mounted /\ Here' >= d /\ Here' <= Len(s)
    BY <1>1, <1>4 DEF Prepared
  <2>2. /\ d \in {3, 5}
        /\ Here < d - 1 => Current.op \in {"irInit", "ifOk", "ir"}
        /\ Here = d - 1 => Current.op = "pcInit"
        /\ Here = d => Current.op = "ifOk"
        /\ Here > d => Current.op \in {"profile", "ir", "ifOk", "move", "within", "forget",
                                       "zoomSave", "openPc", "writePc"}
        /\ Here > d => Here - d \in 1..Len(Drive(command)) /\ Current = Drive(command)[Here - d]
        /\ Len(s) = d + Len(Drive(command)) /\ Len(Drive(command)) \in Nat
    BY <1>1, <2>1, MountOps
  <2>3. ~Jumps /\ ~Unopened
    BY <1>4 DEF Jumps, Unopened
  <2> HIDE DEF s, d
  <2>4. CASE Here >= d /\ Current.op # "forget"
    <3>1. Current.op \notin {"pcInit", "forget", "irTeach"}
      BY <1>1, <2>2, <2>4
    <3>2. ok
      BY <1>4, <3>1, OkStays
    <3>3. Prepared
      BY <1>1, <2>1, <2>4 DEF Prepared, d, s
    <3>4. QED
      BY <1>3, <3>1, <3>2, <3>3 DEF TableInv
  <2>5. CASE Here >= d /\ Current.op = "forget"
    <3>1. Drives(Drive(command)) /\ Here > d
      BY <1>1, <2>1, <2>2, <2>5, MountSteps
    <3>2. Here - d = Len(Drive(command))
      BY <2>2, <2>5, <3>1 DEF Drives
    <3>3. Here = Len(s) /\ Here' = Here + 1
      BY <1>1, <2>2, <2>3, <2>5, <3>2 DEF Onward, Loops
    <3>4. QED
      BY <1>1, <2>1, <3>3
  <2>6. CASE Here < d
    <3>1. Here = d - 1 /\ Current.op = "pcInit"
      <4>1. Current.op \notin {"again", "within"}
        BY <1>1, <2>2, <2>6
      <4>2. Here' = Here + 1
        BY <1>1, <2>3, <4>1 DEF Loops, Onward
      <4>3. Here = d - 1
        BY <1>1, <2>1, <2>2, <2>6, <4>2
      <4>4. QED
        BY <2>2, <4>3
    <3>2. PcInitStep
      BY <3>1, StepIs
    <3>3. table' = pcFile
      BY <1>4, <3>2 DEF PcInitStep, Fails
    <3>4. pcFile \/ "positions" \in lost
      BY <3>1 DEF PositionsInv, AtStep
    <3>5. QED
      BY <1>2, <3>3, <3>4 DEF TaughtTable
  <2>7. QED
    BY <1>1, <2>2, <2>4, <2>5, <2>6
<1>5. ASSUME AtStep({"openPc", "writePc"})' PROVE TaughtTable'
  <2>1. Within1 /\ Next1 \in {"openPc", "writePc"}
    BY <1>1, <1>5 DEF AtStep, Within1, Next1, Current
  <2>2. Next1 \in Bound \ {"move", "toggle"}
    BY <2>1 DEF Bound
  <2>3. Current.op \in Before(Next1)
    BY <2>1, <2>2, Entered
  <2>4. CASE Next1 = "openPc"
    <3>1. Current.op = "zoomSave"
      BY <2>3, <2>4 DEF Before
    <3>2. Here > 1 /\ s[Here-1].op = "ifOk"
      <4>1. s[1].op \notin Bound
        BY <1>1, WholeSteps DEF Whole
      <4> HIDE DEF s
      <4>2. Here # 1
        BY <1>1, <3>1, <4>1 DEF Bound
      <4>3. QED
        BY <1>1, <3>1, <4>2 DEF Fits, Bound, Before
    <3>3. ok
      BY <1>1, <3>1, <3>2 DEF GuardInv
    <3>4. command.name \in Mounted /\ Here > d
      BY <1>1, <3>1, MountOnly
    <3>5. d \in Int
      BY DEF GuardAt
    <3>6. Prepared
      <4> HIDE DEF d
      <4>1. Here >= d
        BY <1>1, <3>4, <3>5
      <4>2. QED
        BY <1>1, <3>4, <4>1 DEF Prepared, d
    <3>7. QED
      BY <1>3, <3>1, <3>3, <3>6 DEF TableInv
  <2>5. CASE Next1 = "writePc"
    <3>1. Current.op = "openPc"
      BY <2>3, <2>5 DEF Before
    <3>2. QED
      BY <1>1, <1>3, <3>1 DEF TableInv, AtStep
  <2>6. QED
    BY <2>1, <2>4, <2>5
<1>6. QED
  BY <1>4, <1>5 DEF TableInv

\* A file that could be opened is written next.
LEMMA OpensToWrite ==
    ASSUME Placed, Steps, Skip(1), NEW o \in {"open", "openAc", "openPc"}, Current.op = o
    PROVE  AtStep({Sequel(o)})'
<1> DEFINE s == StepsOf(command)
<1>1. /\ pc = "run" /\ pc' = "run" /\ command' = command
      /\ Here \in 1..Len(s) /\ Len(s) \in Nat /\ Current = s[Here] /\ Fits(s, Here)
  BY Flow, Located DEF Current
<1>2. Here < Len(s) /\ s[Here+1].op = Sequel(o)
  BY <1>1 DEF Fits, Leading
<1>3. Here' = Here + 1
  <2>1. Here + 1 <= Len(s) + 1
    BY <1>1
  <2>2. QED
    BY <1>1, <2>1, Advance
<1>4. QED
  BY <1>1, <1>2, <1>3 DEF AtStep, Current

LEMMA PositionsStep ==
    ASSUME Placed, TableInv, PositionsInv, Steps
    PROVE  PositionsInv'
<1>1. pc = "run" /\ Here <= Len(StepsOf(command))
  BY Flow, Located
<1>2. Current.op # "writePc" => pcFile \/ "positions" \in lost
  BY DEF PositionsInv, AtStep
<1>3. lost \subseteq lost'
  BY FilesStay
<1>4. CASE Current.op = "openPc"
  <2>1. OpenPcStep
    BY <1>4, StepIs
  <2>2. CASE Skip(1)
    <3>1. AtStep({Sequel("openPc")})'
      BY <1>4, <2>2, OpensToWrite
    <3>2. Sequel("openPc") = "writePc"
      BY DEF Sequel
    <3>3. AtStep({"writePc"})'
      BY <3>1, <3>2
    <3>4. QED
      BY <3>3 DEF PositionsInv
  <2>3. CASE ~Skip(1)
    <3>1. pcFile' = pcFile
      BY <2>1, <2>3 DEF OpenPcStep
    <3>2. QED
      BY <1>2, <1>3, <1>4, <3>1 DEF PositionsInv
  <2>4. QED
    BY <2>2, <2>3
<1>5. CASE Current.op = "writePc"
  <2>1. WritePcStep
    BY <1>5, StepIs
  <2>2. table \/ "positions" \in lost
    BY <1>1, <1>5 DEF TableInv, AtStep, TaughtTable
  <2>3. pcFile' = table \/ "positions" \in lost'
    BY <2>1 DEF WritePcStep, Lose
  <2>4. QED
    BY <1>3, <2>2, <2>3 DEF PositionsInv
<1>6. CASE Current.op = "pcInit"
  <2>1. PcInitStep
    BY <1>6, StepIs
  <2>2. pcFile' = pcFile \/ "positions" \in lost'
    BY <2>1 DEF PcInitStep, Lose
  <2>3. QED
    BY <1>2, <1>3, <1>6, <2>2 DEF PositionsInv
<1>7. CASE Current.op \notin {"openPc", "writePc", "pcInit"}
  <2>1. pcFile' = pcFile
    BY <1>7, FilesStay
  <2>2. QED
    BY <1>2, <1>3, <1>7, <2>1 DEF PositionsInv
<1>8. QED
  BY <1>4, <1>5, <1>6, <1>7

LEMMA ProfilesStep ==
    ASSUME Placed, ProfilesInv, Steps
    PROVE  ProfilesInv'
<1>1. /\ pc = "run" /\ Here <= Len(StepsOf(command)) /\ command' = command
      /\ todo # <<>>
  BY Flow, Located
<1>2. Current.op # "writeAc" => acFile.stored \/ "profiles" \in lost
  BY DEF ProfilesInv, AtStep
<1>3. lost \subseteq lost' /\ stored' = stored
  BY FilesStay
<1>4. (pc = "run" /\ Saves(command) => stored \/ "profiles" \in lost)'
  BY <1>1, <1>3 DEF ProfilesInv
<1>5. CASE Current.op = "openAc"
  <2>1. OpenAcStep
    BY <1>5, StepIs
  <2>2. CASE acFile' = EmptyAc /\ Skip(1)
    <3>1. AtStep({Sequel("openAc")})'
      BY <1>5, <2>2, OpensToWrite
    <3>2. Sequel("openAc") = "writeAc"
      BY DEF Sequel
    <3>3. AtStep({"writeAc"})'
      BY <3>1, <3>2
    <3>4. EmptyAc' = EmptyAc
      BY DEF EmptyAc, Empty
    <3>5. QED
      BY <1>4, <2>2, <3>3, <3>4 DEF ProfilesInv
  <2>3. CASE acFile' = acFile
    BY <1>2, <1>3, <1>4, <1>5, <2>3 DEF ProfilesInv
  <2>4. QED
    BY <2>1, <2>2, <2>3 DEF OpenAcStep
<1>6. CASE Current.op = "writeAc"
  <2>1. WriteAcStep
    BY <1>6, StepIs
  <2>2. stored \/ "profiles" \in lost
    BY <1>1, <1>6, SavesHere DEF ProfilesInv
  <2>3. acFile' = [active |-> active, stored |-> stored] \/ "profiles" \in lost'
    BY <2>1 DEF WriteAcStep, Lose
  <2>4. acFile' = [active |-> active, stored |-> stored] => acFile'.stored = stored
    OBVIOUS
  <2>5. QED
    BY <1>3, <1>4, <2>2, <2>3, <2>4 DEF ProfilesInv
<1>7. CASE Current.op \notin {"openAc", "writeAc"}
  <2>1. acFile' = acFile
    BY <1>7, FilesStay
  <2>2. QED
    BY <1>2, <1>3, <1>4, <1>7, <2>1 DEF ProfilesInv
<1>8. QED
  BY <1>5, <1>6, <1>7

LEMMA KeptStep == TypeInv /\ KeptInv /\ [Next]_vars => KeptInv'
<1> SUFFICES ASSUME TypeInv, KeptInv, [Next]_vars PROVE KeptInv'
  OBVIOUS
<1>0. Placed
  BY DEF TypeInv
<1>1. CASE Steps
  BY <1>0, <1>1, GuardStep, TableStep, PositionsStep, ProfilesStep DEF KeptInv
<1>2. ASSUME NEW c \in Commands, Start(c) PROVE KeptInv'
  <2>1. /\ pc = "idle" /\ Here' = 1 /\ pc' = "run" /\ command' = c
        /\ acFile' = acFile /\ pcFile' = pcFile /\ table' = table
    BY <1>2, StartsPlaced DEF Start, mount
  <2>2. PICK file \in {acFile, EmptyAc} :
           stored' = AfterRead(file).stored /\ Lose("profiles", file # acFile /\ Saves(c))
    BY <1>2 DEF Start
  <2>3. lost \subseteq lost' /\ (file # acFile /\ Saves(c) => "profiles" \in lost')
    BY <2>2 DEF Lose
  <2>4. GuardInv'
    BY <2>1 DEF GuardInv
  <2>5. TableInv'
    <3>1. GuardAt(c) \in {3, 5}
      BY DEF GuardAt
    <3>2. ~Prepared'
      BY <2>1, <3>1 DEF Prepared
    <3>3. ~AtStep({"openPc", "writePc"})'
      <4>1. StepsOf(c) # <<>> => StepsOf(c)[1].op \notin Bound
        BY WholeSteps DEF Whole
      <4>2. StepsOf(c) # <<>> \/ Len(StepsOf(c)) = 0
        OBVIOUS
      <4>3. QED
        BY <2>1, <4>1, <4>2 DEF AtStep, Current, Bound
    <3>4. QED
      BY <3>2, <3>3 DEF TableInv
  <2>6. PositionsInv'
    BY <2>1, <2>3 DEF KeptInv, PositionsInv, AtStep
  <2>7. ProfilesInv'
    <3>1. acFile.stored \/ "profiles" \in lost
      BY <2>1 DEF KeptInv, ProfilesInv, AtStep
    <3>2. EmptyAc.stored = FALSE
      BY DEF EmptyAc
    <3>3. file = acFile => stored' \/ "profiles" \in lost
      <4>1. CASE file = acFile
        <5>1. acFile = EmptyAc => ~acFile.stored
          BY <3>2
        <5>2. acFile # EmptyAc => stored' = acFile.stored
          BY <2>2, <4>1 DEF AfterRead
        <5>3. QED
          BY <3>1, <5>1, <5>2
      <4>2. QED
        BY <4>1
    <3>4. QED
      BY <2>1, <2>3, <3>1, <3>3 DEF ProfilesInv
  <2>8. QED
    BY <2>4, <2>5, <2>6, <2>7 DEF KeptInv
<1>3. CASE Return
  <2>1. pc = "run" /\ todo = <<>> /\ pc' = "returned" /\ acFile' = acFile /\ pcFile' = pcFile
        /\ lost' = lost
    BY <1>3 DEF Return, audio, mount
  <2>2. Here > Len(StepsOf(command))
    BY <1>0, <2>1, Located
  <2>3. \A ops : ~AtStep(ops)
    BY <1>0, <2>1, <2>2, Located DEF AtStep
  <2>4. PositionsInv' /\ ProfilesInv'
    BY <2>1, <2>3 DEF KeptInv, PositionsInv, ProfilesInv
  <2>5. GuardInv' /\ TableInv'
    BY <2>1 DEF GuardInv, TableInv, Prepared, AtStep
  <2>6. QED
    BY <2>4, <2>5 DEF KeptInv
<1>4. CASE Exit
  <2>1. pc # "run" /\ pc' = "idle" /\ acFile' = acFile /\ pcFile' = pcFile /\ lost' = lost
    BY <1>4 DEF Exit, Gone
  <2>2. QED
    BY <2>1 DEF KeptInv, GuardInv, TableInv, Prepared, AtStep, PositionsInv, ProfilesInv
<1>5. CASE Kill
  <2>1. /\ pc = "run" /\ pc' = "idle" /\ acFile' = acFile /\ pcFile' = pcFile
        /\ lost' = lost \cup (IF acFile = EmptyAc THEN {"profiles"} ELSE {})
                        \cup (IF pcFile THEN {} ELSE {"positions"})
    BY <1>5 DEF Kill, Gone
  <2>2. acFile.stored \/ "profiles" \in lost'
    BY <2>1 DEF KeptInv, ProfilesInv
  <2>3. QED
    BY <2>1, <2>2 DEF KeptInv, GuardInv, TableInv, Prepared, AtStep, PositionsInv, ProfilesInv
<1>6. CASE UNCHANGED vars
  BY <1>6 DEF vars, control, audio, picture, toggles, mount, KeptInv, GuardInv, TableInv,
     Prepared, AtStep, PositionsInv, ProfilesInv, TaughtTable, Here, Done, Current
<1>7. QED
  BY <1>1, <1>2, <1>3, <1>4, <1>5, <1>6 DEF Next

LEMMA KeptInit == Init => KeptInv
<1> SUFFICES ASSUME Init PROVE KeptInv
  OBVIOUS
<1>1. pc = "idle" /\ pcFile = TRUE /\ acFile = [active |-> AC_WORSHIP, stored |-> TRUE]
  BY DEF Init
<1>2. acFile.stored
  BY <1>1
<1>3. QED
  BY <1>1, <1>2 DEF KeptInv, GuardInv, TableInv, Prepared, AtStep, PositionsInv, ProfilesInv

LEMMA KeptHolds == Spec => [](TypeInv /\ KeptInv)
<1>1. Init => TypeInv /\ KeptInv
  BY TypeInvInit, KeptInit
<1>2. TypeInv /\ KeptInv /\ [Next]_vars => (TypeInv /\ KeptInv)'
  BY TypeInvStep, KeptStep
<1>3. QED
  BY <1>1, <1>2, PTL DEF Spec

\* Taught profiles and positions outlive every command: when no process runs,
\* AC_Dat.bin and PC_Dat.bin have them, unless one of the events of Lose has
\* destroyed them, whatever failed in mixer, infrared or mount.
THEOREM TaughtOutlives == Spec => []TaughtIsKept
<1>1. TypeInv /\ KeptInv => TaughtIsKept
  BY DEF KeptInv, PositionsInv, ProfilesInv, AtStep, TaughtIsKept
<1>2. QED
  BY <1>1, KeptHolds, PTL

-----------------------------------------------------------------------------
(* The order of sound, picture and mount                                   *)

\* Every signal is under a guard of its own, a switch of the beamer is
\* remembered next, and the profiles are among P.
Guided(P, s) ==
    /\ s \in Seq(StepSet)
    /\ \A k \in 1..Len(s) :
          /\ s[k].op \in Switching \cup {"move"}
          /\ s[k].op = "profile" => s[k].arg \in P
          /\ s[k].op = "ir" => k > 1 /\ s[k-1].op = "ifOk"
          /\ s[k].op = "ir" /\ s[k].arg \in BeamerSeqs => k < Len(s) /\ s[k+1].op = "toggle"

LEMMA GuidedConcat ==
    ASSUME NEW P, NEW s, NEW t, Guided(P, s), Guided(P, t)
    PROVE  Guided(P, s \o t)
<1> DEFINE u == s \o t
           n == Len(s)
<1>1. /\ s \in Seq(StepSet) /\ t \in Seq(StepSet) /\ n \in Nat /\ Len(t) \in Nat
      /\ u \in Seq(StepSet) /\ Len(u) = n + Len(t)
      /\ \A i \in 1..n : u[i] = s[i]
      /\ \A i \in 1..Len(t) : u[n + i] = t[i]
  BY Concatenated DEF Guided
<1> HIDE DEF u, n
<1>2. ASSUME NEW k \in 1..Len(u)
      PROVE  /\ u[k].op \in Switching \cup {"move"}
             /\ u[k].op = "profile" => u[k].arg \in P
             /\ u[k].op = "ir" => k > 1 /\ u[k-1].op = "ifOk"
             /\ u[k].op = "ir" /\ u[k].arg \in BeamerSeqs => k < Len(u) /\ u[k+1].op = "toggle"
  <2>1. CASE k <= n
    <3>1. /\ k \in 1..n /\ u[k] = s[k]
          /\ k > 1 => k - 1 \in 1..n /\ u[k-1] = s[k-1]
          /\ k < n => k + 1 \in 1..n /\ u[k+1] = s[k+1] /\ k < Len(u)
      <4>1. k \in 1..n /\ k \in Int
        BY <1>1, <2>1
      <4>2. k > 1 => k - 1 \in 1..n
        BY <1>1, <4>1
      <4>3. k < n => k + 1 \in 1..n /\ k < Len(u)
        BY <1>1, <4>1
      <4>4. QED
        BY <1>1, <4>1, <4>2, <4>3
    <3>2. /\ s[k].op \in Switching \cup {"move"}
          /\ s[k].op = "profile" => s[k].arg \in P
          /\ s[k].op = "ir" => k > 1 /\ s[k-1].op = "ifOk"
          /\ s[k].op = "ir" /\ s[k].arg \in BeamerSeqs => k < n /\ s[k+1].op = "toggle"
      BY <3>1 DEF Guided, n
    <3>3. QED
      BY <3>1, <3>2
  <2>2. CASE k > n
    <3> DEFINE j == k - n
    <3>1. j \in 1..Len(t) /\ k = n + j /\ k \in Int /\ j \in Int
      BY <1>1, <2>2
    <3> HIDE DEF j
    <3>2. u[k] = t[j]
      BY <1>1, <3>1
    <3>3. j > 1 => k > 1 /\ u[k-1] = t[j-1]
      <4>1. j > 1 => j - 1 \in 1..Len(t) /\ k - 1 = n + (j - 1) /\ k > 1
        BY <1>1, <3>1
      <4>2. QED
        BY <1>1, <4>1
    <3>4. j < Len(t) => k < Len(u) /\ u[k+1] = t[j+1]
      <4>1. j < Len(t) => j + 1 \in 1..Len(t) /\ k + 1 = n + (j + 1) /\ k < Len(u)
        BY <1>1, <3>1
      <4>2. QED
        BY <1>1, <4>1
    <3>5. /\ t[j].op \in Switching \cup {"move"}
          /\ t[j].op = "profile" => t[j].arg \in P
          /\ t[j].op = "ir" => j > 1 /\ t[j-1].op = "ifOk"
          /\ t[j].op = "ir" /\ t[j].arg \in BeamerSeqs => j < Len(t) /\ t[j+1].op = "toggle"
      BY <3>1 DEF Guided
    <3>6. QED
      BY <3>2, <3>3, <3>4, <3>5
  <2>3. QED
    BY <1>1, <2>1, <2>2
<1>3. QED
  BY <1>1, <1>2 DEF Guided, u

\* The pieces a command is put together from.
LEMMA GuidedPieces ==
    ASSUME NEW P
    PROVE  /\ Guided(P, <<>>) /\ Guided(P, Save)
           /\ \A p \in P \cap Int : Guided(P, <<Profile(p)>>)
           /\ \A n \in Int : Guided(P, <<IfOk(n)>>)
           /\ Guided(P, <<IrInit>>)
           /\ Guided(P, <<IfOk(1), Move>>)
           /\ \A n \in Int, q \in Int \ BeamerSeqs : Guided(P, <<IfOk(n), Ir(q)>>)
           /\ \A n \in Int, q \in BeamerSeqs :
                 Guided(P, <<IfOk(n), Ir(q), Step("toggle", ToggleOf(q))>>)
<1>1. {"profile", "irInit", "ifOk", "ir", "toggle", "open", "write"} = Switching
  BY DEF Switching, Showing
<1>2. Guided(P, <<>>)
  BY DEF Guided
<1>3. Guided(P, Save)
  <2> DEFINE s == <<Open, WriteIt>>
  <2>1. s \in Seq(StepSet) /\ Len(s) = 2 /\ s[1] = Open /\ s[2] = WriteIt
    BY StepTypes
  <2>2. Open.op = "open" /\ WriteIt.op = "write"
    BY DEF Open, WriteIt, Step
  <2> HIDE DEF s
  <2>3. Guided(P, s)
    BY <1>1, <2>1, <2>2 DEF Guided
  <2>4. QED
    BY <2>3 DEF s, Save, Open, WriteIt
<1>4. ASSUME NEW x \in StepSet,
             \/ x.op = "profile" /\ x.arg \in P
             \/ x.op \in {"ifOk", "irInit", "move"}
      PROVE  Guided(P, <<x>>)
  <2> DEFINE s == <<x>>
  <2>1. s \in Seq(StepSet) /\ Len(s) = 1 /\ s[1] = x
    OBVIOUS
  <2> HIDE DEF s
  <2>2. Guided(P, s)
    BY <1>1, <1>4, <2>1 DEF Guided
  <2>3. QED
    BY <2>2 DEF s
<1>5. /\ \A p \in P \cap Int : Profile(p) \in StepSet /\ Profile(p).op = "profile"
                               /\ Profile(p).arg = p
      /\ \A n \in Int : IfOk(n) \in StepSet /\ IfOk(n).op = "ifOk"
      /\ IrInit \in StepSet /\ IrInit.op = "irInit" /\ Move \in StepSet /\ Move.op = "move"
  BY DEF Profile, IfOk, IrInit, Move, Step, StepSet, Ops
<1>6. Guided(P, <<IfOk(1), Move>>)
  <2>1. Guided(P, <<IfOk(1)>>) /\ Guided(P, <<Move>>)
    BY <1>4, <1>5
  <2>2. <<IfOk(1)>> \o <<Move>> = <<IfOk(1), Move>>
    BY <1>5, Joined
  <2>3. QED
    BY <2>1, <2>2, GuidedConcat
<1>7. ASSUME NEW n \in Int, NEW q \in Int \ BeamerSeqs
      PROVE  Guided(P, <<IfOk(n), Ir(q)>>)
  <2> DEFINE s == <<IfOk(n), Ir(q)>>
  <2>1. Ir(q) \in StepSet /\ Ir(q).op = "ir" /\ Ir(q).arg = q
    BY DEF Ir, Step, StepSet, Ops
  <2>2. s \in Seq(StepSet) /\ Len(s) = 2 /\ s[1] = IfOk(n) /\ s[2] = Ir(q)
    BY <1>5, <2>1
  <2> HIDE DEF s
  <2>3. Guided(P, s)
    BY <1>1, <1>5, <2>1, <2>2 DEF Guided
  <2>4. QED
    BY <2>3 DEF s
<1>8. ASSUME NEW n \in Int, NEW q \in BeamerSeqs
      PROVE  Guided(P, <<IfOk(n), Ir(q), Step("toggle", ToggleOf(q))>>)
  <2> DEFINE x == Step("toggle", ToggleOf(q))
             s == <<IfOk(n), Ir(q), x>>
  <2>1. q \in Int /\ ToggleOf(q) \in Int
    BY DEF BeamerSeqs, ToggleOf
  <2>2. Ir(q) \in StepSet /\ Ir(q).op = "ir" /\ Ir(q).arg = q
    BY <2>1 DEF Ir, Step, StepSet, Ops
  <2>3. x \in StepSet /\ x.op = "toggle"
    BY <2>1 DEF Step, StepSet, Ops
  <2> HIDE DEF x
  <2>4. s \in Seq(StepSet) /\ Len(s) = 3 /\ s[1] = IfOk(n) /\ s[2] = Ir(q) /\ s[3] = x
    BY <1>5, <2>2, <2>3
  <2> HIDE DEF s
  <2>5. Guided(P, s)
    BY <1>1, <1>5, <2>2, <2>3, <2>4 DEF Guided
  <2>6. QED
    BY <2>5 DEF s, x
<1>9. QED
  BY <1>2, <1>3, <1>4, <1>5, <1>6, <1>7, <1>8

\* It sets the profile p, and that first.
Sounds(p, s) == Guided({p}, s) /\ Len(s) > 0 /\ s[1].op = "profile"

LEMMA SoundsConcat ==
    ASSUME NEW p, NEW s, NEW t, Sounds(p, s), Guided({p}, t)
    PROVE  Sounds(p, s \o t)
<1>1. s \in Seq(StepSet) /\ t \in Seq(StepSet)
  BY DEF Sounds, Guided
<1>2. /\ Len(s \o t) = Len(s) + Len(t) /\ Len(s) \in Nat /\ Len(t) \in Nat
      /\ \A i \in 1..Len(s) : (s \o t)[i] = s[i]
  BY <1>1, Concatenated
<1>3. 1 \in 1..Len(s)
  BY <1>2 DEF Sounds
<1>4. (s \o t)[1] = s[1] /\ Len(s \o t) > 0
  BY <1>2, <1>3
<1>5. QED
  BY <1>4, GuidedConcat DEF Sounds

LEMMA SoundsView ==
    ASSUME NEW p \in Profiles, NEW q \in Int \ BeamerSeqs
    PROVE  Sounds(p, View(p, q))
<1>1. p \in Int /\ p \in {p} \cap Int
  BY Constants
<1>2. /\ Guided({p}, <<Profile(p)>>) /\ Guided({p}, <<IrInit>>)
      /\ Guided({p}, <<IfOk(1), Ir(q)>>)
  <2> DEFINE P == {p}
  <2>1. p \in P \cap Int
    BY <1>1
  <2> HIDE DEF P
  <2>2. /\ Guided(P, <<Profile(p)>>) /\ Guided(P, <<IrInit>>)
        /\ Guided(P, <<IfOk(1), Ir(q)>>)
    BY <2>1, GuidedPieces
  <2>3. QED
    BY <2>2 DEF P
<1>3. Profile(p) \in StepSet /\ IrInit \in StepSet /\ IfOk(1) \in StepSet /\ Ir(q) \in StepSet
  BY <1>1, PlainSteps, StepTypes
<1>4. /\ <<Profile(p)>> \o <<IrInit>> = <<Profile(p), IrInit>>
      /\ <<Profile(p), IrInit>> \o <<IfOk(1), Ir(q)>> = View(p, q)
  BY <1>3, Joined DEF View
<1>5. Sounds(p, <<Profile(p)>>)
  <2> DEFINE s == <<Profile(p)>>
  <2>1. Len(s) = 1 /\ s[1] = Profile(p)
    BY <1>3
  <2>2. Profile(p).op = "profile"
    BY DEF Profile, Step
  <2>3. Guided({p}, s)
    BY <1>2
  <2> HIDE DEF s
  <2>4. Sounds(p, s)
    BY <2>1, <2>2, <2>3 DEF Sounds
  <2>5. QED
    BY <2>4 DEF s
<1>6. Sounds(p, <<Profile(p), IrInit>>)
  BY <1>2, <1>4, <1>5, SoundsConcat
<1>7. QED
  BY <1>2, <1>4, <1>6, SoundsConcat

LEMMA GuidedSwitch ==
    ASSUME NEW P, NEW n \in Int, NEW q \in BeamerSeqs
    PROVE  Guided(P, <<IfOk(n), Ir(q), Step("toggle", ToggleOf(q))>> \o Save)
BY GuidedPieces, GuidedConcat

\* It sets no profile and does not switch the beamer.
Unheard(s) ==
    /\ s \in Seq(StepSet)
    /\ \A k \in 1..Len(s) : /\ s[k].op \in {"irInit", "ifOk", "ir", "last"}
                            /\ s[k].op = "ir" => s[k].arg \notin BeamerSeqs

LEMMA UnheardSteps ==
    /\ \A q \in Int \ BeamerSeqs : Unheard(Device(q))
    /\ Unheard(CI_SHUTDOWN) /\ Unheard(<<Step("last", "WRONG_ARG")>>)
<1> DEFINE X == {x \in StepSet : /\ x.op \in {"irInit", "ifOk", "ir", "last"}
                                 /\ x.op = "ir" => x.arg \notin BeamerSeqs}
<1>1. ASSUME NEW s \in Seq(X) PROVE Unheard(s)
  <2>1. \A k \in 1..Len(s) : s[k] \in X
    BY ElementOfSeq
  <2>2. s \in Seq(StepSet)
    OBVIOUS
  <2>3. QED
    BY <2>1, <2>2 DEF Unheard
<1>2. /\ IrInit \in X /\ IfOk(1) \in X /\ \A q \in Int \ BeamerSeqs : Ir(q) \in X
      /\ Step("last", "WRONG_ARG") \in X /\ Step("last", "SHUTDOWN") \in X
  BY DEF IrInit, IfOk, Ir, Step, StepSet, Ops
<1>3. {9, 10, 11, 13} \subseteq Int \ BeamerSeqs
  BY Constants
<1> HIDE DEF X
<1>4. \A q \in Int \ BeamerSeqs : Device(q) \in Seq(X)
  BY <1>2 DEF Device
<1>5. CI_SHUTDOWN \in Seq(X)
  <2>1. Ir(9) \in X /\ Ir(10) \in X /\ Ir(11) \in X /\ Ir(13) \in X
    BY <1>2, <1>3
  <2>2. QED
    BY <1>2, <2>1 DEF CI_SHUTDOWN
<1>6. <<Step("last", "WRONG_ARG")>> \in Seq(X)
  BY <1>2
<1>7. QED
  BY <1>1, <1>4, <1>5, <1>6

LEMMA SequencerOrder ==
    ASSUME NEW n \in SequencerNames \ Special
    PROVE  (\E p \in Profiles : Sounds(p, CIsequencer(n))) \/ Unheard(CIsequencer(n))
<1>0. {0, 1, 2, 3, 4, 8, 11, 12, 13, 14} \subseteq Int \ BeamerSeqs
  BY Constants
<1>1. CASE n \in {"CI_BEAMER_MUTE", "CI_BEAMER_ON", "CI_START_BACKUP", "CI_STOP_BACKUP",
                  "CI_SWITCH_BACKUP"}
  <2>1. \A q \in {8, 14, 12, 13, 11} : Unheard(Device(q))
    BY <1>0, UnheardSteps
  <2>2. QED
    BY <1>1, <2>1 DEF CIsequencer
<1>2. CASE n \in {"CI_SHUTDOWN", "undefined"}
  BY <1>2, UnheardSteps DEF CIsequencer
<1>3. \A p \in Profiles, q \in {0, 1, 2, 3, 4, 12} : Sounds(p, View(p, q))
  BY <1>0, SoundsView
<1>4. CASE n \in {"CI_PPP_VIEW", "CI_TEXT_VIEW", "CI_GOPRO_VIEW", "CI_POSCAM_VIEW",
                  "CI_PREACHER_VIEW", "CI_PRAYER_VIEW", "CI_READERS_VIEW", "CI_SONG_VIEW",
                  "CI_LIVE_VIDEO"}
  <2>1. \A p \in Profiles, q \in {0, 1, 2, 3, 4} :
           CIsequencer(n) = View(p, q) => \E r \in Profiles : Sounds(r, CIsequencer(n))
    BY <1>3
  <2>2. AC_BAND \in Profiles /\ AC_TEXT \in Profiles /\ AC_WORSHIP \in Profiles
        /\ AC_PREACHING \in Profiles /\ AC_VIDEO_CLIP \in Profiles
    BY Constants
  <2>3. CASE n = "CI_PPP_VIEW"
    BY <2>1, <2>2, <2>3 DEF CIsequencer
  <2>4. CASE n = "CI_TEXT_VIEW"
    BY <2>1, <2>2, <2>4 DEF CIsequencer
  <2>5. CASE n \in {"CI_GOPRO_VIEW", "CI_POSCAM_VIEW", "CI_PRAYER_VIEW"}
    BY <2>1, <2>2, <2>5 DEF CIsequencer
  <2>6. CASE n \in {"CI_PREACHER_VIEW", "CI_READERS_VIEW"}
    BY <2>1, <2>2, <2>6 DEF CIsequencer
  <2>7. CASE n \in {"CI_SONG_VIEW", "CI_LIVE_VIDEO"}
    BY <2>1, <2>2, <2>7 DEF CIsequencer
  <2>8. QED
    BY <1>4, <2>3, <2>4, <2>5, <2>6, <2>7
<1>5. /\ AC_SLIDERSHOW \in Profiles
      /\ Guided({AC_SLIDERSHOW}, SwitchBeamer(5))
      /\ Guided({AC_SLIDERSHOW}, <<IfOk(1), Ir(7), Step("toggle", ToggleOf(7))>> \o Save)
      /\ Guided({AC_SLIDERSHOW}, <<IfOk(1), Ir(0)>>)
  <2>1. AC_SLIDERSHOW \in Profiles /\ 5 \in BeamerSeqs /\ 7 \in BeamerSeqs
    BY Constants
  <2>2. Guided({AC_SLIDERSHOW}, SwitchBeamer(5))
    BY <2>1, GuidedSwitch DEF SwitchBeamer
  <2>3. Guided({AC_SLIDERSHOW}, <<IfOk(1), Ir(7), Step("toggle", ToggleOf(7))>> \o Save)
    BY <2>1, GuidedSwitch
  <2>4. Guided({AC_SLIDERSHOW}, <<IfOk(1), Ir(0)>>)
    BY <1>0, GuidedPieces
  <2>5. QED
    BY <2>1, <2>2, <2>3, <2>4
<1>6. CASE n = "CI_PAUSE"
  <2>1. Sounds(AC_SLIDERSHOW, CI_PAUSE)
    BY <1>3, <1>5, SoundsConcat DEF CI_PAUSE
  <2>2. QED
    BY <1>5, <1>6, <2>1 DEF CIsequencer
<1>7. CASE n = "CI_TIMER"
  <2>1. Sounds(AC_SLIDERSHOW, View(AC_SLIDERSHOW, 12) \o <<IfOk(1), Ir(0)>>)
    BY <1>3, <1>5, SoundsConcat
  <2>2. Sounds(AC_SLIDERSHOW, CI_TIMER)
    BY <1>5, <2>1, SoundsConcat DEF CI_TIMER
  <2>3. QED
    BY <1>5, <1>7, <2>2 DEF CIsequencer
<1>8. CASE n = "CI_BEAMER_ANALOG"
  <2>1. Sounds(AC_SLIDERSHOW, CI_BEAMER_ANALOG)
    BY <1>3, <1>5, SoundsConcat, WholeAnalog
  <2>2. QED
    BY <1>5, <1>8, <2>1 DEF CIsequencer
<1>9. QED
  BY <1>1, <1>2, <1>4, <1>6, <1>7, <1>8 DEF SequencerNames, Special

\* The camera mount: the sequence for one view, and the round of PC_Test.
LEMMA GuidedShots ==
    ASSUME NEW P, NEW a \in P \cap Profiles, NEW c \in HdmiSeqs
    PROVE  Guided(P, PC_Sequencer(a, c)) /\ Guided(P, Turn(a, c))
<1>1. a \in P \cap Int /\ c \in Int \ BeamerSeqs /\ 2 \in Int \ BeamerSeqs /\ 1 \in Int
  BY Constants
<1>2. /\ Guided(P, <<Profile(a)>>) /\ Guided(P, <<IfOk(1), Ir(c)>>)
      /\ Guided(P, <<IfOk(1), Move>>) /\ Guided(P, <<IfOk(1), Ir(2)>>) /\ Guided(P, <<>>)
  BY <1>1, GuidedPieces
<1>3. /\ Profile(a) \in StepSet /\ Ir(c) \in StepSet /\ IfOk(1) \in StepSet /\ Move \in StepSet
  BY <1>1, PlainSteps, StepTypes
<1>4. Guided(P, <<Profile(a), IfOk(1), Ir(c)>>)
  <2>1. <<Profile(a)>> \o <<IfOk(1), Ir(c)>> = <<Profile(a), IfOk(1), Ir(c)>>
    BY <1>3, Joined
  <2>2. QED
    BY <1>2, <2>1, GuidedConcat
<1>5. Guided(P, <<Profile(a), IfOk(1), Ir(c), IfOk(1), Move>>)
  <2>1. <<Profile(a), IfOk(1), Ir(c)>> \o <<IfOk(1), Move>>
           = <<Profile(a), IfOk(1), Ir(c), IfOk(1), Move>>
    BY <1>3, Joined
  <2>2. QED
    BY <1>2, <1>4, <2>1, GuidedConcat
<1>6. Guided(P, PC_Sequencer(a, c))
  <2>1. Guided(P, IF c = 2 THEN <<>> ELSE <<IfOk(1), Ir(2)>>)
    BY <1>2
  <2>2. QED
    BY <1>5, <2>1, GuidedConcat DEF PC_Sequencer
<1>7. Guided(P, Turn(a, c))
  <2>1. Len(PC_Sequencer(a, c)) \in Int
    BY <1>6, LenProperties DEF Guided
  <2>2. Guided(P, <<IfOk(Len(PC_Sequencer(a, c)))>>)
    BY <2>1, GuidedPieces
  <2>3. QED
    BY <1>6, <2>2, GuidedConcat DEF Turn
<1>8. QED
  BY <1>6, <1>7

LEMMA GuidedRound == Guided(Profiles, Round)
<1>1. /\ Guided(Profiles, Turn(AC_SLIDERSHOW, 0)) /\ Guided(Profiles, Turn(AC_WORSHIP, 1))
      /\ Guided(Profiles, Turn(AC_PREACHING, 2)) /\ Guided(Profiles, Turn(AC_TEXT, 3))
      /\ Guided(Profiles, Turn(AC_BAND, 1))
  BY Constants, GuidedShots
<1>2. QED
  BY <1>1, GuidedConcat DEF Round

\* What sets the mixer, the switch or the beamer in another way, or drops
\* errors, comes before all profiles and signals.
Fresh == {"audio", "active", "irTeach", "flip", "forget"}
FreshFirst(n, s, k) ==
    s[k].op \in Fresh =>
       \/ \A j \in 1..(k-1) : s[j].op \notin {"profile", "ir"}
       \/ n = "CI_POS_TEST" /\ s[k].op = "forget" /\ k = Len(s)
\* A signal that accompanies a sound is under a guard of its own, behind it.
SignalGuarded(n, s, k) ==
    s[k].op = "ir" /\ (\E j \in 1..Len(s) : s[j].op = "profile") =>
       /\ k > 1 /\ s[k-1].op = "ifOk"
       /\ n = "CI_POS_TEST" \/ \E j \in 1..(k-1) : s[j].op = "profile"
SwitchRemembered(n, s, k) ==
    s[k].op = "ir" /\ s[k].arg \in BeamerSeqs /\ n \notin {"CI_IR", "CItestSequence"} =>
       k < Len(s) /\ s[k+1].op = "toggle"
LoopsBack(n, s, k) ==
    /\ s[k].op = "again" => k - s[k].arg = 2 /\ s[1].op = "irInit"
    /\ s[k].op = "within" => n \in Mounted
OneProfile(n, s) ==
    n # "CI_POS_TEST" =>
       \A j, k \in 1..Len(s) : s[j].op = "profile" /\ s[k].op = "profile" => s[j].arg = s[k].arg
Ordered(n, s) ==
    /\ \A k \in 1..Len(s) :
          /\ FreshFirst(n, s, k) /\ SignalGuarded(n, s, k) /\ SwitchRemembered(n, s, k)
          /\ LoopsBack(n, s, k)
          /\ s[k].op = "flip" => n = "CI_BEAMER_TOGGLE"
    /\ OneProfile(n, s)

LEMMA OrderedSounds ==
    ASSUME NEW n, NEW p, NEW s, Sounds(p, s)
    PROVE  Ordered(n, s)
<1>1. s \in Seq(StepSet) /\ Len(s) \in Nat /\ 1 \in 1..Len(s) /\ s[1].op = "profile"
  BY LenProperties DEF Sounds, Guided
<1>2. \A k \in 1..Len(s) :
         /\ s[k].op \notin Fresh \cup {"again", "within", "flip"}
         /\ s[k].op = "profile" => s[k].arg = p
         /\ s[k].op = "ir" => k > 1 /\ s[k-1].op = "ifOk"
         /\ s[k].op = "ir" /\ s[k].arg \in BeamerSeqs => k < Len(s) /\ s[k+1].op = "toggle"
  BY DEF Sounds, Guided, Switching, Showing, Fresh
<1>3. ASSUME NEW k \in 1..Len(s) PROVE SignalGuarded(n, s, k)
  <2>1. s[k].op = "ir" => 1 \in 1..(k-1)
    BY <1>1, <1>2
  <2>2. QED
    BY <1>1, <1>2, <2>1 DEF SignalGuarded
<1>4. QED
  BY <1>2, <1>3 DEF Ordered, FreshFirst, SwitchRemembered, LoopsBack, OneProfile

LEMMA OrderedUnheard ==
    ASSUME NEW n, NEW s, Unheard(s)
    PROVE  Ordered(n, s)
<1>1. \A k \in 1..Len(s) : /\ s[k].op \in {"irInit", "ifOk", "ir", "last"}
                           /\ s[k].op = "ir" => s[k].arg \notin BeamerSeqs
  BY DEF Unheard
<1>2. QED
  BY <1>1 DEF Ordered, FreshFirst, SignalGuarded, SwitchRemembered, LoopsBack, OneProfile, Fresh

\* CI_RESET: the errors are dropped before the worship profile is set.
LEMMA OrderedReset == Ordered("CI_RESET", CI_RESET)
<1> DEFINE n == "CI_RESET"
           r == ResetFirst
           t == View(AC_WORSHIP, 0) \o (<<IfOk(1), Ir(5), Step("toggle", ToggleOf(5))>> \o Save)
           s == r \o t
<1>1. CI_RESET = s
  BY ResetSteps
<1>2. Sounds(AC_WORSHIP, t)
  <2>1. AC_WORSHIP \in Profiles /\ 0 \in Int \ BeamerSeqs /\ 5 \in BeamerSeqs
    BY Constants
  <2>2. Sounds(AC_WORSHIP, View(AC_WORSHIP, 0))
    BY <2>1, SoundsView
  <2>3. Guided({AC_WORSHIP}, <<IfOk(1), Ir(5), Step("toggle", ToggleOf(5))>> \o Save)
    BY <2>1, GuidedSwitch
  <2>4. QED
    BY <2>2, <2>3, SoundsConcat
<1> HIDE DEF t
<1>3. /\ r \in Seq(StepSet) /\ Len(r) = 5
      /\ r[1].op = "audio" /\ r[2].op = "active" /\ r[3].op = "openAc" /\ r[4].op = "writeAc"
      /\ r[5].op = "forget"
  BY ResetSteps DEF Audio, OpenAc, WriteAc, Forget, Step
<1> HIDE DEF r
<1>4. t \in Seq(StepSet) /\ Len(t) \in Nat /\ Len(t) > 0
  BY <1>2, LenProperties DEF Sounds, Guided
<1>5. /\ Len(s) = 5 + Len(t)
      /\ \A i \in 1..5 : s[i] = r[i]
      /\ \A i \in 1..Len(t) : s[5 + i] = t[i]
  <2>1. /\ Len(s) = Len(r) + Len(t)
        /\ \A i \in 1..Len(r) : s[i] = r[i]
        /\ \A i \in 1..Len(t) : s[Len(r) + i] = t[i]
    BY <1>3, <1>4, Concatenated
  <2> HIDE DEF s
  <2>2. QED
    BY <1>3, <2>1
<1> HIDE DEF s, n
<1>6. /\ s[1].op = "audio" /\ s[2].op = "active" /\ s[3].op = "openAc" /\ s[4].op = "writeAc"
      /\ s[5].op = "forget"
  BY <1>3, <1>5
<1>7. \A k \in 1..5 : s[k].op \in {"audio", "active", "openAc", "writeAc", "forget"}
  BY <1>6
<1>8. ASSUME NEW k \in 6..Len(s)
      PROVE  /\ s[k].op \notin Fresh \cup {"again", "within", "flip"}
             /\ s[k].op = "profile" => s[k].arg = AC_WORSHIP
             /\ s[k].op = "ir" => k > 6 /\ s[k-1].op = "ifOk"
             /\ s[k].op = "ir" /\ s[k].arg \in BeamerSeqs => k < Len(s) /\ s[k+1].op = "toggle"
  <2> DEFINE j == k - 5
  <2>1. j \in 1..Len(t) /\ k = 5 + j /\ j \in Int
    BY <1>4, <1>5
  <2> HIDE DEF j
  <2>2. s[k] = t[j]
    BY <1>5, <2>1
  <2>3. j > 1 => k > 6 /\ s[k-1] = t[j-1]
    <3>1. j > 1 => j - 1 \in 1..Len(t) /\ k - 1 = 5 + (j - 1) /\ k > 6
      BY <1>4, <2>1
    <3>2. QED
      BY <1>5, <3>1
  <2>4. j < Len(t) => k < Len(s) /\ s[k+1] = t[j+1]
    <3>1. j < Len(t) => j + 1 \in 1..Len(t) /\ k + 1 = 5 + (j + 1) /\ k < Len(s)
      BY <1>4, <1>5, <2>1
    <3>2. QED
      BY <1>5, <3>1
  <2>5. /\ t[j].op \in Switching \cup {"move"}
        /\ t[j].op = "profile" => t[j].arg = AC_WORSHIP
        /\ t[j].op = "ir" => j > 1 /\ t[j-1].op = "ifOk"
        /\ t[j].op = "ir" /\ t[j].arg \in BeamerSeqs => j < Len(t) /\ t[j+1].op = "toggle"
    BY <1>2, <2>1 DEF Sounds, Guided
  <2>6. QED
    BY <2>2, <2>3, <2>4, <2>5 DEF Switching, Showing, Fresh
<1>9. s[6].op = "profile" /\ 6 \in 1..Len(s)
  <2>1. t[1].op = "profile" /\ 1 \in 1..Len(t) /\ 5 + 1 = 6
    BY <1>2, <1>4 DEF Sounds
  <2>2. QED
    BY <1>4, <1>5, <2>1
<1>10. ASSUME NEW k \in 1..Len(s)
       PROVE  /\ FreshFirst(n, s, k) /\ SignalGuarded(n, s, k) /\ SwitchRemembered(n, s, k)
              /\ LoopsBack(n, s, k) /\ s[k].op # "flip"
              /\ s[k].op = "profile" => s[k].arg = AC_WORSHIP
  <2>1. CASE k \in 1..5
    <3>1. \A j \in 1..(k-1) : j \in 1..5
      BY <2>1
    <3>2. QED
      BY <1>7, <2>1, <3>1
      DEF FreshFirst, SignalGuarded, SwitchRemembered, LoopsBack
  <2>2. CASE k \in 6..Len(s)
    <3>1. k > 6 => 6 \in 1..(k-1) /\ k > 1
      BY <2>2
    <3>2. QED
      BY <1>8, <1>9, <2>2, <3>1
      DEF FreshFirst, SignalGuarded, SwitchRemembered, LoopsBack, Fresh
  <2>3. k \in 1..5 \/ k \in 6..Len(s)
    BY <1>4, <1>5
  <2>4. QED
    BY <2>1, <2>2, <2>3
<1>11. OneProfile(n, s)
  BY <1>10 DEF OneProfile
<1>12. Ordered(n, s)
  BY <1>10, <1>11 DEF Ordered
<1>13. QED
  BY <1>1, <1>12 DEF n

LEMMA DriveOrder ==
    ASSUME NEW c \in Commands, c.name \in Mounted, NEW j \in 1..Len(Drive(c))
    PROVE  LET t == Drive(c)
           IN  /\ t[j].op = "ir" => j > 1 /\ t[j-1].op = "ifOk"
               /\ t[j].op = "profile" => c.name \in {"CI_POS_TEST", "CI_POS_SEQUENCE"}
               /\ c.name = "CI_POS_SEQUENCE" =>
                     t[1].op = "profile" /\ (t[j].op = "profile" => t[j].arg = AC_PREACHING)
               /\ t[j].op = "forget" => c.name = "CI_POS_TEST"
<1> DEFINE t == Drive(c)
<1>1. CASE c.name = "CI_POS_CONTROL"
  <2>1. t = <<Move>> /\ Move.op = "move"
    BY <1>1 DEF Drive, Move, Step
  <2>2. t[j].op = "move"
    BY <2>1
  <2>3. QED
    BY <1>1, <2>2
<1>2. CASE c.name = "CI_POS_TEACH"
  <2>1. t = PC_Teach
    BY <1>2 DEF Drive
  <2>2. t[j].op \in {"zoomSave", "openPc", "writePc"}
    BY <2>1 DEF PC_Teach, Step
  <2>3. QED
    BY <1>2, <2>2
<1>3. CASE c.name = "CI_POS_TEST" /\ c.arg = 0
  <2>1. t = PC_Test_Pos
    BY <1>3 DEF Drive
  <2>2. t[j].op \in {"move", "ifOk", "within", "forget"}
    BY <2>1 DEF PC_Test_Pos, Move, IfOk, Forget, Step
  <2>3. QED
    BY <1>3, <2>2
<1>4. CASE c.name = "CI_POS_TEST" /\ c.arg # 0
  <2> DEFINE r == Round
             l == <<Step("within", Len(r)), Forget>>
  <2>1. t = r \o l
    BY <1>4, PcTestIs DEF Drive
  <2>2. r \in Seq(StepSet) /\ Guided(Profiles, r) /\ Len(r) \in Nat
    BY GuidedRound, LenProperties DEF Guided
  <2> HIDE DEF r
  <2>3. l \in Seq(StepSet) /\ Len(l) = 2 /\ l[1].op = "within" /\ l[2].op = "forget"
    BY <2>2 DEF Step, Forget, StepSet, Ops
  <2> HIDE DEF l, t
  <2>4. /\ Len(t) = Len(r) + Len(l)
        /\ \A i \in 1..Len(r) : t[i] = r[i]
        /\ \A i \in 1..Len(l) : t[Len(r) + i] = l[i]
    <3>1. /\ Len(r \o l) = Len(r) + Len(l)
          /\ \A i \in 1..Len(r) : (r \o l)[i] = r[i]
          /\ \A i \in 1..Len(l) : (r \o l)[Len(r) + i] = l[i]
      BY <2>2, <2>3, Concatenated
    <3>2. QED
      BY <2>1, <3>1
  <2>5. CASE j <= Len(r)
    <3>1. /\ j \in 1..Len(r) /\ t[j] = r[j]
          /\ j > 1 => j - 1 \in 1..Len(r) /\ t[j-1] = r[j-1]
      BY <2>2, <2>4, <2>5
    <3>2. /\ r[j].op \in Switching \cup {"move"}
          /\ r[j].op = "ir" => j > 1 /\ r[j-1].op = "ifOk"
      BY <2>2, <3>1 DEF Guided
    <3>3. QED
      BY <1>4, <3>1, <3>2 DEF t
  <2>6. CASE j > Len(r)
    <3> DEFINE i == j - Len(r)
    <3>1. j \in 1..Len(t)
      BY DEF t
    <3>2. i \in 1..Len(l) /\ Len(r) + i = j
      BY <2>2, <2>4, <2>6, <3>1, <2>3
    <3>3. t[j] = l[i] /\ i \in {1, 2}
      BY <2>3, <2>4, <3>2
    <3>4. t[j].op \in {"within", "forget"}
      BY <2>3, <3>3
    <3>5. QED
      BY <1>4, <3>4 DEF t
  <2>7. QED
    BY <2>2, <2>5, <2>6 DEF t
<1>5. CASE c.name = "CI_POS_SEQUENCE"
  <2>1. t = PC_Sequencer(AC_PREACHING, c.arg) /\ c.arg \in {0, 2}
    BY <1>5 DEF Drive, Commands, SequencerNames
  <2>2. AC_PREACHING \in Profiles /\ c.arg \in HdmiSeqs /\ c.arg \in Int
    BY <2>1, Constants
  <2>3. Guided({AC_PREACHING}, t)
    <3> DEFINE P == {AC_PREACHING}
    <3>1. AC_PREACHING \in P \cap Profiles
      BY <2>2
    <3> HIDE DEF P
    <3>2. Guided(P, PC_Sequencer(AC_PREACHING, c.arg))
      BY <2>2, <3>1, GuidedShots
    <3>3. QED
      BY <2>1, <3>2 DEF P
  <2>4. t[1].op = "profile"
    <3>1. t[1] = Profile(AC_PREACHING)
      BY <2>1, <2>2, SequencerBegins
    <3>2. QED
      BY <3>1 DEF Profile, Step
  <2>5. /\ t[j].op \in Switching \cup {"move"}
        /\ t[j].op = "profile" => t[j].arg = AC_PREACHING
        /\ t[j].op = "ir" => j > 1 /\ t[j-1].op = "ifOk"
    BY <2>3 DEF Guided
  <2>6. QED
    BY <1>5, <2>4, <2>5 DEF Switching, Showing
<1>6. QED
  BY <1>1, <1>2, <1>3, <1>4, <1>5 DEF Mounted

LEMMA OrderedMounted ==
    ASSUME NEW c \in Commands, c.name \in Mounted
    PROVE  Ordered(c.name, StepsOf(c))
<1> DEFINE s == StepsOf(c)
           t == Drive(c)
           d == GuardAt(c)
           n == c.name
<1>1. /\ Prepares(s, t, d) /\ Drives(t) /\ (d = 3 <=> n = "CI_POS_SEQUENCE")
      /\ d = 3 \/ d = 5
  BY MountSteps DEF GuardAt
<1>2. ASSUME NEW k \in 1..Len(s)
      PROVE  /\ Len(s) = d + Len(t) /\ Len(t) \in Nat
             /\ k < d - 1 => s[k].op \in {"irInit", "ifOk", "ir"}
             /\ k < d - 1 /\ s[k].op = "ir" => k = 3 /\ s[k] = Ir(2)
             /\ k = d - 1 => s[k].op = "pcInit"
             /\ k = d => s[k].op = "ifOk"
             /\ k > d => k - d \in 1..Len(t) /\ s[k] = t[k-d]
             /\ k > d => s[k].op \in {"profile", "ir", "ifOk", "move", "within", "forget",
                                      "zoomSave", "openPc", "writePc"}
  BY MountOps
<1>3. ASSUME NEW j \in 1..Len(t)
      PROVE  /\ t[j].op = "ir" => j > 1 /\ t[j-1].op = "ifOk" /\ t[j].arg \in HdmiSeqs
             /\ t[j].op = "profile" => n \in {"CI_POS_TEST", "CI_POS_SEQUENCE"}
             /\ n = "CI_POS_SEQUENCE" =>
                   t[1].op = "profile" /\ (t[j].op = "profile" => t[j].arg = AC_PREACHING)
             /\ t[j].op = "forget" => n = "CI_POS_TEST" /\ j = Len(t)
  BY <1>1, DriveOrder DEF Drives
<1>4. d = 5 => s[2].op = "ifOk"
  BY <1>1 DEF Prepares, IfOk, Step
<1>5. Ir(2).arg \in HdmiSeqs /\ HdmiSeqs \cap BeamerSeqs = {}
  BY Constants DEF Ir, Step
<1>6. \A i \in 1..Len(t) : s[d + i] = t[i]
  BY <1>1 DEF Prepares
<1>7. n \in Mounted
  OBVIOUS
<1> HIDE DEF s, t, d, n
<1>8. ASSUME NEW k \in 1..Len(s)
      PROVE  /\ s[k].op = "profile" => k > d /\ n \in {"CI_POS_TEST", "CI_POS_SEQUENCE"}
             /\ s[k].op = "profile" /\ n = "CI_POS_SEQUENCE" => s[k].arg = AC_PREACHING
             /\ s[k].op \in Fresh => s[k].op = "forget" /\ n = "CI_POS_TEST" /\ k = Len(s)
             /\ s[k].op = "ir" => s[k].arg \in HdmiSeqs
             /\ s[k].op \notin {"again", "flip"}
  <2>1. CASE k <= d
    BY <1>1, <1>2, <1>5, <2>1 DEF Fresh
  <2>2. CASE k > d
    <3>1. k - d \in 1..Len(t) /\ s[k] = t[k-d] /\ Len(s) = d + Len(t) /\ Len(t) \in Nat
      BY <1>2, <2>2
    <3>2. k - d = Len(t) => k = Len(s)
      BY <1>1, <3>1
    <3>3. s[k].op \in {"profile", "ir", "ifOk", "move", "within", "forget",
                       "zoomSave", "openPc", "writePc"}
      BY <1>2, <2>2
    <3> DEFINE j == k - d
    <3> HIDE DEF j
    <3>4. j \in 1..Len(t) /\ s[k] = t[j] /\ (j = Len(t) => k = Len(s))
      BY <3>1, <3>2 DEF j
    <3>5. QED
      BY <1>3, <2>2, <3>3, <3>4 DEF Fresh
  <2>3. QED
    BY <1>1, <2>1, <2>2
<1>9. ASSUME NEW k \in 1..Len(s) PROVE SignalGuarded(n, s, k)
  <2> SUFFICES ASSUME s[k].op = "ir", n \in {"CI_POS_TEST", "CI_POS_SEQUENCE"}
               PROVE  /\ k > 1 /\ s[k-1].op = "ifOk"
                      /\ n = "CI_POS_TEST" \/ \E j \in 1..(k-1) : s[j].op = "profile"
    BY <1>8 DEF SignalGuarded
  <2>1. CASE k <= d
    <3>1. k = 3 /\ d = 5
      BY <1>1, <1>2, <2>1
    <3>2. n = "CI_POS_TEST"
      BY <1>1, <3>1
    <3>3. QED
      BY <1>4, <3>1, <3>2
  <2>2. CASE k > d
    <3> DEFINE j == k - d
    <3>1. j \in 1..Len(t) /\ s[k] = t[j] /\ k = d + j /\ Len(t) \in Nat
      BY <1>1, <1>2, <2>2
    <3> HIDE DEF j
    <3>2. j > 1 /\ t[j-1].op = "ifOk"
      BY <1>3, <3>1
    <3>3. j - 1 \in 1..Len(t) /\ k - 1 = d + (j - 1) /\ k > 1
      <4>1. d \in Nat /\ j \in Int /\ j <= Len(t)
        BY <1>1, <3>1
      <4>2. QED
        BY <3>1, <3>2, <4>1
    <3>4. s[k-1].op = "ifOk"
      BY <1>6, <3>2, <3>3
    <3>5. n = "CI_POS_SEQUENCE" => s[d+1].op = "profile"
      <4>1. 1 \in 1..Len(t)
        BY <3>1
      <4>2. QED
        BY <1>3, <1>6, <4>1
    <3>6. d + 1 \in 1..(k-1)
      BY <1>1, <3>1, <3>2
    <3>7. QED
      BY <3>3, <3>4, <3>5, <3>6
  <2>3. QED
    BY <1>1, <2>1, <2>2
<1>10. OneProfile(n, s)
  BY <1>8 DEF OneProfile
<1>11. \A k \in 1..Len(s) : FreshFirst(n, s, k) /\ SwitchRemembered(n, s, k) /\ LoopsBack(n, s, k)
  BY <1>5, <1>7, <1>8 DEF FreshFirst, SwitchRemembered, LoopsBack
<1>12. Ordered(n, s)
  BY <1>8, <1>9, <1>10, <1>11 DEF Ordered
<1>13. QED
  BY <1>12 DEF n, s

\* CI_AUDIO_TEACH, step by step.
LEMMA TeachIs ==
    ASSUME NEW c \in Commands, c.name = "CI_AUDIO_TEACH"
    PROVE  LET s == StepsOf(c)
           IN  /\ c.arg \in Teachable /\ c.arg \in Int /\ Len(s) = 7
               /\ s[1] = OpenAc /\ s[2] = WriteAc /\ s[3] = IfOk(4) /\ s[4] = Profile(c.arg)
               /\ s[5] = IfOk(2) /\ s[6] = OpenAc /\ s[7] = WriteAc
<1> DEFINE u == <<OpenAc, WriteAc>>
           t == <<IfOk(4), Profile(c.arg), IfOk(2), OpenAc, WriteAc>>
           s == StepsOf(c)
<1>1. c.arg \in Teachable /\ s = u \o t
  BY OpsOfCommands
<1>2. c.arg \in 0..9
  BY <1>1, TeachableAssumption
<1>3. Profile(c.arg) \in StepSet
  BY <1>2 DEF Profile, Step, StepSet, Ops
<1>4. /\ u \in Seq(StepSet) /\ Len(u) = 2 /\ u[1] = OpenAc /\ u[2] = WriteAc
  BY StepTypes
<1>5. /\ t \in Seq(StepSet) /\ Len(t) = 5 /\ t[1] = IfOk(4) /\ t[2] = Profile(c.arg)
      /\ t[3] = IfOk(2) /\ t[4] = OpenAc /\ t[5] = WriteAc
  BY <1>3, StepTypes
<1> HIDE DEF u, t, s
<1>6. /\ Len(u \o t) = Len(u) + Len(t)
      /\ \A i \in 1..Len(u) : (u \o t)[i] = u[i]
      /\ \A i \in 1..Len(t) : (u \o t)[Len(u) + i] = t[i]
  BY <1>4, <1>5, Concatenated
<1>7. /\ Len(s) = 7 /\ \A i \in 1..2 : s[i] = u[i]
      /\ \A i \in 1..5 : s[2 + i] = t[i]
  <2>1. s = u \o t /\ Len(u) = 2 /\ Len(t) = 5
    BY <1>1, <1>4, <1>5, Zenon
  <2>2. Len(s) = 7
    BY <1>6, <2>1
  <2>3. \A i \in 1..2 : s[i] = u[i]
    BY <1>6, <2>1
  <2>4. \A i \in 1..5 : s[2 + i] = t[i]
    BY <1>6, <2>1
  <2>5. QED
    BY <2>2, <2>3, <2>4
<1>8. /\ s[1] = u[1] /\ s[2] = u[2] /\ s[3] = t[1] /\ s[4] = t[2] /\ s[5] = t[3]
      /\ s[6] = t[4] /\ s[7] = t[5]
  <2>1. \A i \in 1..5 : s[2 + i] = t[i]
    BY <1>7
  <2>2. s[2 + 1] = t[1] /\ s[2 + 2] = t[2] /\ s[2 + 3] = t[3]
    BY <2>1
  <2>3. s[2 + 4] = t[4] /\ s[2 + 5] = t[5]
    BY <2>1
  <2>4. QED
    BY <1>7, <2>2, <2>3
<1>9. /\ s[1] = OpenAc /\ s[2] = WriteAc /\ s[3] = IfOk(4) /\ s[4] = Profile(c.arg)
      /\ s[5] = IfOk(2) /\ s[6] = OpenAc /\ s[7] = WriteAc
  BY <1>4, <1>5, <1>8
<1>10. c.arg \in Teachable /\ c.arg \in Int
  BY <1>1, <1>2
<1>11. QED
  BY <1>7, <1>9, <1>10, Zenon DEF s

LEMMA OrderedSteps == \A c \in Commands : Ordered(c.name, StepsOf(c))
<1> SUFFICES ASSUME NEW c \in Commands PROVE Ordered(c.name, StepsOf(c))
  OBVIOUS
<1> DEFINE n == c.name
           s == StepsOf(c)
<1>1. CASE n \in SequencerNames \ Special
  <2>1. (\E p \in Profiles : Sounds(p, s)) \/ Unheard(s)
    BY <1>1, SequencerSteps, SequencerOrder
  <2>2. QED
    BY <2>1, OrderedSounds, OrderedUnheard
<1>2. CASE n = "CI_RESET"
  BY <1>2, OpsOfCommands, OrderedReset
<1>3. CASE n \in Mounted
  BY <1>3, OrderedMounted
<1>4. CASE n = "CI_BEAMER_TOGGLE"
  <2>1. s = <<IrInit, Step("read", 0), IfOk(3), Step("flip", 0), Open, WriteIt>>
    BY <1>4, OpsOfCommands
  <2>2. /\ Len(s) = 6 /\ s[1].op = "irInit" /\ s[2].op = "read" /\ s[3].op = "ifOk"
        /\ s[4].op = "flip" /\ s[5].op = "open" /\ s[6].op = "write"
    BY <2>1 DEF IrInit, Step, IfOk, Open, WriteIt
  <2> HIDE DEF s
  <2>3. \A k \in 1..Len(s) : s[k].op \in {"irInit", "read", "ifOk", "flip", "open", "write"}
    BY <2>2
  <2>4. \A k \in 1..Len(s) : \A j \in 1..(k-1) : j \in 1..Len(s)
    BY <2>2
  <2>5. Ordered(n, s)
    BY <1>4, <2>3, <2>4
    DEF Ordered, FreshFirst, SignalGuarded, SwitchRemembered, LoopsBack, OneProfile
  <2>6. QED
    BY <2>5 DEF s
<1>5. CASE n \in {"CI_IR", "CI_IR_TEACH"}
  <2>1. /\ Len(s) = 3 /\ s[1].op = "irInit" /\ s[2].op = "ifOk"
        /\ s[3].op = IF n = "CI_IR" THEN "ir" ELSE "irTeach"
    <3>1. /\ n = "CI_IR" => s = <<IrInit, IfOk(1), Ir(c.arg)>>
          /\ n = "CI_IR_TEACH" => s = <<IrInit, IfOk(1), Step("irTeach", c.arg)>>
      BY OpsOfCommands
    <3>2. CASE n = "CI_IR"
      BY <3>1, <3>2 DEF IrInit, IfOk, Ir, Step
    <3>3. CASE n = "CI_IR_TEACH"
      BY <3>1, <3>3 DEF IrInit, IfOk, Step
    <3>4. QED
      BY <1>5, <3>2, <3>3
  <2> HIDE DEF s
  <2>2. \A k \in 1..Len(s) : k = 1 \/ k = 2 \/ k = 3
    BY <2>1
  <2>3. ASSUME NEW k \in 1..Len(s)
        PROVE  /\ s[k].op \in {"irInit", "ifOk", "ir", "irTeach"}
               /\ s[k].op = "ir" => n = "CI_IR"
               /\ \A j \in 1..(k-1) : s[j].op \in {"irInit", "ifOk"}
    <3>1. \A j \in 1..(k-1) : j = 1 \/ j = 2
      BY <2>1
    <3>2. QED
      BY <2>1, <2>2, <3>1
  <2>4. Ordered(n, s)
    BY <2>3 DEF Ordered, FreshFirst, SignalGuarded, SwitchRemembered, LoopsBack, OneProfile
  <2>5. QED
    BY <2>4 DEF s
<1>6. CASE n \in {"CI_AUDIO_SWITCH", "CI_POS_MOVE_BTN"}
  <2>1. Len(s) = 1 /\ s[1].op \in {"audio", "profile", "pcInit"}
    <3>1. s = <<Audio>> \/ s = <<Profile(c.arg)>> \/ s = <<PcInit>>
      BY <1>6, OpsOfCommands
    <3>2. Audio.op = "audio" /\ Profile(c.arg).op = "profile" /\ PcInit.op = "pcInit"
      BY DEF Audio, Profile, PcInit, Step
    <3> HIDE DEF s
    <3>3. CASE s = <<Audio>>
      BY <3>2, <3>3
    <3>4. CASE s = <<Profile(c.arg)>>
      BY <3>2, <3>4
    <3>5. CASE s = <<PcInit>>
      BY <3>2, <3>5
    <3>6. QED
      BY <3>1, <3>3, <3>4, <3>5
  <2> HIDE DEF s
  <2>2. \A k \in 1..Len(s) : k = 1
    BY <2>1
  <2>3. Ordered(n, s)
    <3>1. \A j, k \in 1..Len(s) : s[j].arg = s[k].arg
      BY <2>2
    <3>2. ASSUME NEW k \in 1..Len(s)
          PROVE  /\ s[k].op \in {"audio", "profile", "pcInit"}
                 /\ \A j \in 1..(k-1) : FALSE
      BY <2>1, <2>2
    <3>3. QED
      BY <3>1, <3>2
      DEF Ordered, FreshFirst, SignalGuarded, SwitchRemembered, LoopsBack, OneProfile
  <2>4. QED
    BY <2>3 DEF s
<1>7. CASE n = "CI_AUDIO_TEACH"
  <2>1. /\ Len(s) = 7
        /\ s[1].op = "openAc" /\ s[2].op = "writeAc" /\ s[3].op = "ifOk" /\ s[4].op = "profile"
        /\ s[5].op = "ifOk" /\ s[6].op = "openAc" /\ s[7].op = "writeAc"
    <3>1. /\ Len(s) = 7
          /\ s[1] = OpenAc /\ s[2] = WriteAc /\ s[3] = IfOk(4) /\ s[4] = Profile(c.arg)
          /\ s[5] = IfOk(2) /\ s[6] = OpenAc /\ s[7] = WriteAc
      BY <1>7, TeachIs
    <3>2. /\ OpenAc.op = "openAc" /\ WriteAc.op = "writeAc" /\ Profile(c.arg).op = "profile"
          /\ \A i : IfOk(i).op = "ifOk"
      BY DEF OpenAc, WriteAc, IfOk, Profile, Step
    <3> HIDE DEF s
    <3>3. QED
      BY <3>1, <3>2
  <2> HIDE DEF s
  <2>2. \A k \in 1..Len(s) : k = 1 \/ k = 2 \/ k = 3 \/ k = 4 \/ k = 5 \/ k = 6 \/ k = 7
    BY <2>1
  <2>3. \A k \in 1..Len(s) : /\ s[k].op \in {"openAc", "writeAc", "ifOk", "profile"}
                             /\ s[k].op = "profile" => k = 4
    BY <2>1, <2>2
  <2>4. Ordered(n, s)
    BY <2>3 DEF Ordered, FreshFirst, SignalGuarded, SwitchRemembered, LoopsBack, OneProfile, Fresh
  <2>5. QED
    BY <2>4 DEF s
<1>8. CASE n = "CItestSequence"
  <2> DEFINE g == Signalled(c.arg)
             u == <<IrInit>> \o g
             l == <<Step("again", Len(g))>>
  <2>1. s = u \o l
    BY <1>8, OpsOfCommands
  <2>2. g \in Seq(StepSet) /\ Len(g) \in Nat /\ \A i \in 1..Len(g) : g[i].op = "ir"
    <3>1. g \in Seq(Signals)
      BY SignalledIs
    <3> HIDE DEF g
    <3>2. \A i \in 1..Len(g) : g[i] \in Signals
      BY <3>1, ElementOfSeq
    <3>3. g \in Seq(StepSet)
      BY <3>1, StepTypes DEF Signals
    <3>4. QED
      BY <3>2, <3>3, LenProperties DEF Signals
  <2>3. l \in Seq(StepSet) /\ Len(l) = 1 /\ l[1] = Step("again", Len(g))
    <3> HIDE DEF g
    <3>1. Step("again", Len(g)) \in StepSet
      BY <2>2 DEF Step, StepSet, Ops
    <3>2. QED
      BY <3>1
  <2> HIDE DEF g, l
  <2>4. u \in Seq(StepSet) /\ Len(u) = 1 + Len(g) /\ u[1] = IrInit
        /\ \A i \in 1..Len(g) : u[1 + i] = g[i]
    <3> DEFINE h == <<IrInit>>
    <3>1. h \in Seq(StepSet) /\ Len(h) = 1 /\ h[1] = IrInit
      BY PlainSteps, StepTypes
    <3> HIDE DEF h
    <3>2. /\ h \o g \in Seq(StepSet) /\ Len(h \o g) = Len(h) + Len(g)
          /\ \A i \in 1..Len(h) : (h \o g)[i] = h[i]
          /\ \A i \in 1..Len(g) : (h \o g)[Len(h) + i] = g[i]
      BY <2>2, <3>1, Concatenated
    <3>3. u = h \o g
      BY DEF h
    <3> HIDE DEF u
    <3>4. QED
      BY <3>1, <3>2, <3>3
  <2> HIDE DEF u
  <2>5. /\ Len(s) = Len(g) + 2
        /\ \A i \in 1..Len(u) : s[i] = u[i]
        /\ s[Len(u) + 1] = Step("again", Len(g))
    <3>1. /\ Len(u \o l) = Len(u) + Len(l)
          /\ \A i \in 1..Len(u) : (u \o l)[i] = u[i]
          /\ \A i \in 1..Len(l) : (u \o l)[Len(u) + i] = l[i]
      BY <2>3, <2>4, Concatenated
    <3>2. QED
      BY <2>1, <2>2, <2>3, <2>4, <3>1
  <2> HIDE DEF s
  <2>6. /\ s[1].op = "irInit"
        /\ s[Len(s)].op = "again" /\ s[Len(s)].arg = Len(g)
    <3>1. Len(s) = Len(u) + 1 /\ 1 \in 1..Len(u)
      BY <2>2, <2>4, <2>5
    <3>2. QED
      BY <2>4, <2>5, <3>1 DEF IrInit, Step
  <2>7. ASSUME NEW k \in 2..(Len(s) - 1) PROVE s[k].op = "ir"
    <3>1. k - 1 \in 1..Len(g) /\ k = 1 + (k - 1) /\ k \in 1..Len(u)
      BY <2>2, <2>4, <2>5
    <3>2. QED
      BY <2>2, <2>4, <2>5, <3>1
  <2>8. \A k \in 1..Len(s) : k = 1 \/ k \in 2..(Len(s) - 1) \/ k = Len(s)
    BY <2>2, <2>5
  <2>9. Len(s) - Len(g) = 2
    BY <2>2, <2>5
  <2>10. ASSUME NEW k \in 1..Len(s)
         PROVE  /\ s[k].op \in {"irInit", "ir", "again"}
                /\ s[k].op = "again" => k - s[k].arg = 2
    BY <2>6, <2>7, <2>8, <2>9
  <2>11. Ordered(n, s)
    BY <1>8, <2>6, <2>10
    DEF Ordered, FreshFirst, SignalGuarded, SwitchRemembered, LoopsBack, OneProfile, Fresh
  <2>12. QED
    BY <2>11 DEF s
<1>9. QED
  BY <1>1, <1>2, <1>3, <1>4, <1>5, <1>6, <1>7, <1>8, OpsOfCommands DEF Special

-----------------------------------------------------------------------------
(* The toggle state of the beamer                                          *)

\* The step after this one.
LEMMA Following ==
    ASSUME Placed, Steps
    PROVE  /\ Current.op \notin {"ifOk", "open", "openAc", "openPc", "again", "within"} =>
                 Here' = Here + 1
           /\ Within1 => Here' \in 1..Len(StepsOf(command)) /\ Current' = StepsOf(command)[Here']
                         /\ Current'.op = Next1
           /\ pc' = "run" /\ command' = command
<1>1. pc' = "run" /\ command' = command /\ (Onward \/ Jumps \/ Unopened \/ Loops)
  BY Flow
<1>2. Within1 => Here' \in 1..Len(StepsOf(command))
  BY Entered
<1>3. QED
  BY <1>1, <1>2 DEF Onward, Jumps, Unopened, Loops, Current, Next1

LEMMA AfterStep ==
    ASSUME Placed, Steps, NEW ops
    PROVE  AtStep(ops)' <=> Within1 /\ Next1 \in ops
<1>1. pc' = "run" /\ command' = command
  BY Flow
<1>2. QED
  BY <1>1 DEF AtStep, Within1, Next1, Current

\* CI_BEAMER_TOGGLE guards the switch right after it has read the state.
LEMMA ToggleGuard ==
    ASSUME Placed, Steps, command.name = "CI_BEAMER_TOGGLE", Within1, Next1 = "ifOk"
    PROVE  Current.op = "read"
<1> DEFINE s == StepsOf(command)
<1>1. /\ Here \in 1..Len(s) /\ Current = s[Here] /\ command \in Commands
      /\ Onward \/ Jumps \/ Unopened \/ Loops
  BY Flow DEF Current, Placed
<1>2. /\ Len(s) = 6 /\ s[1].op = "irInit" /\ s[2].op = "read" /\ s[3].op = "ifOk"
      /\ s[4].op = "flip" /\ s[5].op = "open" /\ s[6].op = "write" /\ s[3].arg = 3
  <2>1. s = <<IrInit, Step("read", 0), IfOk(3), Step("flip", 0), Open, WriteIt>>
    BY <1>1, OpsOfCommands
  <2>2. QED
    BY <2>1 DEF IrInit, Step, IfOk, Open, WriteIt
<1>3. Here' \in 1..Len(s) /\ s[Here'].op = "ifOk"
  BY Entered DEF Next1
<1> HIDE DEF s
<1>4. Here' = 3
  <2>1. Here' = 1 \/ Here' = 2 \/ Here' = 3 \/ Here' = 4 \/ Here' = 5 \/ Here' = 6
    BY <1>2, <1>3
  <2>2. QED
    BY <1>2, <1>3, <2>1
<1>5. Here = 1 \/ Here = 2 \/ Here = 3 \/ Here = 4 \/ Here = 5 \/ Here = 6
  BY <1>1, <1>2
<1>6. Here = 2
  BY <1>1, <1>2, <1>4, <1>5 DEF Onward, Jumps, Unopened, Loops
<1>7. QED
  BY <1>1, <1>2, <1>6

\* What a step leaves alone of the beamer and its toggle state.
LEMMA BeamerStays ==
    ASSUME Placed, Steps
    PROVE  /\ Current.op \notin {"ir", "flip"} => beamer' = beamer
           /\ Current.op \notin {"toggle", "flip", "read"} => toggle' = toggle
           /\ Current.op \notin {"open", "write"} => ciFile' = ciFile
<1>1. pc = "run" /\ Head(todo) = Current
  BY Flow
<1>2. \A op : Running(op) => Current.op = op
  BY <1>1 DEF Running
<1>3. CASE IfOkStep \/ AgainStep
  BY <1>3 DEF IfOkStep, AgainStep, picture, toggles
<1>4. CASE MoveStep \/ LastStep \/ ForgetStep \/ PcInitStep
  BY <1>4 DEF MoveStep, LastStep, ForgetStep, PcInitStep, picture, toggles
<1>5. CASE ProfileStep \/ AudioStep \/ ActiveStep
  BY <1>5 DEF ProfileStep, AudioStep, ActiveStep, picture, toggles
<1>6. CASE OpenAcStep \/ WriteAcStep \/ OpenPcStep \/ WritePcStep
  BY <1>6 DEF OpenAcStep, WriteAcStep, OpenPcStep, WritePcStep, picture, toggles
<1>7. CASE IrInitStep \/ IrTeachStep
  BY <1>7 DEF IrInitStep, IrTeachStep, toggles
<1>8. CASE IrStep
  BY <1>2, <1>8 DEF IrStep
<1>9. CASE FlipStep
  BY <1>2, <1>9 DEF FlipStep
<1>10. CASE ToggleStep
  BY <1>2, <1>10 DEF ToggleStep, picture
<1>11. CASE ReadStep
  BY <1>2, <1>11 DEF ReadStep, picture
<1>12. CASE OpenStep
  BY <1>2, <1>12 DEF OpenStep, picture
<1>13. CASE WriteStep
  BY <1>2, <1>13 DEF WriteStep, picture
<1>14. QED
  BY <1>3, <1>4, <1>5, <1>6, <1>7, <1>8, <1>9, <1>10, <1>11, <1>12, <1>13 DEF Steps

\* What is disturbed stays so until a signal to the beamer; these are the steps
\* that disturb.
AtSignal == Current.op = "flip" \/ (Current.op = "ir" /\ Current.arg \in BeamerSeqs)

LEMMA DisturbedStays ==
    ASSUME Placed, Steps
    PROVE  /\ ~disturbed' => ~disturbed \/ AtSignal
           /\ Current.op = "toggle" /\ ~disturbed' => ok
           /\ Current.op = "flip" /\ ~disturbed' => loaded /\ FlipTo(toggle) \in taught
           /\ Current.op = "ir" /\ ~disturbed' /\ Arg \in BeamerSeqs =>
                 ~Bypasses /\ loaded /\ Arg \in taught
<1>1. pc = "run" /\ Head(todo) = Current
  BY Flow
<1>2. \A op : Running(op) => Current.op = op
  BY <1>1 DEF Running
<1>3. CASE IfOkStep \/ AgainStep \/ MoveStep \/ LastStep \/ ForgetStep \/ PcInitStep
  <2>1. disturbed' = disturbed
    BY <1>3 DEF IfOkStep, AgainStep, MoveStep, LastStep, ForgetStep, PcInitStep, toggles
  <2>2. Current.op \notin {"toggle", "flip", "ir"}
    BY <1>2, <1>3 DEF IfOkStep, AgainStep, MoveStep, LastStep, ForgetStep, PcInitStep
  <2>3. QED
    BY <2>1, <2>2
<1>4. CASE ProfileStep \/ AudioStep \/ ActiveStep \/ OpenAcStep \/ WriteAcStep \/ IrInitStep
  <2>1. disturbed' = disturbed
    BY <1>4 DEF ProfileStep, AudioStep, ActiveStep, OpenAcStep, WriteAcStep, IrInitStep, toggles
  <2>2. Current.op \notin {"toggle", "flip", "ir"}
    BY <1>2, <1>4 DEF ProfileStep, AudioStep, ActiveStep, OpenAcStep, WriteAcStep, IrInitStep
  <2>3. QED
    BY <2>1, <2>2
<1>5. CASE OpenPcStep \/ WritePcStep \/ IrTeachStep \/ ReadStep
  <2>1. disturbed' = disturbed
    BY <1>5 DEF OpenPcStep, WritePcStep, IrTeachStep, ReadStep, toggles
  <2>2. Current.op \notin {"toggle", "flip", "ir"}
    BY <1>2, <1>5 DEF OpenPcStep, WritePcStep, IrTeachStep, ReadStep
  <2>3. QED
    BY <2>1, <2>2
<1>6. CASE OpenStep \/ WriteStep
  <2>1. ~disturbed' => ~disturbed
    BY <1>6, Zenon DEF OpenStep, WriteStep, Disturb
  <2>2. Current.op \notin {"toggle", "flip", "ir"}
    BY <1>2, <1>6 DEF OpenStep, WriteStep
  <2>3. QED
    BY <2>1, <2>2
<1>7. CASE IrStep
  <2>1. Current.op = "ir"
    BY <1>2, <1>7 DEF IrStep
  <2>2. /\ Arg \in BeamerSeqs /\ ~disturbed' => ~Bypasses /\ loaded /\ Arg \in taught
        /\ Arg \notin BeamerSeqs => disturbed' = disturbed
    BY <1>7, Zenon DEF IrStep, Settle
  <2>3. QED
    BY <1>1, <2>1, <2>2 DEF AtSignal, Arg
<1>8. CASE FlipStep
  <2>1. Current.op = "flip"
    BY <1>2, <1>8 DEF FlipStep
  <2>2. ~disturbed' => loaded /\ FlipTo(toggle) \in taught
    BY <1>8, Zenon DEF FlipStep, Settle
  <2>3. QED
    BY <2>1, <2>2 DEF AtSignal
<1>9. CASE ToggleStep
  <2>1. Current.op = "toggle"
    BY <1>2, <1>9 DEF ToggleStep
  <2>2. ~disturbed' => ~disturbed /\ ok
    BY <1>9, Zenon DEF ToggleStep, Disturb
  <2>3. QED
    BY <2>1, <2>2
<1>10. QED
  BY <1>3, <1>4, <1>5, <1>6, <1>7, <1>8, <1>9 DEF Steps

\* While nothing disturbs it, the beamer shows what the state says: on the way
\* to the file the state of the process, otherwise that in CI_Dat.bin.
ToggleInv ==
    ~disturbed =>
       /\ AtStep({"flip", "open", "write"}) => toggle = ToggleOf(beamer)
       /\ AtStep({"toggle"}) /\ ok => Current.arg = ToggleOf(beamer)
       /\ AtStep({"ifOk"}) /\ command.name = "CI_BEAMER_TOGGLE" /\ ok => toggle = ToggleOf(beamer)
       /\ ~AtStep({"toggle", "open", "write"}) => ciFile = ToggleOf(beamer)

LEMMA FlipIs ==
    /\ \A t \in 0..2 : FlipTo(t) \in BeamerSeqs
    /\ \A b \in BeamerSeqs : /\ ToggleOf(b) \in 0..2 /\ ToggleOf(b) # Empty
                             /\ FlipTo(ToggleOf(b)) # b
BY DEF FlipTo, BeamerSeqs, ToggleOf, Empty

LEMMA FlipSends ==
    ASSUME Placed, Values, Steps, Current.op = "flip", ~disturbed'
    PROVE  beamer' = FlipTo(toggle) /\ toggle' = ToggleOf(FlipTo(toggle))
<1>1. FlipStep /\ loaded /\ FlipTo(toggle) \in taught
  BY StepIs, DisturbedStays
<1>2. FlipTo(toggle) \in BeamerSeqs
  BY FlipIs DEF Values
<1>3. QED
  BY <1>1, <1>2 DEF FlipStep, Send, Values

LEMMA IrSends ==
    ASSUME Placed, Values, Steps, Current.op = "ir", ~disturbed'
    PROVE  /\ Current.arg \in BeamerSeqs => beamer' = Current.arg /\ ~Bypasses
           /\ Current.arg \notin BeamerSeqs => beamer' = beamer
<1>1. IrStep /\ Arg = Current.arg
  BY StepIs, Flow DEF Arg
<1>2. Arg \in BeamerSeqs => ~Bypasses /\ loaded /\ Arg \in taught
  BY DisturbedStays
<1>3. QED
  BY <1>1, <1>2 DEF IrStep, Send, Values

LEMMA ToggleTrackedStep ==
    ASSUME Placed, Values, ToggleInv, Steps
    PROVE  ToggleInv'
<1> SUFFICES ASSUME ~disturbed'
             PROVE  /\ AtStep({"flip", "open", "write"})' => toggle' = ToggleOf(beamer')
                    /\ AtStep({"toggle"})' /\ ok' => Current'.arg = ToggleOf(beamer')
                    /\ AtStep({"ifOk"})' /\ command'.name = "CI_BEAMER_TOGGLE" /\ ok' =>
                          toggle' = ToggleOf(beamer')
                    /\ ~AtStep({"toggle", "open", "write"})' => ciFile' = ToggleOf(beamer')
  BY DEF ToggleInv
<1> DEFINE s == StepsOf(command)
<1>1. /\ Here \in 1..Len(s) /\ Len(s) \in Nat /\ Fits(s, Here) /\ Current = s[Here]
      /\ pc = "run" /\ pc' = "run" /\ command' = command /\ command \in Commands
  BY Flow, Located DEF Current, Placed
<1>2. ~AtSignal =>
      /\ AtStep({"flip", "open", "write"}) => toggle = ToggleOf(beamer)
      /\ AtStep({"toggle"}) /\ ok => Current.arg = ToggleOf(beamer)
      /\ AtStep({"ifOk"}) /\ command.name = "CI_BEAMER_TOGGLE" /\ ok => toggle = ToggleOf(beamer)
      /\ ~AtStep({"toggle", "open", "write"}) => ciFile = ToggleOf(beamer)
  BY DisturbedStays DEF ToggleInv
<1>3. \A ops : AtStep(ops) <=> Current.op \in ops
  BY <1>1 DEF AtStep
<1>4. /\ Current.op \in {"open", "write"} => toggle = ToggleOf(beamer)
      /\ Current.op = "toggle" /\ ok => Current.arg = ToggleOf(beamer)
      /\ Current.op = "ifOk" /\ command.name = "CI_BEAMER_TOGGLE" /\ ok =>
            toggle = ToggleOf(beamer)
      /\ Current.op \notin {"flip", "ir", "toggle", "open", "write"} => ciFile = ToggleOf(beamer)
      /\ Current.op = "ir" /\ Current.arg \notin BeamerSeqs => ciFile = ToggleOf(beamer)
  BY <1>2, <1>3 DEF AtSignal
<1>5. \A ops : AtStep(ops)' <=> Within1 /\ Next1 \in ops
  BY AfterStep
<1>6. Ordered(command.name, s)
  BY <1>1, OrderedSteps
<1>7. /\ Current.op \notin {"ir", "flip"} => beamer' = beamer
      /\ Current.op \notin {"toggle", "flip", "read"} => toggle' = toggle
      /\ Current.op \notin {"open", "write"} => ciFile' = ciFile
  BY BeamerStays
<1>8. Within1 => /\ Here' \in 1..Len(s) /\ Current' = s[Here'] /\ Current'.op = Next1
                 /\ Fits(s, Here')
  BY <1>1, Following, Located
<1>9. ASSUME Within1, Next1 = "flip" PROVE toggle' = ToggleOf(beamer')
  <2>1. Onward /\ Current.op = "ifOk"
    BY <1>9, Entered DEF Bound, Before
  <2>2. ok
    BY <2>1 DEF Onward
  <2>3. command.name = "CI_BEAMER_TOGGLE"
    BY <1>6, <1>8, <1>9 DEF Ordered, Next1
  <2>4. QED
    BY <1>4, <1>7, <2>1, <2>2, <2>3
<1>10. ASSUME Within1, Next1 = "open" PROVE toggle' = ToggleOf(beamer')
  <2>1. Current.op \in {"toggle", "flip"}
    BY <1>10, Entered DEF Bound, Before
  <2>2. CASE Current.op = "toggle"
    <3>1. ok /\ ToggleStep
      BY <2>2, DisturbedStays, StepIs
    <3>2. toggle' = Current.arg
      BY <3>1, Flow DEF ToggleStep, Arg
    <3>3. QED
      BY <1>4, <1>7, <2>2, <3>1, <3>2
  <2>3. CASE Current.op = "flip"
    BY <2>3, FlipSends
  <2>4. QED
    BY <2>1, <2>2, <2>3
<1>11. ASSUME Within1, Next1 = "write" PROVE toggle' = ToggleOf(beamer')
  <2>1. Current.op = "open"
    BY <1>11, Entered DEF Bound, Before
  <2>2. QED
    BY <1>4, <1>7, <2>1
<1>12. ASSUME Within1, Next1 = "toggle", ok' PROVE Current'.arg = ToggleOf(beamer')
  <2>1. Onward /\ Current.op = "ir"
    BY <1>12, Entered
  <2>2. Here' - 1 = Here
    BY <1>1, <2>1 DEF Onward
  <2>3. s[Here].arg \in BeamerSeqs /\ Current'.arg = ToggleOf(s[Here].arg)
    BY <1>8, <1>12, <2>2 DEF Fits
  <2>4. beamer' = s[Here].arg
    BY <1>1, <2>1, <2>3, IrSends
  <2>5. QED
    BY <2>3, <2>4
<1>13. ASSUME Within1, Next1 = "ifOk", command.name = "CI_BEAMER_TOGGLE", ok'
       PROVE  toggle' = ToggleOf(beamer')
  <2>1. Current.op = "read"
    BY <1>13, ToggleGuard
  <2>2. ReadStep
    BY <2>1, StepIs
  <2>3. toggle' = ReadToggle(ciFile)
    BY <1>13, <2>2 DEF ReadStep, Fails
  <2>4. ciFile = ToggleOf(beamer) /\ beamer' = beamer
    BY <1>4, <1>7, <2>1
  <2>5. ciFile # Empty
    BY <2>4, FlipIs DEF Values
  <2>6. QED
    BY <2>3, <2>4, <2>5 DEF ReadToggle
<1>14. ASSUME ~(Within1 /\ Next1 \in {"toggle", "open", "write"})
       PROVE  ciFile' = ToggleOf(beamer')
  <2>1. ASSUME Here' = Here + 1, Here < Len(s), s[Here+1].op \in {"toggle", "open", "write"}
        PROVE  FALSE
    BY <1>1, <1>14, <2>1 DEF Within1, Next1
  <2>2. Current.op \in {"ir", "toggle", "flip"} => Here' = Here + 1
    BY Following
  <2>3. CASE Current.op \in {"toggle", "flip"}
    <3>1. Here < Len(s) /\ s[Here+1].op = "open"
      BY <1>1, <2>3 DEF Fits, Leading, Sequel
    <3>2. QED
      BY <2>1, <2>2, <2>3, <3>1
  <2>4. CASE Current.op = "ir"
    <3>1. CASE Current.arg \in BeamerSeqs
      <4>1. command.name \notin {"CI_IR", "CItestSequence"}
        BY <2>4, <3>1, IrSends DEF Bypasses
      <4>2. Here < Len(s) /\ s[Here+1].op = "toggle"
        BY <1>1, <1>6, <2>4, <3>1, <4>1 DEF Ordered, SwitchRemembered
      <4>3. QED
        BY <2>1, <2>2, <2>4, <4>2
    <3>2. CASE Current.arg \notin BeamerSeqs
      BY <1>4, <1>7, <2>4, <3>2, IrSends
    <3>3. QED
      BY <3>1, <3>2
  <2>5. CASE Current.op = "open"
    <3>1. OpenStep
      BY <2>5, StepIs
    <3>2. Skip(1) \/ disturbed'
      BY <3>1, Zenon DEF OpenStep, Disturb
    <3>3. AtStep({Sequel("open")})'
      BY <2>5, <3>2, OpensToWrite
    <3>4. AtStep({"write"})'
      BY <3>3 DEF Sequel
    <3>5. QED
      BY <1>5, <1>14, <3>4
  <2>6. CASE Current.op = "write"
    <3>1. WriteStep
      BY <2>6, StepIs
    <3>2. ciFile' = toggle \/ disturbed'
      BY <3>1, Zenon DEF WriteStep, Disturb
    <3>3. QED
      BY <1>4, <1>7, <2>6, <3>2
  <2>7. CASE Current.op \notin {"ir", "toggle", "flip", "open", "write"}
    BY <1>4, <1>7, <2>7
  <2>8. QED
    BY <2>3, <2>4, <2>5, <2>6, <2>7
<1>15. AtStep({"flip", "open", "write"})' => toggle' = ToggleOf(beamer')
  BY <1>5, <1>9, <1>10, <1>11
<1>16. AtStep({"toggle"})' /\ ok' => Current'.arg = ToggleOf(beamer')
  BY <1>5, <1>12
<1>17. AtStep({"ifOk"})' /\ command'.name = "CI_BEAMER_TOGGLE" /\ ok' =>
          toggle' = ToggleOf(beamer')
  BY <1>1, <1>5, <1>13
<1>18. ~AtStep({"toggle", "open", "write"})' => ciFile' = ToggleOf(beamer')
  BY <1>5, <1>14
<1>19. QED
  BY <1>15, <1>16, <1>17, <1>18

LEMMA ToggleInvStep == TypeInv /\ ToggleInv /\ [Next]_vars => ToggleInv'
<1> SUFFICES ASSUME TypeInv, ToggleInv, [Next]_vars PROVE ToggleInv'
  OBVIOUS
<1>0. Placed /\ Values
  BY DEF TypeInv, DataTypes
<1>1. CASE Steps
  BY <1>0, <1>1, ToggleTrackedStep
<1>2. ASSUME NEW c \in Commands, Start(c) PROVE ToggleInv'
  <2>1. /\ pc = "idle" /\ Here' = 1 /\ pc' = "run" /\ command' = c
        /\ ciFile' = ciFile /\ disturbed' = disturbed /\ beamer' = beamer
    BY <1>2, StartsPlaced DEF Start, toggles, picture
  <2>2. ~disturbed => ciFile = ToggleOf(beamer)
    BY <2>1 DEF ToggleInv, AtStep
  <2>3. ~AtStep({"flip", "open", "write"})' /\ ~AtStep({"toggle"})'
    <3>1. StepsOf(c) # <<>> => StepsOf(c)[1].op \notin Bound
      BY WholeSteps DEF Whole
    <3>2. StepsOf(c) # <<>> \/ Len(StepsOf(c)) = 0
      OBVIOUS
    <3>3. QED
      BY <2>1, <3>1, <3>2 DEF AtStep, Current, Bound
  <2>4. ~(AtStep({"ifOk"})' /\ command'.name = "CI_BEAMER_TOGGLE")
    <3>1. c.name = "CI_BEAMER_TOGGLE" => StepsOf(c)[1].op # "ifOk"
      <4>1. c.name = "CI_BEAMER_TOGGLE" => StepsOf(c) =
               <<IrInit, Step("read", 0), IfOk(3), Step("flip", 0), Open, WriteIt>>
        BY OpsOfCommands
      <4>2. c.name = "CI_BEAMER_TOGGLE" => StepsOf(c)[1] = IrInit
        BY <4>1
      <4>3. QED
        BY <4>2 DEF IrInit, Step
    <3>2. QED
      BY <2>1, <3>1 DEF AtStep, Current
  <2>5. QED
    BY <2>1, <2>2, <2>3, <2>4 DEF ToggleInv
<1>3. CASE Return
  <2>1. /\ pc = "run" /\ todo = <<>> /\ pc' = "returned" /\ ciFile' = ciFile
        /\ disturbed' = disturbed /\ beamer' = beamer
    BY <1>3 DEF Return, toggles, picture
  <2>2. \A ops : ~AtStep(ops)
    BY <1>0, <2>1, Located DEF AtStep
  <2>3. \A ops : ~AtStep(ops)'
    BY <2>1 DEF AtStep
  <2>4. QED
    BY <2>1, <2>2, <2>3 DEF ToggleInv
<1>4. CASE Exit
  <2>1. /\ pc # "run" /\ pc' # "run" /\ ciFile' = ciFile /\ disturbed' = disturbed
        /\ beamer' = beamer
    BY <1>4 DEF Exit, Gone
  <2>2. QED
    BY <2>1 DEF ToggleInv, AtStep
<1>5. CASE Kill
  <2>1. disturbed'
    BY <1>5, Zenon DEF Kill, Disturb
  <2>2. QED
    BY <2>1 DEF ToggleInv
<1>6. CASE UNCHANGED vars
  BY <1>6 DEF vars, control, audio, picture, toggles, mount, ToggleInv, AtStep, Here, Done, Current
<1>7. QED
  BY <1>1, <1>2, <1>3, <1>4, <1>5, <1>6 DEF Next

LEMMA ToggleHolds == Spec => [](TypeInv /\ ToggleInv)
<1>1. Init => TypeInv /\ ToggleInv
  <2>1. Init => ToggleInv
    BY DEF Init, ToggleInv, AtStep
  <2>2. QED
    BY <2>1, TypeInvInit
<1>2. TypeInv /\ ToggleInv /\ [Next]_vars => (TypeInv /\ ToggleInv)'
  BY TypeInvStep, ToggleInvStep
<1>3. QED
  BY <1>1, <1>2, PTL DEF Spec

\* The saved toggle state is the input the beamer shows whenever no process
\* runs, through any number of commands and failures, until something disturbs
\* it: a signal that was not taught, a file that could not be opened or written,
\* a beamer switched past the state, a process killed; and again after the next
\* command that switches the beamer.
THEOREM ToggleTracked == Spec => []ToggleTracksBeamer
<1>1. TypeInv /\ ToggleInv => ToggleTracksBeamer
  BY DEF ToggleInv, AtStep, ToggleTracksBeamer
<1>2. QED
  BY <1>1, ToggleHolds, PTL

\* So CI_BEAMER_TOGGLE toggles: the beamer shows another input than before,
\* whatever process has written the state it reads.
THEOREM ToggleActs == Spec => ToggleToggles
<1>1. ASSUME TypeInv, ToggleInv, [Next]_vars, Running("flip"), ~disturbed, ~disturbed'
      PROVE  beamer' # beamer \/ UNCHANGED vars
  <2>1. pc = "run" /\ todo # <<>>
    BY <1>1 DEF Running
  <2>2. CASE Steps
    <3>1. Placed /\ Values
      BY <1>1 DEF TypeInv, DataTypes
    <3>2. Current.op = "flip" /\ Here <= Len(StepsOf(command))
      BY <1>1, <2>1, <3>1, Located DEF Running
    <3>3. toggle = ToggleOf(beamer)
      BY <1>1, <2>1, <3>2 DEF ToggleInv, AtStep
    <3>4. beamer' = FlipTo(toggle)
      BY <1>1, <2>2, <3>1, <3>2, FlipSends
    <3>5. QED
      BY <3>1, <3>3, <3>4, FlipIs DEF Values
  <2>3. ~(\E c \in Commands : Start(c)) /\ ~Return /\ ~Exit
    BY <2>1 DEF Start, Return, Exit
  <2>4. ~Kill
    BY <1>1, Zenon DEF Kill, Disturb
  <2>5. QED
    BY <1>1, <2>2, <2>3, <2>4 DEF Next
<1>2. TypeInv /\ ToggleInv /\ [Next]_vars =>
         [Running("flip") /\ ~disturbed /\ ~disturbed' => beamer' # beamer]_vars
  BY <1>1
<1>3. QED
  BY <1>2, ToggleHolds, PTL DEF Spec, ToggleToggles
-----------------------------------------------------------------------------
(* What the steps taken have called for                                    *)

\* A set of numbers up to n has a greatest one.
LEMMA Greatest ==
    ASSUME NEW n \in Nat, NEW K \in SUBSET (1..n), K # {}
    PROVE  \E k \in K : \A j \in K : j <= k
<1> DEFINE T == {i \in Nat : n - i \in K}
           R == OpToRel(<, Nat)
<1>1. T \subseteq Nat /\ T # {}
  <2>1. PICK k \in K : TRUE
    OBVIOUS
  <2>2. k \in 1..n
    BY <2>1
  <2>3. n - k \in Nat /\ n - (n - k) = k
    BY <2>2
  <2>4. n - k \in T
    BY <2>1, <2>3
  <2>5. QED
    BY <2>4
<1>2. IsWellFoundedOn(R, Nat)
  BY NatLessThanWellFounded
<1>3. \A x, y \in Nat : y < x => <<y, x>> \in R
  BY DEF OpToRel
<1>4. \A i \in Nat : i \in T <=> n - i \in K
  OBVIOUS
<1> HIDE DEF R, T
<1>5. \E x \in T : \A y \in T : ~(<<y, x>> \in R)
  BY <1>1, <1>2, WFMin
<1>6. PICK x \in T : \A y \in T : ~(<<y, x>> \in R)
  BY <1>5
<1>7. x \in Nat /\ n - x \in K
  BY <1>1, <1>4, <1>6
<1>8. ASSUME NEW j \in K PROVE j <= n - x
  <2>1. j \in 1..n /\ n - j \in Nat /\ n - (n - j) = j
    <3>1. j \in 1..n
      BY <1>8
    <3>2. QED
      BY <3>1
  <2>2. n - j \in T
    BY <1>4, <1>8, <2>1
  <2>3. ~(n - j < x)
    BY <1>3, <1>6, <1>7, <2>1, <2>2
  <2>4. QED
    BY <1>7, <2>1, <2>3
<1>9. QED
  BY <1>7, <1>8

\* Of the first n steps of s, the last one in S has the argument v, or an excused
\* one.
Agrees(s, n, S, v, X) ==
    \A k \in 1..n : s[k] \in S /\ (\A j \in 1..n : s[j] \in S => j <= k) =>
                       s[k].arg = v \/ s[k].arg \in X

LEMMA AgreesNone ==
    ASSUME NEW s, NEW n \in Nat, NEW S, NEW v, NEW X, \A k \in 1..n : s[k] \notin S
    PROVE  Agrees(s, n, S, v, X)
BY DEF Agrees

LEMMA AgreesNext ==
    ASSUME NEW s, NEW n \in Nat, NEW S, NEW v, NEW w, NEW X,
           s[n+1] \in S => w = s[n+1].arg \/ s[n+1].arg \in X,
           s[n+1] \notin S => w = v /\ Agrees(s, n, S, v, X)
    PROVE  Agrees(s, n + 1, S, w, X)
<1> SUFFICES ASSUME NEW k \in 1..(n+1), s[k] \in S,
                    \A j \in 1..(n+1) : s[j] \in S => j <= k
             PROVE  s[k].arg = w \/ s[k].arg \in X
  BY DEF Agrees
<1>1. CASE s[n+1] \in S
  BY <1>1
<1>2. CASE s[n+1] \notin S
  <2>1. k \in 1..n /\ \A j \in 1..n : s[j] \in S => j <= k
    BY <1>2
  <2>2. QED
    BY <1>2, <2>1 DEF Agrees
<1>3. QED
  BY <1>1, <1>2

\* The devices show what was called for last while the result is success, but not
\* by the part of a signal; the tests of the mount drop their errors at their end.
Sets == {s \in StepSet : s.op = "profile"}
Selects(S) == {s \in StepSet : s.op = "ir" /\ s.arg \in S}
Trusted == pc # "idle" /\ ok
              /\ ~(command.name = "CI_POS_TEST" /\ Done = Len(StepsOf(command)))
AgreeInv ==
    Trusted =>
       /\ Agrees(StepsOf(command), Done, Sets, mixer, {})
       /\ Agrees(StepsOf(command), Done, Sets, active, {})
       /\ Agrees(StepsOf(command), Done, Selects(HdmiSeqs), hdmi, parts)
       /\ Agrees(StepsOf(command), Done, Selects(BeamerSeqs), beamer, parts)

\* Which steps set the devices.
LEMMA DevicesStay ==
    ASSUME Placed, Steps
    PROVE  /\ Current.op \notin {"profile", "audio"} => mixer' = mixer
           /\ Current.op \notin {"profile", "active"} => active' = active
           /\ Current.op \notin {"ir", "flip"} => hdmi' = hdmi
           /\ Current.op # "irTeach" => parts' = parts
<1>1. pc = "run" /\ Head(todo) = Current
  BY Flow
<1>2. \A op : Running(op) => Current.op = op
  BY <1>1 DEF Running
<1>3. CASE IfOkStep \/ AgainStep
  BY <1>3 DEF IfOkStep, AgainStep, picture, audio
<1>4. CASE MoveStep \/ LastStep \/ ForgetStep \/ PcInitStep
  BY <1>4 DEF MoveStep, LastStep, ForgetStep, PcInitStep, picture, audio
<1>5. CASE ProfileStep \/ AudioStep \/ ActiveStep
  BY <1>2, <1>5 DEF ProfileStep, AudioStep, ActiveStep, picture
<1>6. CASE OpenAcStep \/ WriteAcStep \/ OpenPcStep \/ WritePcStep
  BY <1>6 DEF OpenAcStep, WriteAcStep, OpenPcStep, WritePcStep, picture, audio
<1>7. CASE IrInitStep \/ IrTeachStep
  BY <1>2, <1>7 DEF IrInitStep, IrTeachStep, audio
<1>8. CASE IrStep
  BY <1>2, <1>8 DEF IrStep, audio
<1>9. CASE FlipStep
  BY <1>2, <1>9 DEF FlipStep, audio
<1>10. CASE ToggleStep \/ ReadStep
  BY <1>10 DEF ToggleStep, ReadStep, picture, audio
<1>11. CASE OpenStep \/ WriteStep
  BY <1>11 DEF OpenStep, WriteStep, picture, audio
<1>12. QED
  BY <1>3, <1>4, <1>5, <1>6, <1>7, <1>8, <1>9, <1>10, <1>11 DEF Steps

\* A step that succeeds sets what it is for, or has sent a part of a signal.
Shown(seq) ==
    \/ /\ hdmi' = IF seq \in HdmiSeqs THEN seq ELSE hdmi
       /\ beamer' = IF seq \in BeamerSeqs THEN seq ELSE beamer
    \/ seq \in parts /\ UNCHANGED <<hdmi, beamer>>

LEMMA Succeeds ==
    ASSUME Placed, Steps, ok'
    PROVE  /\ Current.op = "profile" => mixer' = Current.arg /\ active' = Current.arg
           /\ Current.op = "ir" => Shown(Current.arg)
<1>1. Arg = Current.arg
  BY Flow DEF Arg
<1>2. ASSUME Current.op = "profile" PROVE mixer' = Current.arg /\ active' = Current.arg
  <2>1. ProfileStep
    BY <1>2, StepIs
  <2>2. QED
    BY <1>1, <2>1 DEF ProfileStep, Fails
<1>3. ASSUME Current.op = "ir"
      PROVE  Shown(Current.arg)
  <2>1. IrStep
    BY <1>3, StepIs
  <2>2. QED
    BY <1>1, <2>1 DEF IrStep, Send, Fails, Shown
<1>4. QED
  BY <1>2, <1>3

LEMMA DoneIs ==
    ASSUME Placed, pc = "run"
    PROVE  Done = Here - 1 /\ Done \in Nat /\ Done + 1 = Here
<1>1. /\ Here \in 1..(Len(StepsOf(command)) + 1) /\ Len(StepsOf(command)) \in Nat
      /\ StepsOf(command) \in Seq(StepSet)
      /\ todo = SubSeq(StepsOf(command), Here, Len(StepsOf(command)))
  BY Located DEF Placed
<1>2. Len(todo) \in Nat
  BY <1>1, Suffix, LenProperties
<1>3. QED
  BY <1>1, <1>2 DEF Here, Done

LEMMA DoneNext ==
    ASSUME Placed, Steps
    PROVE  Done' = Here' - 1 /\ Done' \in Nat
<1> DEFINE s == StepsOf(command)
<1>1. /\ s \in Seq(StepSet) /\ Len(s) \in Nat /\ pc' = "run" /\ command' = command /\ Placed'
  BY Flow, Located
<1>2. Here' \in 1..(Len(s) + 1) /\ todo' = SubSeq(s, Here', Len(s))
  BY <1>1 DEF Placed
<1>3. Len(todo') \in Nat
  BY <1>1, <1>2, Suffix, LenProperties
<1>4. Done' = Len(s) - Len(todo') /\ Here' = Done' + 1
  BY <1>1 DEF Done, Here
<1>5. QED
  BY <1>1, <1>2, <1>3, <1>4

\* Before a loop nothing is called for, or the camera of the mount; the loop ends
\* with the picture of that.
LEMMA LoopedBack ==
    ASSUME Placed, Steps, Loops, NEW s, s = StepsOf(command)
    PROVE  /\ Done' \in Nat
           /\ \A k \in 1..Done' : s[k] \notin Sets /\ s[k] \notin Selects(BeamerSeqs)
           /\ Agrees(s, Done, Selects(HdmiSeqs), hdmi, parts) =>
                 Agrees(s, Done', Selects(HdmiSeqs), hdmi, parts)
<1>1. /\ Here \in 1..Len(s) /\ Len(s) \in Nat /\ s \in Seq(StepSet) /\ Fits(s, Here)
      /\ Current = s[Here] /\ command \in Commands /\ command' = command /\ pc = "run"
  BY Flow, Located DEF Current, Placed
<1>2. Current.op \in {"again", "within"} /\ Here' = Here - Current.arg
  BY DEF Loops
<1>3. Done' = Here' - 1 /\ Done = Here - 1 /\ Done \in Nat
  BY <1>1, DoneIs, DoneNext
<1>4. LoopsBack(command.name, s, Here)
  BY <1>1, OrderedSteps DEF Ordered
<1>5. CASE Current.op = "again"
  <2>1. Done' = 1 /\ s[1].op = "irInit"
    BY <1>1, <1>2, <1>3, <1>4, <1>5 DEF LoopsBack
  <2>2. \A k \in 1..Done' : s[k].op = "irInit"
    BY <2>1
  <2>3. \A k \in 1..Done' : s[k] \notin Sets /\ \A S : s[k] \notin Selects(S)
    BY <2>2 DEF Sets, Selects
  <2>4. Done' \in Nat
    BY <2>1
  <2>5. QED
    BY <2>3, <2>4, AgreesNone
<1>6. CASE Current.op = "within"
  <2> DEFINE t == Drive(command)
             d == GuardAt(command)
             i == Here - d
  <2>1. command.name \in Mounted
    BY <1>1, <1>4, <1>6 DEF LoopsBack
  <2>2. Prepares(s, t, d) /\ Drives(t)
    BY <1>1, <2>1, MountSteps
  <2> HIDE DEF t
  <2>3. Here > d /\ i \in 1..Len(t) /\ Current = t[i] /\ d \in {3, 5} /\ Len(t) \in Nat
    <3>1. /\ d \in {3, 5} /\ Len(t) \in Nat
          /\ Here < d - 1 => s[Here].op \in {"irInit", "ifOk", "ir"}
          /\ Here = d - 1 => s[Here].op = "pcInit"
          /\ Here = d => s[Here].op = "ifOk"
          /\ Here > d => Here - d \in 1..Len(t) /\ s[Here] = t[Here-d]
      BY <1>1, <2>1, MountOps DEF t
    <3> HIDE DEF d
    <3>2. Here < d - 1 \/ Here = d - 1 \/ Here = d \/ Here > d
      BY <1>1, <3>1
    <3>3. Here > d
      BY <1>1, <1>6, <3>1, <3>2
    <3>4. QED
      BY <1>1, <3>1, <3>3 DEF i
  <2> HIDE DEF d
  <2>4. i > 1 /\ i - Current.arg = 1
    <3>1. t[i].op = "within"
      BY <1>6, <2>3
    <3>2. i > 1 /\ i - t[i].arg = 1
      BY <2>2, <2>3, <3>1 DEF Drives
    <3>3. QED
      BY <2>3, <3>2
  <2>5. Current.arg \in Int
    <3>1. Current.arg \in 1..(Here - 1)
      BY <1>1, <1>6 DEF Fits
    <3>2. QED
      BY <3>1
  <2>6. Done' = d
    BY <1>1, <1>2, <1>3, <2>3, <2>4, <2>5
  <2>7. \A k \in 1..d : s[k].op \in {"irInit", "ifOk", "ir", "pcInit"}
                        /\ (s[k].op = "ir" => k = 3 /\ d = 5 /\ s[k] = Ir(2))
    <3>1. ASSUME NEW k \in 1..d
          PROVE  /\ s[k].op \in {"irInit", "ifOk", "ir", "pcInit"}
                 /\ s[k].op = "ir" => k = 3 /\ d = 5 /\ s[k] = Ir(2)
      <4>1. k \in 1..Len(s)
        BY <1>1, <2>3, <3>1
      <4>2. /\ k < d - 1 => s[k].op \in {"irInit", "ifOk", "ir"}
            /\ k < d - 1 /\ s[k].op = "ir" => k = 3 /\ s[k] = Ir(2)
            /\ k = d - 1 => s[k].op = "pcInit"
            /\ k = d => s[k].op = "ifOk"
        BY <1>1, <2>1, <4>1, MountOps DEF d
      <4>3. k < d - 1 \/ k = d - 1 \/ k = d
        BY <2>3, <3>1
      <4>4. s[k].op = "ir" => k < d - 1
        BY <4>2, <4>3
      <4>5. QED
        BY <2>3, <4>2, <4>3, <4>4
    <3>2. QED
      BY <3>1
  <2>8. Ir(2).op = "ir" /\ Ir(2).arg = 2 /\ 2 \in HdmiSeqs /\ 2 \notin BeamerSeqs
    BY DEF Ir, Step, HdmiSeqs, BeamerSeqs
  <2>9. \A k \in 1..Done' : s[k] \notin Sets /\ s[k] \notin Selects(BeamerSeqs)
    BY <2>6, <2>7, <2>8 DEF Sets, Selects
  <2>10. ASSUME Agrees(s, Done, Selects(HdmiSeqs), hdmi, parts), d = 5
         PROVE  hdmi = 2 \/ 2 \in parts
    <3>1. s[3] = Ir(2) /\ \A j \in 1..Len(t) : s[5 + j] = t[j]
      BY <2>2, <2>10 DEF Prepares
    <3>2. \A k \in 1..Len(s) : s[k] \in Selects(HdmiSeqs) => s[k].op = "ir"
      BY DEF Selects
    <3>3. Ir(2) \in Selects(HdmiSeqs)
      <4>1. Ir(2) \in StepSet
        BY StepTypes, PlainSteps
      <4>2. QED
        BY <2>8, <4>1 DEF Selects
    <3>4. CASE t[i-1] = Ir(2)
      <4>1. i - 1 \in 1..Len(t) /\ 5 + (i - 1) = Done
        BY <1>1, <1>3, <2>3, <2>4, <2>10 DEF i
      <4>2. s[Done] = Ir(2) /\ Done \in 1..Done
        BY <1>3, <2>4, <3>1, <3>4, <4>1
      <4>3. \A j \in 1..Done : j <= Done
        BY <1>3
      <4>4. QED
        BY <2>8, <2>10, <3>3, <4>2, <4>3 DEF Agrees
    <3>5. CASE i = 3 /\ t[1].op = "move" /\ t[2].op = "ifOk"
      <4>1. Done = 7 /\ 1 \in 1..Len(t) /\ 2 \in 1..Len(t)
        BY <1>1, <1>3, <2>3, <2>10, <3>5 DEF i
      <4>2. s[5+1] = t[1] /\ s[5+2] = t[2]
        BY <3>1, <4>1
      <4>3. s[6].op = "move" /\ s[7].op = "ifOk"
        BY <3>5, <4>2
      <4>4. \A j \in 1..Done : s[j].op = "ir" => j <= 3
        <5>1. \A j \in 1..Done : j \in 1..5 \/ j = 6 \/ j = 7
          BY <4>1
        <5>2. \A j \in 1..5 : s[j].op = "ir" => j = 3
          BY <2>7, <2>10
        <5>3. QED
          BY <4>3, <5>1, <5>2
      <4>5. \A j \in 1..Done : j \in 1..Len(s)
        BY <1>1, <1>3
      <4>6. 3 \in 1..Done /\ \A j \in 1..Done : s[j] \in Selects(HdmiSeqs) => j <= 3
        BY <3>2, <4>1, <4>4, <4>5
      <4>7. QED
        BY <2>8, <2>10, <3>1, <3>3, <4>6 DEF Agrees
    <3>6. t[i-1] = Ir(2) \/ (i = 3 /\ t[1].op = "move" /\ t[2].op = "ifOk")
      <4>1. t[i].op = "within"
        BY <1>6, <2>3
      <4>2. QED
        BY <2>2, <2>3, <4>1 DEF Drives
    <3>7. QED
      BY <3>4, <3>5, <3>6
  <2>11. ASSUME Agrees(s, Done, Selects(HdmiSeqs), hdmi, parts)
         PROVE  Agrees(s, Done', Selects(HdmiSeqs), hdmi, parts)
    <3>1. \A k \in 1..Done' : s[k] \in Selects(HdmiSeqs) => d = 5 /\ s[k].arg = 2
      BY <2>6, <2>7, <2>8 DEF Selects
    <3>2. QED
      BY <2>10, <2>11, <3>1 DEF Agrees
  <2>12. Done' \in Nat
    BY <2>3, <2>6
  <2>13. QED
    BY <2>9, <2>11, <2>12
<1>7. QED
  BY <1>2, <1>5, <1>6

LEMMA AgreeOnward ==
    ASSUME Placed, AgreeInv, Steps, Trusted', Onward
    PROVE  AgreeInv'
<1> DEFINE s == StepsOf(command)
           n == command.name
<1>1. /\ Here \in 1..Len(s) /\ Len(s) \in Nat /\ s \in Seq(StepSet) /\ Current = s[Here]
      /\ command \in Commands /\ command' = command /\ pc = "run" /\ pc' = "run" /\ Placed'
      /\ s[Here] \in StepSet
  BY Flow, Located DEF Current, Placed
<1>2. /\ Done = Here - 1 /\ Done \in Nat /\ Done' = Here /\ Done + 1 = Here
      /\ Here' = Here + 1
  <2>1. Done = Here - 1 /\ Done \in Nat /\ Done + 1 = Here
    BY <1>1, DoneIs
  <2>2. Done' = Here' - 1 /\ Done' \in Nat
    BY DoneNext
  <2>3. Here' = Here + 1
    BY DEF Onward
  <2>4. QED
    BY <1>1, <2>1, <2>2, <2>3
<1>3. ok' /\ ~(n = "CI_POS_TEST" /\ Here = Len(s))
  BY <1>1, <1>2 DEF Trusted
<1>4. FreshFirst(n, s, Here)
  BY <1>1, OrderedSteps DEF Ordered
<1> SUFFICES /\ Agrees(s, Done + 1, Sets, mixer', {})
             /\ Agrees(s, Done + 1, Sets, active', {})
             /\ Agrees(s, Done + 1, Selects(HdmiSeqs), hdmi', parts')
             /\ Agrees(s, Done + 1, Selects(BeamerSeqs), beamer', parts')
  BY <1>1, <1>2 DEF AgreeInv
<1>5. /\ Current \in Sets <=> Current.op = "profile"
      /\ \A S : Current \in Selects(S) <=> Current.op = "ir" /\ Current.arg \in S
  BY <1>1 DEF Sets, Selects
<1>6. CASE Current.op \in Fresh
  <2>1. \A j \in 1..(Here-1) : s[j].op \notin {"profile", "ir"}
    BY <1>1, <1>3, <1>4, <1>6 DEF FreshFirst
  <2>2. Current.op \notin {"profile", "ir"}
    BY <1>6 DEF Fresh
  <2> HIDE DEF s, n
  <2>3. \A k \in 1..(Done + 1) : s[k].op \notin {"profile", "ir"}
    BY <1>1, <1>2, <2>1, <2>2
  <2>4. \A k \in 1..(Done + 1) : s[k] \notin Sets /\ \A S : s[k] \notin Selects(S)
    BY <2>3 DEF Sets, Selects
  <2>5. Done + 1 \in Nat
    BY <1>2
  <2>6. QED
    BY <2>4, <2>5, AgreesNone
<1>7. CASE Current.op \notin Fresh
  <2>1. Trusted
    <3>1. ok
      BY <1>3, <1>7, OkStays DEF Fresh
    <3>2. Done # Len(s)
      BY <1>1, <1>2
    <3>3. QED
      BY <1>1, <3>1, <3>2 DEF Trusted
  <2>2. /\ Agrees(s, Done, Sets, mixer, {}) /\ Agrees(s, Done, Sets, active, {})
        /\ Agrees(s, Done, Selects(HdmiSeqs), hdmi, parts)
        /\ Agrees(s, Done, Selects(BeamerSeqs), beamer, parts)
    BY <2>1 DEF AgreeInv
  <2>3. /\ Current \in Sets => mixer' = Current.arg /\ active' = Current.arg
        /\ Current \notin Sets => mixer' = mixer /\ active' = active
    BY <1>3, <1>5, <1>7, Succeeds, DevicesStay DEF Fresh
  <2>4. /\ Current \in Selects(HdmiSeqs) => hdmi' = Current.arg \/ Current.arg \in parts
        /\ Current \notin Selects(HdmiSeqs) => hdmi' = hdmi
    BY <1>3, <1>5, <1>7, Succeeds, DevicesStay DEF Fresh, Shown
  <2>5. /\ Current \in Selects(BeamerSeqs) => beamer' = Current.arg \/ Current.arg \in parts
        /\ Current \notin Selects(BeamerSeqs) => beamer' = beamer
    BY <1>3, <1>5, <1>7, Succeeds, BeamerStays DEF Fresh, Shown
  <2>6. s[Done + 1] = Current /\ parts' = parts
    BY <1>1, <1>2, <1>7, DevicesStay DEF Fresh
  <2> HIDE DEF s, n
  <2>7. Agrees(s, Done + 1, Sets, mixer', {})
    BY <1>2, <2>2, <2>3, <2>6, AgreesNext
  <2>8. Agrees(s, Done + 1, Sets, active', {})
    BY <1>2, <2>2, <2>3, <2>6, AgreesNext
  <2>9. Agrees(s, Done + 1, Selects(HdmiSeqs), hdmi', parts')
    BY <1>2, <2>2, <2>4, <2>6, AgreesNext
  <2>10. Agrees(s, Done + 1, Selects(BeamerSeqs), beamer', parts')
    BY <1>2, <2>2, <2>5, <2>6, AgreesNext
  <2>11. QED
    BY <2>7, <2>8, <2>9, <2>10
<1>8. QED
  BY <1>6, <1>7

LEMMA AgreeStep == Placed /\ AgreeInv /\ Steps => AgreeInv'
<1> SUFFICES ASSUME Placed, AgreeInv, Steps, Trusted' PROVE AgreeInv'
  BY DEF AgreeInv
<1>1. Onward \/ Jumps \/ Unopened \/ Loops
  BY Flow
<1>2. ~Jumps /\ ~Unopened
  BY DEF Trusted, Jumps, Unopened
<1>3. CASE Loops
  <2> DEFINE s == StepsOf(command)
  <2>1. /\ command' = command /\ pc = "run" /\ Here \in 1..Len(s) /\ Len(s) \in Nat
    BY Flow, Located
  <2>2. Current.op \in {"again", "within"}
    BY <1>3 DEF Loops
  <2>3. /\ mixer' = mixer /\ active' = active /\ hdmi' = hdmi /\ beamer' = beamer
        /\ parts' = parts
    BY <2>2, DevicesStay, BeamerStays
  <2>4. Trusted
    <3>1. ok
      BY <2>2, OkStays DEF Trusted
    <3>2. Done # Len(s)
      BY <2>1, DoneIs
    <3>3. QED
      BY <2>1, <3>1, <3>2 DEF Trusted
  <2>5. Agrees(s, Done, Selects(HdmiSeqs), hdmi, parts)
    BY <2>4 DEF AgreeInv
  <2>6. /\ Done' \in Nat
        /\ \A k \in 1..Done' : s[k] \notin Sets /\ s[k] \notin Selects(BeamerSeqs)
        /\ Agrees(s, Done', Selects(HdmiSeqs), hdmi, parts)
    BY <1>3, <2>5, LoopedBack
  <2> HIDE DEF s
  <2>7. /\ Agrees(s, Done', Sets, mixer, {}) /\ Agrees(s, Done', Sets, active, {})
        /\ Agrees(s, Done', Selects(BeamerSeqs), beamer, parts)
    BY <2>6, AgreesNone
  <2>8. QED
    BY <2>1, <2>3, <2>6, <2>7 DEF AgreeInv, s
<1>4. QED
  BY <1>1, <1>2, <1>3, AgreeOnward

\* A teach that ends with success has saved its profile as the active one.
TeachInv ==
    pc # "idle" /\ command.name = "CI_AUDIO_TEACH" /\ Done = Len(StepsOf(command)) /\ ok =>
       acFile.active = command.arg \/ "profiles" \in lost

LEMMA TeachStep == Placed /\ AgreeInv /\ Steps => TeachInv'
<1> SUFFICES ASSUME Placed, AgreeInv, Steps, command'.name = "CI_AUDIO_TEACH",
                    (Done = Len(StepsOf(command)))', ok'
             PROVE  (acFile.active = command.arg)' \/ "profiles" \in lost'
  BY DEF TeachInv
<1> DEFINE s == StepsOf(command)
<1>1. /\ Here \in 1..Len(s) /\ s \in Seq(StepSet) /\ Current = s[Here]
      /\ command \in Commands /\ command' = command /\ pc = "run"
      /\ Onward \/ Jumps \/ Unopened \/ Loops
  BY Flow, Located DEF Current, Placed
<1>2. /\ command.arg \in Int /\ Len(s) = 7
      /\ s[1] = OpenAc /\ s[2] = WriteAc /\ s[3] = IfOk(4) /\ s[4] = Profile(command.arg)
      /\ s[5] = IfOk(2) /\ s[6] = OpenAc /\ s[7] = WriteAc
  BY <1>1, TeachIs
<1>3. /\ Done' = 7 /\ Done' = Here' - 1 /\ Done = Here - 1 /\ Done \in Nat
  BY <1>1, <1>2, DoneIs, DoneNext
<1>4. /\ OpenAc.op = "openAc" /\ WriteAc.op = "writeAc" /\ IfOk(4).op = "ifOk"
      /\ IfOk(2).op = "ifOk"
      /\ Profile(command.arg).op = "profile" /\ Profile(command.arg).arg = command.arg
  BY DEF OpenAc, WriteAc, IfOk, Profile, Step
<1> HIDE DEF s
<1>5. \A k \in 1..7 : s[k].op \in {"openAc", "writeAc", "ifOk", "profile"}
                      /\ (s[k].op = "profile" => k = 4)
  <2>1. \A k \in 1..7 : k = 1 \/ k = 2 \/ k = 3 \/ k = 4 \/ k = 5 \/ k = 6 \/ k = 7
    OBVIOUS
  <2>2. QED
    BY <1>2, <1>4, <2>1
<1>6. Onward
  <2>1. Current.op \in {"openAc", "writeAc", "ifOk", "profile"}
    BY <1>1, <1>2, <1>5
  <2>2. QED
    BY <1>1, <2>1 DEF Jumps, Unopened, Loops
<1>7. Here = 7 /\ Current.op = "writeAc" /\ Done = 6
  BY <1>1, <1>2, <1>3, <1>4, <1>6 DEF Onward
<1>8. active = command.arg
  <2>1. Trusted
    <3>1. ok
      BY <1>7, OkStays
    <3>2. QED
      BY <1>1, <1>2, <1>7, <3>1 DEF Trusted, s
  <2>2. Agrees(s, 6, Sets, active, {})
    BY <1>7, <2>1 DEF AgreeInv, s
  <2>3. s[4] \in Sets /\ \A j \in 1..6 : s[j] \in Sets => j <= 4
    <3>1. Profile(command.arg) \in StepSet
      BY <1>2 DEF Profile, Step, StepSet, Ops
    <3>2. \A j \in 1..6 : j \in 1..7
      OBVIOUS
    <3>3. QED
      BY <1>2, <1>4, <1>5, <3>1, <3>2 DEF Sets
  <2>4. s[4].arg = active
    BY <2>2, <2>3 DEF Agrees
  <2>5. QED
    BY <1>2, <1>4, <2>4
<1>9. WriteAcStep
  BY <1>7, StepIs
<1>10. CASE acFile' = [active |-> active, stored |-> stored]
  BY <1>1, <1>8, <1>10
<1>11. CASE Lose("profiles", TRUE)
  BY <1>11 DEF Lose
<1>12. QED
  BY <1>9, <1>10, <1>11 DEF WriteAcStep

LEMMA AgreeInvStep == TypeInv /\ AgreeInv /\ TeachInv /\ [Next]_vars => (AgreeInv /\ TeachInv)'
<1> SUFFICES ASSUME TypeInv, AgreeInv, TeachInv, [Next]_vars PROVE AgreeInv' /\ TeachInv'
  OBVIOUS
<1>0. Placed
  BY DEF TypeInv
<1>1. CASE Steps
  BY <1>0, <1>1, AgreeStep, TeachStep
<1>2. ASSUME NEW c \in Commands, Start(c) PROVE AgreeInv' /\ TeachInv'
  <2> DEFINE s == StepsOf(c)
  <2>1. command' = c /\ todo' = s
    BY <1>2 DEF Start
  <2>2. s \in Seq(StepSet) /\ Len(s) \in Nat
    BY WholeSteps, LenProperties DEF Whole, Fitting
  <2>3. Done' = 0
    <3>1. Done' = Len(s) - Len(s)
      BY <2>1 DEF Done
    <3> HIDE DEF s
    <3>2. QED
      BY <2>2, <3>1
  <2>4. \A S, v, X : Agrees(s, 0, S, v, X)
    BY DEF Agrees
  <2>5. c.name = "CI_AUDIO_TEACH" => Len(s) = 7
    BY TeachIs
  <2> HIDE DEF s
  <2>6. AgreeInv'
    BY <2>1, <2>3, <2>4 DEF AgreeInv, s
  <2>7. TeachInv'
    BY <2>1, <2>3, <2>5 DEF TeachInv, s
  <2>8. QED
    BY <2>6, <2>7
<1>3. CASE Return
  <2>1. /\ pc = "run" /\ pc' = "returned" /\ command' = command /\ todo' = todo /\ ok' = ok
        /\ mixer' = mixer /\ active' = active /\ hdmi' = hdmi /\ beamer' = beamer
        /\ parts' = parts /\ acFile' = acFile /\ lost' = lost
    BY <1>3 DEF Return, audio, picture
  <2>2. Done' = Done /\ (Trusted' => Trusted)
    BY <2>1 DEF Done, Trusted
  <2>3. AgreeInv'
    BY <2>1, <2>2 DEF AgreeInv
  <2>4. TeachInv'
    BY <2>1, <2>2 DEF TeachInv
  <2>5. QED
    BY <2>3, <2>4
<1>4. CASE Exit \/ Kill
  <2>1. pc' = "idle"
    BY <1>4 DEF Exit, Kill, Gone
  <2>2. QED
    BY <2>1 DEF AgreeInv, Trusted, TeachInv
<1>5. CASE UNCHANGED vars
  <2>1. /\ pc' = pc /\ command' = command /\ todo' = todo /\ ok' = ok
        /\ mixer' = mixer /\ active' = active /\ hdmi' = hdmi /\ beamer' = beamer
        /\ parts' = parts /\ acFile' = acFile /\ lost' = lost
    BY <1>5 DEF vars, control, audio, picture
  <2>2. Done' = Done /\ (Trusted' => Trusted)
    BY <2>1 DEF Done, Trusted
  <2>3. AgreeInv'
    BY <2>1, <2>2 DEF AgreeInv
  <2>4. TeachInv'
    BY <2>1, <2>2 DEF TeachInv
  <2>5. QED
    BY <2>3, <2>4
<1>6. QED
  BY <1>1, <1>2, <1>3, <1>4, <1>5 DEF Next

LEMMA AgreeHolds == Spec => [](TypeInv /\ KeptInv /\ AgreeInv /\ TeachInv)
<1>1. Init => TypeInv /\ KeptInv /\ AgreeInv /\ TeachInv
  <2>1. Init => AgreeInv /\ TeachInv
    BY DEF Init, AgreeInv, Trusted, TeachInv
  <2>2. QED
    BY <2>1, TypeInvInit, KeptInit
<1>2. TypeInv /\ KeptInv /\ AgreeInv /\ TeachInv /\ [Next]_vars =>
         (TypeInv /\ KeptInv /\ AgreeInv /\ TeachInv)'
  BY TypeInvStep, KeptStep, AgreeInvStep
<1>3. QED
  BY <1>1, <1>2, PTL DEF Spec

LEMMA AgreesSome ==
    ASSUME NEW s, NEW n \in Nat, NEW S, NEW v, Agrees(s, n, S, v, {}),
           NEW i \in 1..n, s[i] \in S
    PROVE  \E k \in 1..n : s[k] \in S /\ s[k].arg = v
<1> DEFINE K == {k \in 1..n : s[k] \in S}
<1>1. K \in SUBSET (1..n) /\ K # {}
  OBVIOUS
<1>2. \A k \in 1..n : k \in K <=> s[k] \in S
  OBVIOUS
<1> HIDE DEF K
<1>3. PICK k \in K : \A j \in K : j <= k
  BY <1>1, Greatest
<1>4. QED
  BY <1>1, <1>2, <1>3 DEF Agrees

\* The argument of LastDone is the one the devices agree with.
LEMMA LastDoneIs ==
    ASSUME NEW op, NEW S, NEW v, NEW X, Done \in Nat, Agrees(StepsOf(command), Done, S, v, X),
           \A k \in 1..Done : StepsOf(command)[k].op = op <=> StepsOf(command)[k] \in S
    PROVE  \A x \in LastDone(op) : v = x \/ x \in X
<1> DEFINE s == StepsOf(command)
           n == Done
           K == {k \in 1..n : s[k].op = op}
           m == CHOOSE k \in K : \A j \in K : j <= k
<1> SUFFICES ASSUME NEW x \in LastDone(op) PROVE v = x \/ x \in X
  OBVIOUS
<1>1. LastDone(op) = IF K = {} THEN {} ELSE {s[m].arg}
  BY DEF LastDone
<1>2. K \in SUBSET (1..n)
  OBVIOUS
<1>3. \A k : k \in K <=> k \in 1..n /\ s[k] \in S
  OBVIOUS
<1> HIDE DEF s, n, K
<1>4. K # {} => m \in K /\ \A j \in K : j <= m
  BY <1>2, Greatest DEF n
<1> HIDE DEF m
<1>5. K # {} /\ x = s[m].arg
  BY <1>1
<1>6. s[m] \in S /\ m \in 1..n /\ \A j \in 1..n : s[j] \in S => j <= m
  BY <1>3, <1>4, <1>5
<1>7. Agrees(s, n, S, v, X)
  BY DEF s, n
<1>8. QED
  BY <1>5, <1>6, <1>7 DEF Agrees

\* The one profile of a command, if it is not a test of the mount.
LEMMA ProfileIs ==
    ASSUME NEW c \in Commands, c.name # "CI_POS_TEST",
           NEW k \in 1..Len(StepsOf(c)), StepsOf(c)[k].op = "profile"
    PROVE  ProfileOf(c) = StepsOf(c)[k].arg
<1> DEFINE s == StepsOf(c)
           m == CHOOSE j \in 1..Len(s) : s[j].op = "profile"
<1>1. OneProfile(c.name, s)
  BY OrderedSteps DEF Ordered
<1>2. m \in 1..Len(s) /\ s[m].op = "profile"
  <2> HIDE DEF s
  <2>1. \E j \in 1..Len(s) : s[j].op = "profile"
    BY DEF s
  <2>2. QED
    BY <2>1
<1>3. ProfileOf(c) = s[m].arg
  BY DEF ProfileOf
<1> HIDE DEF m, s
<1>4. s[m].arg = s[k].arg
  BY <1>1, <1>2 DEF OneProfile, s
<1>5. QED
  BY <1>3, <1>4 DEF s

\* Where a move or a signal stands under its guard, all before it has succeeded.
LEMMA GuardedOk ==
    ASSUME Placed, GuardInv, pc = "run", todo # <<>>, Current.op # "ifOk",
           Here > 1, StepsOf(command)[Here-1].op = "ifOk"
    PROVE  Trusted /\ Done \in Nat
<1>1. Here <= Len(StepsOf(command)) /\ Len(StepsOf(command)) \in Nat
      /\ Done = Here - 1 /\ Done \in Nat /\ Done + 1 = Here
  BY Located, DoneIs
<1>2. ok
  BY <1>1 DEF GuardInv
<1>3. Done # Len(StepsOf(command))
  BY <1>1
<1>4. QED
  BY <1>1, <1>2, <1>3 DEF Trusted

LEMMA MovePrepared ==
    ASSUME TypeInv, KeptInv, AgreeInv, Running("move")
    PROVE  /\ \A seq \in LastDone("ir") : hdmi = seq \/ seq \in parts
           /\ \A p \in LastDone("profile") : mixer = p
           /\ table \/ "positions" \in lost
<1> DEFINE s == StepsOf(command)
           d == GuardAt(command)
<1>1. /\ pc = "run" /\ todo # <<>> /\ Current.op = "move" /\ Placed /\ command \in Commands
      /\ Here \in 1..Len(s) /\ Len(s) \in Nat /\ Current = s[Here] /\ Fits(s, Here)
      /\ \A k \in 1..Len(s) : s[k] \in StepSet
  BY Located DEF TypeInv, Running, Current, Placed
<1>2. command.name \in Mounted /\ Here > d
  BY <1>1, MountOnly
<1>3. d \in {3, 5}
  BY DEF GuardAt
<1> HIDE DEF d
<1>4. Here > 1
  BY <1>1, <1>2, <1>3
<1>5. s[Here-1].op = "ifOk"
  BY <1>1, <1>4 DEF Fits, Bound, Before
<1>6. Trusted /\ Done \in Nat /\ Done = Here - 1
  BY <1>1, <1>4, <1>5, GuardedOk, DoneIs DEF KeptInv
<1>7. Agrees(s, Done, Sets, mixer, {}) /\ Agrees(s, Done, Selects(HdmiSeqs), hdmi, parts)
  BY <1>6 DEF AgreeInv
<1>8. \A k \in 1..Done : k \in 1..Len(s)
  BY <1>1, <1>6
<1>9. ASSUME NEW k \in 1..Len(s), s[k].op = "ir" PROVE s[k].arg \in HdmiSeqs
  <2> DEFINE t == Drive(command)
  <2>1. Drives(t)
    BY <1>1, <1>2, MountSteps
  <2>2. /\ k < d - 1 /\ s[k].op = "ir" => k = 3 /\ s[k] = Ir(2)
        /\ k = d - 1 => s[k].op = "pcInit"
        /\ k = d => s[k].op = "ifOk"
        /\ k > d => k - d \in 1..Len(t) /\ s[k] = t[k-d]
    BY <1>1, <1>2, MountOps DEF d
  <2> HIDE DEF t, s
  <2>3. k < d - 1 \/ k > d
    BY <1>3, <1>9, <2>2
  <2>4. CASE k < d - 1
    <3>1. s[k] = Ir(2)
      BY <1>9, <2>2, <2>4
    <3>2. Ir(2).arg \in HdmiSeqs
      BY DEF Ir, Step, HdmiSeqs
    <3>3. QED
      BY <3>1, <3>2
  <2>5. CASE k > d
    BY <1>9, <2>1, <2>2, <2>5 DEF Drives
  <2>6. QED
    BY <2>3, <2>4, <2>5
<1>10. ASSUME NEW seq \in LastDone("ir") PROVE hdmi = seq \/ seq \in parts
  <2>1. \A k \in 1..Done : s[k].op = "ir" <=> s[k] \in Selects(HdmiSeqs)
    BY <1>1, <1>8, <1>9 DEF Selects
  <2>2. QED
    BY <1>6, <1>7, <1>10, <2>1, LastDoneIs
<1>11. ASSUME NEW p \in LastDone("profile") PROVE mixer = p
  <2>1. \A k \in 1..Done : s[k].op = "profile" <=> s[k] \in Sets
    BY <1>1, <1>8 DEF Sets
  <2>2. QED
    BY <1>6, <1>7, <1>11, <2>1, LastDoneIs
<1>12. table \/ "positions" \in lost
  <2>1. ok
    BY <1>6 DEF Trusted
  <2>2. Here >= d /\ Here <= Len(s)
    BY <1>1, <1>2, <1>3
  <2>3. Prepared
    BY <1>1, <1>2, <2>2 DEF Prepared, d
  <2>4. QED
    BY <2>1, <2>3 DEF KeptInv, TableInv, TaughtTable
<1>13. QED
  BY <1>10, <1>11, <1>12

\* The mount is driven only when all is prepared: the picture is the one asked
\* for during the move, the sound is verified, and the positions are the taught
\* ones, unless they had been lost.
THEOREM MountIsPrepared == Spec => []MovesPrepared
<1>1. TypeInv /\ KeptInv /\ AgreeInv => MovesPrepared
  BY MovePrepared DEF MovesPrepared
<1>2. QED
  BY <1>1, AgreeHolds, PTL

LEMMA PictureFollows ==
    ASSUME TypeInv, KeptInv, AgreeInv, [Next]_vars, hdmi' \notin {hdmi, Unknown}
    PROVE  IF command.name = "CI_POS_TEST"
           THEN \A p \in LastDone("profile") : mixer = p
           ELSE SetsProfile(command) => mixer = ProfileOf(command)
<1> DEFINE s == StepsOf(command)
<1>0. Placed
  BY DEF TypeInv
<1>1. Steps
  BY DEF Next, Start, Return, Exit, Kill, Gone, vars, picture
<1>2. /\ Here \in 1..Len(s) /\ Len(s) \in Nat /\ Current = s[Here] /\ command \in Commands
      /\ pc = "run" /\ todo # <<>> /\ \A k \in 1..Len(s) : s[k] \in StepSet
  BY <1>0, <1>1, Flow, Located DEF Current, Placed
<1>3. Current.op = "ir"
  <2>1. Current.op \in {"ir", "flip"}
    BY <1>0, <1>1, DevicesStay
  <2>2. ASSUME Current.op = "flip" PROVE FALSE
    <3>1. FlipStep
      BY <1>0, <1>1, <2>2, StepIs
    <3>2. FlipTo(toggle) \notin HdmiSeqs
      BY DEF FlipTo, HdmiSeqs
    <3>3. QED
      BY <3>1, <3>2 DEF FlipStep, Send
  <2>3. QED
    BY <2>1, <2>2
<1>4. SignalGuarded(command.name, s, Here)
  BY <1>2, OrderedSteps DEF Ordered
<1>5. Done = Here - 1 /\ Done \in Nat /\ \A k \in 1..Done : k \in 1..Len(s)
  BY <1>0, <1>2, DoneIs
<1>6. \A k \in 1..Done : s[k].op = "profile" <=> s[k] \in Sets
  BY <1>2, <1>5 DEF Sets
<1>7. CASE \A j \in 1..Len(s) : s[j].op # "profile"
  <2>1. LastDone("profile") = {}
    BY <1>5, <1>7 DEF LastDone
  <2>2. ~SetsProfile(command)
    BY <1>7 DEF SetsProfile
  <2>3. QED
    BY <2>1, <2>2
<1>8. CASE \E j \in 1..Len(s) : s[j].op = "profile"
  <2>1. /\ Here > 1 /\ s[Here-1].op = "ifOk"
        /\ command.name = "CI_POS_TEST" \/ \E j \in 1..(Here-1) : s[j].op = "profile"
    BY <1>2, <1>3, <1>4, <1>8 DEF SignalGuarded
  <2>2. Trusted
    BY <1>0, <1>2, <1>3, <2>1, GuardedOk DEF KeptInv
  <2>3. Agrees(s, Done, Sets, mixer, {})
    BY <2>2 DEF AgreeInv
  <2>4. CASE command.name = "CI_POS_TEST"
    BY <1>5, <1>6, <2>3, <2>4, LastDoneIs
  <2>5. CASE command.name # "CI_POS_TEST"
    <3>1. PICK j \in 1..Done : s[j] \in Sets
      BY <1>5, <1>6, <2>1, <2>5
    <3> HIDE DEF s
    <3>2. PICK k \in 1..Done : s[k] \in Sets /\ s[k].arg = mixer
      BY <1>5, <2>3, <3>1, AgreesSome
    <3>3. k \in 1..Len(s) /\ s[k].op = "profile"
      BY <1>5, <3>2 DEF Sets
    <3>4. ProfileOf(command) = s[k].arg
      BY <1>2, <2>5, <3>3, ProfileIs DEF s
    <3>5. QED
      BY <2>5, <3>2, <3>4
  <2>6. QED
    BY <2>4, <2>5
<1>9. QED
  BY <1>7, <1>8

\* The picture follows the sound: the HDMI switch is switched only while the
\* mixer verifiably has the profile of the command, in PC_Test the last one
\* called for.
THEOREM SoundComesFirst == Spec => PictureAfterSound
<1>1. TypeInv /\ KeptInv /\ AgreeInv /\ [Next]_vars =>
         [hdmi' \notin {hdmi, Unknown} =>
             IF command.name = "CI_POS_TEST"
             THEN \A p \in LastDone("profile") : mixer = p
             ELSE SetsProfile(command) => mixer = ProfileOf(command)]_vars
  BY PictureFollows
<1>2. QED
  BY <1>1, AgreeHolds, PTL DEF Spec, PictureAfterSound

\* The same for LastOf, when all steps are done.
LEMMA LastOfIs ==
    ASSUME NEW S, NEW v, Len(StepsOf(command)) \in Nat,
           \A k \in 1..Len(StepsOf(command)) : StepsOf(command)[k] \in StepSet,
           Agrees(StepsOf(command), Len(StepsOf(command)), Selects(S), v, parts)
    PROVE  \A x \in LastOf(command, S) : v = x \/ x \in parts
<1> DEFINE s == StepsOf(command)
           n == Len(s)
           K == {k \in 1..n : s[k].op = "ir" /\ s[k].arg \in S}
           m == CHOOSE k \in K : \A j \in K : j <= k
<1> SUFFICES ASSUME NEW x \in LastOf(command, S) PROVE v = x \/ x \in parts
  OBVIOUS
<1>1. LastOf(command, S) = IF K = {} THEN {} ELSE {s[m].arg}
  BY DEF LastOf
<1>2. K \in SUBSET (1..n)
  OBVIOUS
<1>3. \A k : k \in K <=> k \in 1..n /\ s[k] \in Selects(S)
  BY DEF Selects
<1>4. n \in Nat /\ Agrees(s, n, Selects(S), v, parts)
  OBVIOUS
<1> HIDE DEF s, n, K
<1>5. K # {} => m \in K /\ \A j \in K : j <= m
  BY <1>2, <1>4, Greatest
<1> HIDE DEF m
<1>6. K # {} /\ x = s[m].arg
  BY <1>1
<1>7. s[m] \in Selects(S) /\ m \in 1..n /\ \A j \in 1..n : s[j] \in Selects(S) => j <= m
  BY <1>3, <1>5, <1>6
<1>8. QED
  BY <1>4, <1>6, <1>7 DEF Agrees

LEMMA CompleteAtEnd ==
    ASSUME TypeInv, AgreeInv, TeachInv, pc = "returned", ok, command.name # "CI_POS_TEST"
    PROVE  /\ SetsProfile(command) => mixer = ProfileOf(command) /\ active = ProfileOf(command)
           /\ command.name = "CI_AUDIO_TEACH" /\ "profiles" \notin lost =>
                 acFile.active = command.arg
           /\ \A seq \in LastOf(command, HdmiSeqs) : hdmi = seq \/ seq \in parts
           /\ \A seq \in LastOf(command, BeamerSeqs) : beamer = seq \/ seq \in parts
<1> DEFINE s == StepsOf(command)
<1>1. todo = <<>> /\ command \in Commands
  BY DEF TypeInv, Placed
<1>2. s \in Seq(StepSet) /\ Len(s) \in Nat /\ \A k \in 1..Len(s) : s[k] \in StepSet
  BY <1>1, WholeSteps, LenProperties, ElementOfSeq DEF Whole, Fitting
<1>3. Done = Len(s)
  <2>1. Done = Len(s) - 0
    BY <1>1 DEF Done
  <2> HIDE DEF s
  <2>2. QED
    BY <1>2, <2>1
<1>4. Trusted
  BY DEF Trusted
<1>5. /\ Agrees(s, Len(s), Sets, mixer, {}) /\ Agrees(s, Len(s), Sets, active, {})
      /\ Agrees(s, Len(s), Selects(HdmiSeqs), hdmi, parts)
      /\ Agrees(s, Len(s), Selects(BeamerSeqs), beamer, parts)
  BY <1>3, <1>4 DEF AgreeInv
<1>6. ASSUME SetsProfile(command)
      PROVE  mixer = ProfileOf(command) /\ active = ProfileOf(command)
  <2>1. PICK j \in 1..Len(s) : s[j].op = "profile"
    BY <1>6 DEF SetsProfile
  <2>2. s[j] \in Sets
    BY <1>2, <2>1 DEF Sets
  <2>3. \A k \in 1..Len(s) : s[k] \in Sets => ProfileOf(command) = s[k].arg
    BY <1>1, ProfileIs DEF Sets
  <2> HIDE DEF s
  <2>4. Agrees(s, Len(s), Sets, mixer, {})
    BY <1>5
  <2>5. Agrees(s, Len(s), Sets, active, {})
    BY <1>5
  <2>6. PICK k \in 1..Len(s) : s[k] \in Sets /\ s[k].arg = mixer
    BY <1>2, <2>2, <2>4, AgreesSome
  <2>7. PICK i \in 1..Len(s) : s[i] \in Sets /\ s[i].arg = active
    BY <1>2, <2>2, <2>5, AgreesSome
  <2>8. QED
    BY <2>3, <2>6, <2>7
<1>7. command.name = "CI_AUDIO_TEACH" /\ "profiles" \notin lost => acFile.active = command.arg
  BY <1>3 DEF TeachInv
<1>8. \A seq \in LastOf(command, HdmiSeqs) : hdmi = seq \/ seq \in parts
  BY <1>2, <1>5, LastOfIs
<1>9. \A seq \in LastOf(command, BeamerSeqs) : beamer = seq \/ seq \in parts
  BY <1>2, <1>5, LastOfIs
<1>10. QED
  BY <1>6, <1>7, <1>8, <1>9

\* A command that returns success has done all it is for: the profile is verified
\* and is the active one, and saved as that by a teach; each device it signals
\* shows what the last signal to it selects.
THEOREM SuccessMeansAll == Spec => []SuccessIsComplete
<1>1. TypeInv /\ AgreeInv /\ TeachInv => SuccessIsComplete
  BY CompleteAtEnd DEF SuccessIsComplete
<1>2. QED
  BY <1>1, AgreeHolds, PTL
=============================================================================
