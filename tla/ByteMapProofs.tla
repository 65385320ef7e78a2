--------------------------- MODULE ByteMapProofs ---------------------------
(***************************************************************************)
(* What the operators of ByteMap compute, for every table and every range: *)
(* which byte of the source volume a byte of the virtual disk is read      *)
(* from.  The operators loop over data; the induction each loop needs is   *)
(* done on a set of natural numbers.                                       *)
(***************************************************************************)
EXTENDS ByteMap, FiniteSetTheorems, WellFoundedInduction, TLAPS

---------------------------------------------------------------------------
(***************************************************************************)
(* Numbers and sets of numbers.                                            *)
(***************************************************************************)
\* A non-empty set of natural numbers has a least element.
LEMMA LeastNatural ==
  ASSUME NEW S \in SUBSET Nat, S # {}
  PROVE  \E x \in S : \A y \in S : x <= y
<1> DEFINE R == OpToRel(<, Nat)
<1>1. \A x, y \in Nat : y < x => <<y, x>> \in R
  BY DEF OpToRel
<1>2. IsWellFoundedOn(R, Nat)
  BY NatLessThanWellFounded
<1> HIDE DEF R
<1>3. \E x \in S : \A y \in S : ~(<<y, x>> \in R)
  <2>1. S \subseteq Nat
    OBVIOUS
  <2> QED BY <1>2, <2>1, WFMin
<1>4. PICK x \in S : \A y \in S : ~(<<y, x>> \in R)
  BY <1>3
<1>5. ASSUME NEW y \in S PROVE x <= y
  <2>1. x \in Nat /\ y \in Nat
    OBVIOUS
  <2>2. ~(y < x)
    BY <1>1, <1>4, <2>1
  <2> QED BY <2>1, <2>2
<1> QED BY <1>4, <1>5

\* Induction on the natural numbers, for a property given as a set.
LEMMA SetInduction ==
  ASSUME NEW S, 0 \in S, \A n \in Nat : n \in S => n + 1 \in S
  PROVE  Nat \subseteq S
<1> SUFFICES ASSUME Nat \ S # {} PROVE FALSE
  OBVIOUS
<1>1. PICK x \in Nat \ S : \A y \in Nat \ S : x <= y
  BY LeastNatural
<1>2. x # 0 /\ x - 1 \in Nat
  BY <1>1
<1>3. x - 1 \in S
  BY <1>1, <1>2
<1> QED BY <1>1, <1>2, <1>3

\* A set of naturals has its Min.
LEMMA MinOfNaturals ==
  ASSUME NEW S \in SUBSET Nat, S # {}
  PROVE  Min(S) \in S /\ \A y \in S : Min(S) <= y
  BY LeastNatural DEF Min

\* A bounded set of naturals has its Max.
LEMMA MaxOfNaturals ==
  ASSUME NEW S \in SUBSET Nat, S # {}, NEW n \in Nat, \A x \in S : x <= n
  PROVE  Max(S) \in S /\ \A y \in S : Max(S) >= y
<1> DEFINE T == {n - x : x \in S}
<1>1. T \in SUBSET Nat /\ T # {}
  <2>1. \A x \in S : n - x \in Nat
    OBVIOUS
  <2> QED BY <2>1
<1>2. PICK t \in T : \A u \in T : t <= u
  BY <1>1, LeastNatural
<1>3. PICK x \in S : t = n - x
  BY <1>2
<1>4. ASSUME NEW y \in S PROVE x >= y
  <2>1. t <= n - y
    BY <1>2
  <2> QED BY <1>3, <2>1
<1> QED BY <1>3, <1>4 DEF Max

\* Least is the smaller of two numbers, min() in the code.
LEMMA LeastOfTwo ==
  ASSUME NEW a \in Int, NEW b \in Int
  PROVE  Least(a, b) = IF a <= b THEN a ELSE b
<1>1. CASE a <= b
  BY <1>1 DEF Least, Min
<1>2. CASE ~(a <= b)
  BY <1>2 DEF Least, Min
<1> QED BY <1>1, <1>2

\* Max of a pair is the larger of two numbers, max() in the code.
LEMMA LargestOfTwo ==
  ASSUME NEW a \in Int, NEW b \in Int
  PROVE  Max({a, b}) = IF a >= b THEN a ELSE b
<1>1. CASE a >= b
  BY <1>1 DEF Max
<1>2. CASE ~(a >= b)
  BY <1>2 DEF Max
<1> QED BY <1>1, <1>2

\* f holds the values of a loop that starts with base.
IsLoop(f, n, base, step) ==
  f[1] = base /\ \A i \in 2 .. n : f[i] = step[i][f[i - 1]]

\* A value built up step by step: the function a loop defines exists.
LEMMA LoopExists ==
  ASSUME NEW V, NEW n \in Nat, n > 0, NEW base \in V, NEW step \in [1 .. n -> [V -> V]]
  PROVE  \E f \in [1 .. n -> V] : IsLoop(f, n, base, step)
<1> DEFINE Loop(m) == \E f \in [1 .. m -> V] : IsLoop(f, m, base, step)
           S == {m \in Nat : m + 1 <= n => Loop(m + 1)}
<1>1. 0 \in S
  <2> DEFINE g == [i \in 1 .. 1 |-> base]
  <2>1. g \in [1 .. 1 -> V]
    OBVIOUS
  <2>2. g[1] = base /\ \A i \in 2 .. 1 : g[i] = step[i][g[i - 1]]
    OBVIOUS
  <2>3. IsLoop(g, 1, base, step)
    BY <2>2 DEF IsLoop
  <2> HIDE DEF g
  <2>4. Loop(1)
    BY <2>1, <2>3
  <2> QED BY <2>4
<1>2. ASSUME NEW m \in Nat, m \in S PROVE m + 1 \in S
  <2> SUFFICES ASSUME m + 2 <= n PROVE Loop(m + 2)
    OBVIOUS
  <2>1. PICK f \in [1 .. m + 1 -> V] : IsLoop(f, m + 1, base, step)
    BY <1>2
  <2> DEFINE g == [i \in 1 .. m + 2 |-> IF i = m + 2 THEN step[i][f[i - 1]] ELSE f[i]]
  <2>2. step[m + 2] \in [V -> V] /\ f[m + 1] \in V
    BY <2>1
  <2>3. g \in [1 .. m + 2 -> V]
    BY <2>2
  <2>4. g[1] = base
    BY <2>1 DEF IsLoop
  <2>5. ASSUME NEW i \in 2 .. m + 2 PROVE g[i] = step[i][g[i - 1]]
    <3>1. g[i - 1] = f[i - 1]
      OBVIOUS
    <3>2. CASE i = m + 2
      BY <3>1, <3>2
    <3>3. CASE i # m + 2
      BY <2>1, <3>1, <3>3 DEF IsLoop
    <3> QED BY <3>2, <3>3
  <2> HIDE DEF g
  <2>6. IsLoop(g, m + 2, base, step)
    BY <2>4, <2>5 DEF IsLoop
  <2> QED BY <2>3, <2>6
<1> HIDE DEF S
<1>3. Nat \subseteq S
  BY <1>1, <1>2, SetInduction
<1>4. n - 1 \in Nat /\ n - 1 \in S
  BY <1>3
<1>5. Loop(n)
  BY <1>4 DEF S
<1> QED BY <1>5

---------------------------------------------------------------------------
(***************************************************************************)
(* Sequences.                                                              *)
(***************************************************************************)
LEMMA ToSetConcat ==
  ASSUME NEW S, NEW s \in Seq(S), NEW t \in Seq(S)
  PROVE  ToSet(s \o t) = ToSet(s) \cup ToSet(t)
<1>1. ASSUME NEW i \in DOMAIN s PROVE s[i] \in ToSet(s \o t)
  <2>1. i \in DOMAIN (s \o t) /\ (s \o t)[i] = s[i]
    OBVIOUS
  <2> QED BY <2>1 DEF ToSet
<1>2. ASSUME NEW i \in DOMAIN t PROVE t[i] \in ToSet(s \o t)
  <2>1. Len(s) + i \in DOMAIN (s \o t) /\ (s \o t)[Len(s) + i] = t[i]
    OBVIOUS
  <2> QED BY <2>1 DEF ToSet
<1>3. ASSUME NEW i \in DOMAIN (s \o t) PROVE (s \o t)[i] \in ToSet(s) \cup ToSet(t)
  <2>1. CASE i <= Len(s)
    BY <2>1 DEF ToSet
  <2>2. CASE i > Len(s)
    <3>1. i - Len(s) \in DOMAIN t /\ (s \o t)[i] = t[i - Len(s)]
      BY <2>2
    <3> QED BY <3>1 DEF ToSet
  <2> QED BY <2>1, <2>2
<1> QED BY <1>1, <1>2, <1>3 DEF ToSet

\* The concatenations of the first sequences of seqs.
IsFlat(g, seqs) ==
  g = [i \in 1 .. Len(seqs) |-> IF i = 1 THEN seqs[i] ELSE g[i - 1] \o seqs[i]]

\* The recursive function inside FlattenSeq exists.
LEMMA Concatenations ==
  ASSUME NEW S, NEW n \in Nat, n > 0, NEW seqs \in [1 .. n -> Seq(S)], Len(seqs) = n
  PROVE  \E g : IsFlat(g, seqs)
<1> DEFINE step == [i \in 1 .. n |-> [x \in Seq(S) |-> x \o seqs[i]]]
<1>1. ASSUME NEW i \in 1 .. n PROVE [x \in Seq(S) |-> x \o seqs[i]] \in [Seq(S) -> Seq(S)]
  <2>1. seqs[i] \in Seq(S)
    OBVIOUS
  <2> QED BY <2>1
<1>2. step \in [1 .. n -> [Seq(S) -> Seq(S)]]
  BY <1>1
<1>3. \A i \in 1 .. n : \A x \in Seq(S) : step[i][x] = x \o seqs[i]
  OBVIOUS
<1>4. seqs[1] \in Seq(S)
  OBVIOUS
<1> HIDE DEF step
<1>5. PICK g \in [1 .. n -> Seq(S)] : IsLoop(g, n, seqs[1], step)
  BY <1>2, <1>4, LoopExists
<1>6. ASSUME NEW i \in 1 .. n
      PROVE  g[i] = IF i = 1 THEN seqs[i] ELSE g[i - 1] \o seqs[i]
  <2>1. CASE i = 1
    BY <1>5, <2>1 DEF IsLoop
  <2>2. CASE i # 1
    <3>1. i \in 2 .. n /\ i - 1 \in 1 .. n
      BY <2>2
    <3>2. g[i] = step[i][g[i - 1]] /\ g[i - 1] \in Seq(S)
      BY <1>5, <3>1 DEF IsLoop
    <3> QED BY <1>3, <2>2, <3>2
  <2> QED BY <2>1, <2>2
<1>7. IsFlat(g, seqs)
  BY <1>6 DEF IsFlat
<1> QED BY <1>7

\* The elements of a sequence with one put in front.
LEMMA Prepended ==
  ASSUME NEW S, NEW x \in S, NEW s \in Seq(S)
  PROVE  <<x>> \o s \in Seq(S) /\ ToSet(<<x>> \o s) = {x} \cup ToSet(s)
<1> DEFINE t == <<x>>
<1>1. t \in Seq(S) /\ ToSet(t) = {x}
  BY DEF ToSet
<1> HIDE DEF t
<1>2. t \o s \in Seq(S) /\ ToSet(t \o s) = ToSet(t) \cup ToSet(s)
  BY <1>1, ToSetConcat
<1> QED BY <1>1, <1>2 DEF t

\* FlattenSeq puts one sequence after the other.
LEMMA FlatSteps ==
  ASSUME NEW S, NEW n \in Nat, n > 0, NEW seqs \in [1 .. n -> Seq(S)], Len(seqs) = n
  PROVE  \E flat : /\ FlattenSeq(seqs) = flat[n] /\ flat[1] = seqs[1]
                   /\ \A i \in 1 .. n : i # 1 => flat[i] = flat[i - 1] \o seqs[i]
<1> DEFINE flat == CHOOSE g : IsFlat(g, seqs)
<1>1. IsFlat(flat, seqs)
  <2>1. \E g : IsFlat(g, seqs)
    BY Concatenations
  <2> QED BY <2>1
<1>2. FlattenSeq(seqs) = flat[n]
  <2>1. Len(seqs) # 0 /\ n = Len(seqs)
    OBVIOUS
  <2> QED BY <2>1, Zenon DEF FlattenSeq, IsFlat
<1> HIDE DEF flat
<1>3. \A i \in 1 .. n : flat[i] = IF i = 1 THEN seqs[i] ELSE flat[i - 1] \o seqs[i]
  BY <1>1, Zenon DEF IsFlat
<1>4. 1 \in 1 .. n
  OBVIOUS
<1>5. flat[1] = seqs[1]
  BY <1>3, <1>4
<1>6. \A i \in 1 .. n : i # 1 => flat[i] = flat[i - 1] \o seqs[i]
  BY <1>3
<1> QED BY <1>2, <1>5, <1>6

\* FlattenSeq yields the elements of the sequences it is given and no other.
LEMMA Flattened ==
  ASSUME NEW S, NEW seqs \in Seq(Seq(S))
  PROVE  /\ FlattenSeq(seqs) \in Seq(S)
         /\ ToSet(FlattenSeq(seqs)) = UNION {ToSet(seqs[i]) : i \in DOMAIN seqs}
<1>1. CASE seqs = <<>>
  <2>1. FlattenSeq(seqs) = <<>>
    BY <1>1 DEF FlattenSeq
  <2>2. \A T : <<>> \in Seq(T) /\ ToSet(<<>>) = {}
    BY DEF ToSet
  <2>3. {ToSet(seqs[i]) : i \in DOMAIN seqs} = {}
    BY <1>1
  <2> QED BY <2>1, <2>2, <2>3
<1>2. CASE seqs # <<>>
  <2>1. PICK n \in Nat : n > 0 /\ n = Len(seqs) /\ DOMAIN seqs = 1 .. n
                          /\ seqs \in [1 .. n -> Seq(S)]
    BY <1>2
  <2>3. PICK flat : /\ FlattenSeq(seqs) = flat[n] /\ flat[1] = seqs[1]
                    /\ \A i \in 1 .. n : i # 1 => flat[i] = flat[i - 1] \o seqs[i]
    <3>1. Len(seqs) = n
      BY <2>1
    <3> QED BY <2>1, <3>1, FlatSteps, Zenon
  <2>5. /\ flat[1] = seqs[1]
        /\ \A i \in 1 .. n : i # 1 => flat[i] = flat[i - 1] \o seqs[i]
    BY <2>3
  <2> DEFINE Parts(m) == UNION {ToSet(seqs[i]) : i \in 1 .. m}
             Good(m) == flat[m] \in Seq(S) /\ ToSet(flat[m]) = Parts(m)
             Done == {m \in Nat : m + 1 <= n => Good(m + 1)}
  <2>6. Good(1)
    <3>1. 1 .. 1 = {1}
      OBVIOUS
    <3> QED BY <2>1, <2>5, <3>1
  <2>7. ASSUME NEW m \in Nat, m > 0, m + 1 <= n, Good(m) PROVE Good(m + 1)
    <3>1. m + 1 \in 1 .. n /\ m + 1 # 1 /\ (m + 1) - 1 = m
      <4> HIDE DEF Good
      <4> QED BY <2>7
    <3>2. flat[m + 1] = flat[m] \o seqs[m + 1]
      BY <2>5, <3>1
    <3>3. seqs[m + 1] \in Seq(S)
      BY <2>1, <3>1
    <3>4. ToSet(flat[m + 1]) = Parts(m) \cup ToSet(seqs[m + 1])
      BY <2>7, <3>2, <3>3, ToSetConcat
    <3>5. 1 .. m + 1 = (1 .. m) \cup {m + 1}
      BY <2>7
    <3>6. Parts(m + 1) = Parts(m) \cup ToSet(seqs[m + 1])
      BY <3>5
    <3>7. flat[m + 1] \in Seq(S)
      BY <2>7, <3>2, <3>3
    <3> QED BY <3>4, <3>6, <3>7
  <2> HIDE DEF Good
  <2>8. 0 \in Done
    BY <2>6
  <2>9. ASSUME NEW m \in Nat, m \in Done PROVE m + 1 \in Done
    <3> SUFFICES ASSUME (m + 1) + 1 <= n PROVE Good((m + 1) + 1)
      OBVIOUS
    <3>1. m + 1 \in Nat /\ m + 1 > 0 /\ m + 1 <= n
      BY <2>1
    <3>2. Good(m + 1)
      BY <2>9, <3>1
    <3> QED BY <2>7, <3>1, <3>2
  <2>10. Nat \subseteq Done
    <3> HIDE DEF Done
    <3> QED BY <2>8, <2>9, SetInduction
  <2>11. n - 1 \in Nat /\ (n - 1) + 1 = n
    BY <2>1
  <2>12. n - 1 \in Done
    BY <2>10, <2>11
  <2>13. Good(n)
    BY <2>1, <2>11, <2>12
  <2> QED BY <2>1, <2>3, <2>13 DEF Good
<1> QED BY <1>1, <1>2

\* No element occurs twice.
Distinct(s) == \A i, j \in DOMAIN s : s[i] = s[j] => i = j

\* Numbers taken in their order, each at most once, are taken once.
LEMMA FlatDistinct ==
  ASSUME NEW n \in Nat, NEW seqs \in [1 .. n -> Seq(Nat)], Len(seqs) = n,
         \A i \in 1 .. n : seqs[i] = <<i>> \/ seqs[i] = <<>>
  PROVE  Distinct(FlattenSeq(seqs))
<1>2. CASE n = 0
  <2>1. seqs = <<>>
    BY <1>2
  <2>2. FlattenSeq(<<>>) = <<>>
    BY DEF FlattenSeq
  <2>3. Distinct(<<>>)
    BY DEF Distinct
  <2> QED BY <2>1, <2>2, <2>3
<1>3. CASE n # 0
  <2>0. n > 0 /\ 1 \in 1 .. n
    BY <1>3
  <2>1. \A i \in 1 .. n : seqs[i] = <<i>> \/ seqs[i] = <<>>
    OBVIOUS
  <2>2. seqs \in [1 .. n -> Seq(Nat)] /\ Len(seqs) = n
    OBVIOUS
  <2>3. PICK flat : /\ FlattenSeq(seqs) = flat[n] /\ flat[1] = seqs[1]
                    /\ \A i \in 1 .. n : i # 1 => flat[i] = flat[i - 1] \o seqs[i]
    <3>1. n > 0
      BY <2>0
    <3> QED BY <2>2, <3>1, FlatSteps, Zenon
  <2> DEFINE Up(m) == /\ flat[m] \in Seq(Nat) /\ Distinct(flat[m])
                      /\ \A i \in DOMAIN flat[m] : flat[m][i] <= m
             Done1 == {m \in Nat : m + 1 <= n => Up(m + 1)}
  <2>4. Up(1)
    <3>1. flat[1] = <<1>> \/ flat[1] = <<>>
      BY <2>0, <2>1, <2>3
    <3>2. <<1>> \in Seq(Nat) /\ DOMAIN <<1>> = {1} /\ <<1>>[1] = 1
      OBVIOUS
    <3>3. CASE flat[1] = <<1>>
      <4>1. Distinct(<<1>>)
        BY <3>2 DEF Distinct
      <4>2. \A i \in DOMAIN <<1>> : <<1>>[i] <= 1
        BY <3>2
      <4> QED BY <3>2, <3>3, <4>1, <4>2
    <3>4. CASE flat[1] = <<>>
      <4>1. Distinct(<<>>) /\ <<>> \in Seq(Nat) /\ \A i \in DOMAIN <<>> : <<>>[i] <= 1
        BY DEF Distinct
      <4> QED BY <3>4, <4>1
    <3> QED BY <3>1, <3>3, <3>4
  <2>5. ASSUME NEW m \in Nat, m > 0, m + 1 <= n, Up(m) PROVE Up(m + 1)
    <3>1. PICK t \in Seq(Nat) : t = flat[m] /\ Distinct(t) /\ \A i \in DOMAIN t : t[i] <= m
      BY <2>5
    <3>2. flat[m + 1] = t \o seqs[m + 1]
      <4>1. m + 1 \in 1 .. n /\ m + 1 # 1 /\ (m + 1) - 1 = m
        BY <2>5
      <4> QED BY <2>3, <3>1, <4>1
    <3>3. seqs[m + 1] = <<m + 1>> \/ seqs[m + 1] = <<>>
      <4>1. m + 1 \in 1 .. n
        <5> HIDE DEF Up
        <5> QED BY <2>5
      <4> QED BY <2>1, <4>1
    <3>4. CASE seqs[m + 1] = <<>>
      <4>1. flat[m + 1] = t
        BY <3>2, <3>4
      <4> QED BY <3>1, <4>1
    <3>5. CASE seqs[m + 1] = <<m + 1>>
      <4>1. PICK u : u = t \o <<m + 1>>
        OBVIOUS
      <4>2. /\ u \in Seq(Nat) /\ DOMAIN u = 1 .. Len(t) + 1 /\ u[Len(t) + 1] = m + 1
            /\ \A i \in 1 .. Len(t) : u[i] = t[i]
        BY <4>1
      <4>3. \A i \in 1 .. Len(t) : u[i] <= m
        <5>1. DOMAIN t = 1 .. Len(t)
          OBVIOUS
        <5> QED BY <3>1, <4>2, <5>1
      <4>4. Distinct(u)
        <5> SUFFICES ASSUME NEW i \in DOMAIN u, NEW j \in DOMAIN u, u[i] = u[j] PROVE i = j
          BY DEF Distinct
        <5>1. CASE i \in 1 .. Len(t) /\ j \in 1 .. Len(t)
          <6>1. t[i] = t[j] /\ i \in DOMAIN t /\ j \in DOMAIN t
            BY <4>2, <5>1
          <6> QED BY <3>1, <6>1 DEF Distinct
        <5>2. CASE i = Len(t) + 1 /\ j = Len(t) + 1
          BY <5>2
        <5>3. CASE i = Len(t) + 1 /\ j \in 1 .. Len(t)
          BY <4>2, <4>3, <5>3
        <5>4. CASE j = Len(t) + 1 /\ i \in 1 .. Len(t)
          BY <4>2, <4>3, <5>4
        <5>5. /\ i = Len(t) + 1 \/ i \in 1 .. Len(t)
              /\ j = Len(t) + 1 \/ j \in 1 .. Len(t)
          BY <4>2
        <5> QED BY <5>1, <5>2, <5>3, <5>4, <5>5
      <4>5. \A i \in DOMAIN u : u[i] <= m + 1
        <5> SUFFICES ASSUME NEW i \in DOMAIN u PROVE u[i] <= m + 1
          OBVIOUS
        <5>1. CASE i \in 1 .. Len(t)
          <6>1. u[i] \in Nat /\ u[i] <= m
            BY <4>2, <4>3, <5>1
          <6> QED BY <6>1
        <5>2. CASE i = Len(t) + 1
          BY <4>2, <5>2
        <5> QED BY <4>2, <5>1, <5>2
      <4>6. flat[m + 1] = u
        BY <3>2, <3>5, <4>1
      <4> QED BY <4>2, <4>4, <4>5, <4>6
    <3> QED BY <3>3, <3>4, <3>5
  <2> HIDE DEF Up
  <2>6. 0 \in Done1
    BY <2>4
  <2>7. ASSUME NEW m \in Nat, m \in Done1 PROVE m + 1 \in Done1
    <3> SUFFICES ASSUME (m + 1) + 1 <= n PROVE Up((m + 1) + 1)
      OBVIOUS
    <3>1. m + 1 \in Nat /\ m + 1 > 0 /\ m + 1 <= n
      OBVIOUS
    <3>2. Up(m + 1)
      BY <2>7, <3>1
    <3> QED BY <2>5, <3>1, <3>2
  <2>8. Nat \subseteq Done1
    <3> HIDE DEF Done1
    <3> QED BY <2>6, <2>7, SetInduction
  <2>9. n - 1 \in Done1 /\ (n - 1) + 1 = n
    <3>1. n - 1 \in Nat /\ (n - 1) + 1 = n
      BY <2>0
    <3> HIDE DEF Done1
    <3> QED BY <2>8, <3>1
  <2>10. Up(n)
    BY <2>9
  <2> QED BY <2>3, <2>10 DEF Up
<1> QED BY <1>2, <1>3

---------------------------------------------------------------------------
(***************************************************************************)
(* Walks: a cursor moves forward until it reaches an end.                  *)
(***************************************************************************)
\* Induction from the end of a walk backwards.
LEMMA DownInduction ==
  ASSUME NEW S, NEW end \in Nat,
         \A cur \in Nat : (cur < end => \A c \in Nat : c > cur => c \in S) => cur \in S
  PROVE  Nat \subseteq S
<1>1. \A cur \in Nat : cur >= end => cur \in S
  OBVIOUS
<1> DEFINE T == {n \in Nat : n <= end /\ (end - n) \notin S}
<1>2. SUFFICES ASSUME NEW x \in Nat, x \notin S PROVE FALSE
  OBVIOUS
<1>3. x < end /\ end - x \in Nat /\ end - (end - x) = x
  BY <1>1, <1>2
<1>4. T \in SUBSET Nat /\ T # {}
  <2>1. end - x \in T
    BY <1>2, <1>3
  <2> QED BY <2>1
<1>5. PICK t \in T : \A u \in T : t <= u
  BY <1>4, LeastNatural
<1> DEFINE y == end - t
<1>6. y \in Nat /\ y \notin S /\ t \in Nat
  BY <1>5
<1>7. ASSUME NEW c \in Nat, c > y PROVE c \in S
  <2>1. CASE c >= end
    BY <1>1, <2>1
  <2>2. CASE c < end
    <3>1. end - c \in Nat /\ end - c <= end /\ end - (end - c) = c /\ ~(t <= end - c)
      BY <1>6, <1>7, <2>2
    <3>2. end - c \notin T
      BY <1>5, <3>1
    <3> QED BY <3>1, <3>2
  <2> QED BY <2>1, <2>2
<1>8. y \in S
  BY <1>6, <1>7
<1> QED BY <1>6, <1>8

\* f is a walk: from cur it goes on to next[cur], and comb adds what is found at cur.
IsWalk(f, end, next, base, comb) ==
  \A cur \in Nat : f[cur] = IF cur >= end THEN base ELSE comb[cur][f[next[cur]]]

IsWalkFrom(f, from, end, next, base, comb) ==
  \A cur \in Nat : cur >= from =>
    f[cur] = IF cur >= end THEN base ELSE comb[cur][f[next[cur]]]

\* A loop that only moves forward to an end defines a function.
LEMMA WalkExists ==
  ASSUME NEW V, NEW end \in Nat, NEW next \in [Nat -> Nat],
         \A cur \in Nat : next[cur] > cur,
         NEW base \in V, NEW comb \in [Nat -> [V -> V]]
  PROVE  \E f \in [Nat -> V] : IsWalk(f, end, next, base, comb)
<1> DEFINE S == {cur \in Nat : \E f \in [Nat -> V] : IsWalkFrom(f, cur, end, next, base, comb)}
<1>1. ASSUME NEW cur \in Nat, cur >= end PROVE cur \in S
  <2> DEFINE g == [c \in Nat |-> base]
  <2>1. g \in [Nat -> V]
    OBVIOUS
  <2>2. IsWalkFrom(g, cur, end, next, base, comb)
    BY <1>1 DEF IsWalkFrom
  <2> QED BY <2>1, <2>2
<1>2. ASSUME NEW cur \in Nat, cur < end, cur + 1 \in S PROVE cur \in S
  <2>1. PICK f \in [Nat -> V] : IsWalkFrom(f, cur + 1, end, next, base, comb)
    BY <1>2
  <2> DEFINE g == [f EXCEPT ![cur] = comb[cur][f[next[cur]]]]
  <2>2. comb[cur] \in [V -> V] /\ next[cur] \in Nat /\ f[next[cur]] \in V
    OBVIOUS
  <2>3. g \in [Nat -> V]
    BY <2>2
  <2>4. g[cur] = comb[cur][f[next[cur]]] /\ \A c \in Nat : c # cur => g[c] = f[c]
    OBVIOUS
  <2> HIDE DEF g
  <2>5. ASSUME NEW c \in Nat, c >= cur
        PROVE  g[c] = IF c >= end THEN base ELSE comb[c][g[next[c]]]
    <3>1. next[c] \in Nat /\ next[c] # cur
      BY <2>5
    <3>2. g[next[c]] = f[next[c]]
      BY <2>4, <3>1
    <3>3. CASE c = cur
      BY <1>2, <2>4, <3>2, <3>3
    <3>4. CASE c # cur
      <4>1. c >= cur + 1 /\ g[c] = f[c]
        BY <2>4, <2>5, <3>4
      <4> QED BY <2>1, <3>2, <4>1 DEF IsWalkFrom
    <3> QED BY <3>3, <3>4
  <2>6. IsWalkFrom(g, cur, end, next, base, comb)
    BY <2>5 DEF IsWalkFrom
  <2> QED BY <2>3, <2>6
<1>3. ASSUME NEW cur \in Nat, cur < end => \A c \in Nat : c > cur => c \in S PROVE cur \in S
  <2> HIDE DEF S
  <2>1. cur + 1 \in Nat /\ cur + 1 > cur
    OBVIOUS
  <2> QED BY <1>1, <1>2, <1>3, <2>1
<1> HIDE DEF S
<1>4. 0 \in S
  BY <1>3, DownInduction
<1>5. PICK f \in [Nat -> V] : IsWalkFrom(f, 0, end, next, base, comb)
  BY <1>4 DEF S
<1>6. IsWalk(f, end, next, base, comb)
  BY <1>5 DEF IsWalk, IsWalkFrom
<1> QED BY <1>6

---------------------------------------------------------------------------
(***************************************************************************)
(* The mapping table.  A table says of a byte of the virtual disk where on *)
(* the volume it lies; the order of its segments does not matter to that.  *)
(***************************************************************************)
Segment == {s \in [start : Nat, end : Nat, physical : Nat] : s.start <= s.end}
Piece == [start : Nat, count : Nat, physical : Nat]

SegmentMaps(s, o, a) == s.start <= o /\ o < s.end /\ a = s.physical + (o - s.start)
PieceMaps(p, o, a) == p.start <= o /\ o < p.start + p.count /\ a = p.physical + (o - p.start)
Maps(segs, o, a) == \E s \in ToSet(segs) : SegmentMaps(s, o, a)

\* The fields of a segment.
LEMMA SegmentType ==
  ASSUME NEW s \in Segment
  PROVE  /\ s.start \in Nat /\ s.end \in Nat /\ s.physical \in Nat /\ s.start <= s.end
         /\ s \in [start : Nat, end : Nat, physical : Nat]
  BY DEF Segment

\* The elements of a sequence are what its indices lead to.
LEMMA ToSetElements ==
  ASSUME NEW S, NEW s \in Seq(S)
  PROVE  /\ ToSet(s) \subseteq S
         /\ \A i \in DOMAIN s : s[i] \in ToSet(s)
         /\ \A x \in ToSet(s) : \E i \in DOMAIN s : s[i] = x
  BY DEF ToSet

\* A new ByteMappingTable maps nothing.
LEMMA EmptyMaps ==
  ASSUME NEW o, NEW a
  PROVE  ~Maps(Empty.segs, o, a) /\ Empty.segs \in Seq(Segment)
  BY DEF Maps, Empty, ToSet

\* AddSegments adds what its pieces say.
LEMMA AddSegmentsMaps ==
  ASSUME NEW table, table.segs \in Seq(Segment), NEW pieces \in Seq(Piece)
  PROVE  /\ AddSegments(table, pieces).segs \in Seq(Segment)
         /\ \A o \in Nat : \A a : Maps(AddSegments(table, pieces).segs, o, a)
              <=> Maps(table.segs, o, a) \/ \E p \in ToSet(pieces) : PieceMaps(p, o, a)
<1> DEFINE Added(p) == AddSegment(Empty, p.start, p.count, p.physical)
           parts == [i \in DOMAIN pieces |-> Added(pieces[i]).segs]
           new == FlattenSeq(parts)
<1>1. ASSUME NEW p \in Piece
      PROVE  /\ Added(p).segs \in Seq(Segment)
             /\ \A o \in Nat : \A a : (\E s \in ToSet(Added(p).segs) : SegmentMaps(s, o, a))
                                    <=> PieceMaps(p, o, a)
  <2>0. p.start \in Nat /\ p.count \in Nat /\ p.physical \in Nat
    BY DEF Piece
  <2>1. CASE p.count = 0
    <3>1. Added(p).segs = <<>>
      BY <2>1 DEF AddSegment, Empty
    <3>2. ToSet(<<>>) = {} /\ <<>> \in Seq(Segment)
      BY DEF ToSet
    <3>3. \A o \in Nat : \A a : ~PieceMaps(p, o, a)
      BY <2>0, <2>1 DEF PieceMaps
    <3> QED BY <3>1, <3>2, <3>3
  <2>2. CASE p.count # 0
    <3> DEFINE s == [start |-> p.start, end |-> p.start + p.count, physical |-> p.physical]
    <3>1. Added(p).segs = <<s>>
      BY <2>2 DEF AddSegment, Empty
    <3>2. s \in Segment
      BY <2>0 DEF Segment
    <3>3. \A o \in Nat : \A a : SegmentMaps(s, o, a) <=> PieceMaps(p, o, a)
      BY DEF SegmentMaps, PieceMaps
    <3> HIDE DEF s
    <3>4. ToSet(<<s>>) = {s} /\ <<s>> \in Seq(Segment)
      BY <3>2 DEF ToSet
    <3> QED BY <3>1, <3>3, <3>4
  <2> QED BY <2>1, <2>2
<1>2. \A i \in DOMAIN pieces : pieces[i] \in Piece
  OBVIOUS
<1>3. parts \in Seq(Seq(Segment)) /\ DOMAIN parts = DOMAIN pieces
      /\ \A i \in DOMAIN pieces : parts[i] = Added(pieces[i]).segs
  <2>1. \A i \in 1 .. Len(pieces) : Added(pieces[i]).segs \in Seq(Segment)
    BY <1>1, <1>2
  <2> HIDE DEF Added
  <2> QED BY <2>1
<1>4. AddSegments(table, pieces).segs = table.segs \o new
  BY DEF AddSegments
<1> HIDE DEF parts, Added
<1>5. new \in Seq(Segment) /\ ToSet(new) = UNION {ToSet(parts[i]) : i \in DOMAIN parts}
  BY <1>3, Flattened
<1> HIDE DEF new
<1>6. table.segs \o new \in Seq(Segment)
      /\ ToSet(table.segs \o new) = ToSet(table.segs) \cup ToSet(new)
  BY <1>5, ToSetConcat
<1>7. ASSUME NEW o \in Nat, NEW a
      PROVE  (\E s \in ToSet(new) : SegmentMaps(s, o, a))
               <=> \E p \in ToSet(pieces) : PieceMaps(p, o, a)
  <2>1. ASSUME NEW s \in ToSet(new), SegmentMaps(s, o, a)
        PROVE  \E p \in ToSet(pieces) : PieceMaps(p, o, a)
    <3>1. PICK i \in DOMAIN pieces : s \in ToSet(Added(pieces[i]).segs)
      BY <1>3, <1>5
    <3> QED BY <1>1, <1>2, <2>1, <3>1, ToSetElements
  <2>2. ASSUME NEW p \in ToSet(pieces), PieceMaps(p, o, a)
        PROVE  \E s \in ToSet(new) : SegmentMaps(s, o, a)
    <3>1. PICK i \in DOMAIN pieces : p = pieces[i]
      BY ToSetElements
    <3>2. PICK s \in ToSet(parts[i]) : SegmentMaps(s, o, a)
      BY <1>1, <1>2, <1>3, <2>2, <3>1
    <3>3. s \in ToSet(new)
      BY <1>3, <1>5, <3>1
    <3> QED BY <3>2, <3>3
  <2> QED BY <2>1, <2>2
<1> QED BY <1>4, <1>6, <1>7 DEF Maps

\* Truncate keeps what lies in front of the cut.
LEMMA TruncateMaps ==
  ASSUME NEW table, table.segs \in Seq(Segment), NEW bytes \in Nat
  PROVE  /\ Truncate(table, bytes).segs \in Seq(Segment)
         /\ Truncate(table, bytes).total = bytes
         /\ \A o \in Nat : \A a : Maps(Truncate(table, bytes).segs, o, a)
              <=> Maps(table.segs, o, a) /\ o < bytes
<1> DEFINE Cut(s) == IF s.start < bytes THEN <<[s EXCEPT !.end = Least(@, bytes)]>> ELSE <<>>
           parts == [i \in DOMAIN table.segs |-> Cut(table.segs[i])]
           new == FlattenSeq(parts)
<1>1. ASSUME NEW s \in Segment
      PROVE  /\ Cut(s) \in Seq(Segment)
             /\ \A o \in Nat : \A a : (\E c \in ToSet(Cut(s)) : SegmentMaps(c, o, a))
                                    <=> SegmentMaps(s, o, a) /\ o < bytes
  <2>0. s.start \in Nat /\ s.end \in Nat /\ s.physical \in Nat /\ s.start <= s.end
        /\ s \in [start : Nat, end : Nat, physical : Nat]
    BY SegmentType
  <2>1. CASE ~(s.start < bytes)
    <3>1. Cut(s) = <<>>
      BY <2>1
    <3>2. ToSet(<<>>) = {} /\ <<>> \in Seq(Segment)
      BY DEF ToSet
    <3>3. \A o \in Nat : \A a : ~(SegmentMaps(s, o, a) /\ o < bytes)
      BY <2>0, <2>1 DEF SegmentMaps
    <3> HIDE DEF Cut
    <3> QED BY <3>1, <3>2, <3>3
  <2>2. CASE s.start < bytes
    <3> DEFINE c == [s EXCEPT !.end = Least(@, bytes)]
    <3>1. Cut(s) = <<c>>
      BY <2>2
    <3>2. c.start = s.start /\ c.physical = s.physical
          /\ c.end = IF s.end <= bytes THEN s.end ELSE bytes
      BY <2>0, LeastOfTwo
    <3>2a. Least(s.end, bytes) \in Nat
      BY <2>0, LeastOfTwo
    <3>2b. c \in [start : Nat, end : Nat, physical : Nat]
      BY <2>0, <3>2a
    <3>3. c \in Segment
      <4> HIDE DEF c
      <4> QED BY <2>0, <2>2, <3>2, <3>2b DEF Segment
    <3> HIDE DEF c, Cut
    <3>4. \A o \in Nat : \A a : SegmentMaps(c, o, a) <=> SegmentMaps(s, o, a) /\ o < bytes
      BY <2>0, <3>2 DEF SegmentMaps
    <3>5. ToSet(<<c>>) = {c} /\ <<c>> \in Seq(Segment)
      BY <3>3 DEF ToSet
    <3> QED BY <3>1, <3>4, <3>5
  <2> QED BY <2>1, <2>2
<1>2. \A i \in DOMAIN table.segs : table.segs[i] \in Segment
  OBVIOUS
<1> HIDE DEF Cut
<1>3. parts \in Seq(Seq(Segment)) /\ DOMAIN parts = DOMAIN table.segs
      /\ \A i \in DOMAIN table.segs : parts[i] = Cut(table.segs[i])
  <2>1. \A i \in 1 .. Len(table.segs) : Cut(table.segs[i]) \in Seq(Segment)
    BY <1>1, <1>2
  <2> QED BY <2>1
<1>4. Truncate(table, bytes).segs = new /\ Truncate(table, bytes).total = bytes
  BY DEF Truncate, Cut
<1> HIDE DEF parts
<1>5. new \in Seq(Segment) /\ ToSet(new) = UNION {ToSet(parts[i]) : i \in DOMAIN parts}
  BY <1>3, Flattened
<1> HIDE DEF new
<1>7. ASSUME NEW o \in Nat, NEW a
      PROVE  Maps(new, o, a) <=> Maps(table.segs, o, a) /\ o < bytes
  <2>1. ASSUME NEW c \in ToSet(new), SegmentMaps(c, o, a)
        PROVE  Maps(table.segs, o, a) /\ o < bytes
    <3>1. PICK i \in DOMAIN table.segs : c \in ToSet(Cut(table.segs[i]))
      BY <1>3, <1>5
    <3>2. SegmentMaps(table.segs[i], o, a) /\ o < bytes
      BY <1>1, <1>2, <2>1, <3>1
    <3> QED BY <3>1, <3>2, ToSetElements DEF Maps
  <2>2. ASSUME NEW s \in ToSet(table.segs), SegmentMaps(s, o, a), o < bytes
        PROVE  Maps(new, o, a)
    <3>1. PICK i \in DOMAIN table.segs : s = table.segs[i]
      BY ToSetElements
    <3>2. PICK c \in ToSet(parts[i]) : SegmentMaps(c, o, a)
      BY <1>1, <1>2, <1>3, <2>2, <3>1
    <3>3. c \in ToSet(new)
      BY <1>3, <1>5, <3>1
    <3> QED BY <3>2, <3>3 DEF Maps
  <2> QED BY <2>1, <2>2 DEF Maps
<1> QED BY <1>4, <1>5, <1>7

\* The order sort_by_key brings the segments into, and a segment's place in it.
Precedes(segs, i, j) ==
  \/ segs[i].start < segs[j].start
  \/ segs[i].start = segs[j].start /\ i < j
Place(segs, i) == Cardinality({j \in DOMAIN segs : Precedes(segs, j, i)}) + 1

\* Two segments never sort to the same place.
LEMMA PlaceIsInjective ==
  ASSUME NEW segs \in Seq(Segment), NEW i \in DOMAIN segs, NEW j \in DOMAIN segs,
         Precedes(segs, i, j)
  PROVE  Place(segs, i) # Place(segs, j)
<1> DEFINE Before(k) == {m \in DOMAIN segs : Precedes(segs, m, k)}
<1>1. IsFiniteSet(DOMAIN segs)
  BY FS_Interval
<1>2. \A k : Before(k) \in SUBSET DOMAIN segs
  OBVIOUS
<1>3. IsFiniteSet(Before(i)) /\ IsFiniteSet(Before(j))
  BY <1>1, <1>2, FS_Subset
<1>4. ASSUME NEW m \in Before(i) PROVE m \in Before(j)
  <2>1. segs[m] \in Segment /\ segs[i] \in Segment /\ segs[j] \in Segment
    OBVIOUS
  <2>2. segs[m].start \in Nat /\ segs[i].start \in Nat /\ segs[j].start \in Nat
    BY <2>1, SegmentType
  <2> QED BY <2>2 DEF Precedes
<1>5. i \in Before(j)
  OBVIOUS
<1>6. i \notin Before(i)
  <2>1. segs[i] \in Segment
    OBVIOUS
  <2>2. segs[i].start \in Nat /\ i \in Nat
    BY <2>1, SegmentType
  <2> QED BY <2>2 DEF Precedes
<1> HIDE DEF Before
<1>7. Before(i) \in SUBSET Before(j) /\ Before(i) # Before(j)
  BY <1>4, <1>5, <1>6
<1>8. Cardinality(Before(i)) # Cardinality(Before(j))
  BY <1>3, <1>7, FS_Subset
<1>9. Cardinality(Before(i)) \in Nat /\ Cardinality(Before(j)) \in Nat
  BY <1>3, FS_CardinalityType
<1> QED BY <1>8, <1>9 DEF Place, Before

\* Sorting loses no segment and makes none up.
LEMMA SortKeeps ==
  ASSUME NEW segs \in Seq(Segment)
  PROVE  /\ SortByStart(segs) \in Seq(Segment)
         /\ Len(SortByStart(segs)) = Len(segs)
         /\ ToSet(SortByStart(segs)) = ToSet(segs)
<1> DEFINE D == DOMAIN segs
           place == [i \in D |-> Place(segs, i)]
<1>1. IsFiniteSet(D) /\ Cardinality(D) = Len(segs) /\ D = 1 .. Len(segs)
  <2>1. Len(segs) \in Nat /\ D = 1 .. Len(segs)
    OBVIOUS
  <2> HIDE DEF D
  <2>2. 1 \in Int /\ Len(segs) \in Int
    BY <2>1
  <2> QED BY <2>1, <2>2, FS_Interval
<1>2. ASSUME NEW i \in D PROVE Place(segs, i) \in D
  <2> DEFINE B == {j \in DOMAIN segs : Precedes(segs, j, i)}
  <2>1. ~Precedes(segs, i, i)
    <3>1. segs[i] \in Segment
      OBVIOUS
    <3>2. segs[i].start \in Nat /\ i \in Nat
      BY <3>1, SegmentType
    <3> QED BY <3>2 DEF Precedes
  <2>2. B \in SUBSET (D \ {i})
    BY <2>1
  <2>3. IsFiniteSet(D \ {i}) /\ Cardinality(D \ {i}) = Len(segs) - 1
    BY <1>1, FS_RemoveElement
  <2>4. IsFiniteSet(B) /\ Cardinality(B) <= Len(segs) - 1
    <3> HIDE DEF B, D
    <3> QED BY <2>2, <2>3, FS_Subset
  <2>5. Cardinality(B) \in Nat
    BY <2>4, FS_CardinalityType
  <2> QED BY <1>1, <2>4, <2>5 DEF Place
<1>3. ASSUME NEW i \in D, NEW j \in D, i # j PROVE Place(segs, i) # Place(segs, j)
  <2>1. segs[i] \in Segment /\ segs[j] \in Segment
    OBVIOUS
  <2>2. segs[i].start \in Nat /\ segs[j].start \in Nat /\ i \in Nat /\ j \in Nat
    BY <2>1, SegmentType
  <2>3. Precedes(segs, i, j) \/ Precedes(segs, j, i)
    BY <1>3, <2>2 DEF Precedes
  <2> QED BY <2>3, PlaceIsInjective
<1>4. place \in Injection(D, D)
  BY <1>2, <1>3 DEF Injection, IsInjective
<1>5. place \in Surjection(D, D)
  <2> HIDE DEF place, D
  <2> QED BY <1>1, <1>4, FS_Injection
<1>6. \A k \in D : \E i \in D : Place(segs, i) = k
  BY <1>5 DEF Surjection
<1> DEFINE At(k) == CHOOSE i \in D : Place(segs, i) = k
<1>7. \A k \in D : At(k) \in D /\ Place(segs, At(k)) = k
  BY <1>6
<1>8. \A i \in D : At(Place(segs, i)) = i
  BY <1>2, <1>3, <1>7
<1>9. SortByStart(segs) = [k \in D |-> segs[At(k)]]
  BY DEF SortByStart, Place, Precedes
<1> HIDE DEF At, place
<1> DEFINE sorted == [k \in D |-> segs[At(k)]]
<1>10. sorted \in Seq(Segment) /\ Len(sorted) = Len(segs) /\ DOMAIN sorted = D
       /\ \A k \in D : sorted[k] = segs[At(k)]
  BY <1>1, <1>7
<1> HIDE DEF sorted
<1>11. \A x \in ToSet(sorted) : x \in ToSet(segs)
  BY <1>7, <1>10 DEF ToSet
<1>12. ASSUME NEW x \in ToSet(segs) PROVE x \in ToSet(sorted)
  <2>1. PICK i \in D : x = segs[i]
    BY ToSetElements
  <2>2. Place(segs, i) \in D /\ sorted[Place(segs, i)] = x
    BY <1>2, <1>8, <1>10, <2>1
  <2> QED BY <1>10, <2>2 DEF ToSet
<1> QED BY <1>9, <1>10, <1>11, <1>12 DEF sorted

Segments == {x \in Seq(Segment) : x # <<>>}

\* Join adds a segment to the joined ones, or makes the last one longer.
LEMMA JoinMaps ==
  ASSUME NEW done \in Segments, NEW s \in Segment
  PROVE  /\ Join(done, s) \in Segments
         /\ \A o \in Nat : \A a : Maps(Join(done, s), o, a)
                                <=> Maps(done, o, a) \/ SegmentMaps(s, o, a)
<1>1. done \in Seq(Segment) /\ done # <<>>
  BY DEF Segments
<1> DEFINE n == Len(done)
           c == done[n]
           e == [c EXCEPT !.end = s.end]
<1>2. n \in Nat /\ n > 0 /\ n \in DOMAIN done /\ DOMAIN done = 1 .. n /\ c \in Segment
  BY <1>1
<1>3. Last(done) = c
  BY DEF Last
<1>4. CASE ~Continues(c, s)
  <2>1. Join(done, s) = Append(done, s)
    BY <1>3, <1>4 DEF Join
  <2>2. Append(done, s) = done \o <<s>> /\ <<s>> \in Seq(Segment)
    BY <1>1
  <2>3. ToSet(<<s>>) = {s}
    BY DEF ToSet
  <2>4. ToSet(done \o <<s>>) = ToSet(done) \cup {s}
    <3> DEFINE t == <<s>>
    <3>1. t \in Seq(Segment)
      BY <2>2
    <3> HIDE DEF t
    <3>2. ToSet(done \o t) = ToSet(done) \cup ToSet(t)
      BY <1>1, <3>1, ToSetConcat
    <3> QED BY <2>3, <3>2 DEF t
  <2>5. Append(done, s) \in Segments
    BY <1>1 DEF Segments
  <2> QED BY <2>1, <2>2, <2>4, <2>5 DEF Maps
<1>5. CASE Continues(c, s)
  <2> DEFINE new == [done EXCEPT ![n] = e]
  <2>1. Join(done, s) = new
    BY <1>2, <1>3, <1>5 DEF Join
  <2>2. /\ c.start \in Nat /\ c.end \in Nat /\ c.physical \in Nat /\ c.start <= c.end
        /\ c \in [start : Nat, end : Nat, physical : Nat]
        /\ s.start \in Nat /\ s.end \in Nat /\ s.physical \in Nat /\ s.start <= s.end
    BY <1>2, SegmentType
  <2>3. e.start = c.start /\ e.end = s.end /\ e.physical = c.physical
        /\ e \in [start : Nat, end : Nat, physical : Nat]
    BY <2>2
  <2>4. c.end = s.start /\ c.physical + (c.end - c.start) = s.physical
    BY <1>5 DEF Continues
  <2> HIDE DEF c, e
  <2>5. e \in Segment
    BY <2>2, <2>3, <2>4 DEF Segment
  <2>6. \A o \in Nat : \A a : SegmentMaps(e, o, a) <=> SegmentMaps(c, o, a) \/ SegmentMaps(s, o, a)
    <3> SUFFICES ASSUME NEW o \in Nat, NEW a
                 PROVE  SegmentMaps(e, o, a) <=> SegmentMaps(c, o, a) \/ SegmentMaps(s, o, a)
      OBVIOUS
    <3>1. s.physical + (o - s.start) = c.physical + (o - c.start)
      BY <2>2, <2>4
    <3>2. CASE o < s.start
      BY <2>2, <2>3, <2>4, <3>1, <3>2 DEF SegmentMaps
    <3>3. CASE ~(o < s.start)
      BY <2>2, <2>3, <2>4, <3>1, <3>3 DEF SegmentMaps
    <3> QED BY <3>2, <3>3
  <2>7. new \in Seq(Segment) /\ new # <<>> /\ DOMAIN new = 1 .. n
        /\ new[n] = e /\ \A i \in 1 .. n : i # n => new[i] = done[i]
    <3>1. done \in [1 .. n -> Segment]
      BY <1>1
    <3> HIDE DEF n
    <3>2. new \in [1 .. n -> Segment] /\ DOMAIN new = 1 .. n
          /\ new[n] = e /\ \A i \in 1 .. n : i # n => new[i] = done[i]
      BY <1>2, <2>5, <3>1
    <3> HIDE DEF new
    <3>3. new \in Seq(Segment)
      BY <1>2, <3>2
    <3>4. new # <<>>
      BY <1>2, <3>2
    <3> QED BY <3>2, <3>3, <3>4
  <2> HIDE DEF new
  <2>8. ASSUME NEW o \in Nat, NEW a
        PROVE  Maps(new, o, a) <=> Maps(done, o, a) \/ SegmentMaps(s, o, a)
    <3>1. ASSUME NEW x \in ToSet(new), SegmentMaps(x, o, a)
          PROVE  Maps(done, o, a) \/ SegmentMaps(s, o, a)
      <4>1. PICK i \in 1 .. n : x = new[i]
        BY <2>7 DEF ToSet
      <4>2. done[i] \in ToSet(done) /\ c \in ToSet(done)
        BY <1>2 DEF ToSet, c
      <4> QED BY <2>6, <2>7, <3>1, <4>1, <4>2 DEF Maps
    <3>2. ASSUME NEW x \in ToSet(done), SegmentMaps(x, o, a)
          PROVE  Maps(new, o, a)
      <4>1. PICK i \in 1 .. n : x = done[i]
        BY <1>2 DEF ToSet
      <4>2. new[i] \in ToSet(new) /\ e \in ToSet(new)
        BY <1>2, <2>7 DEF ToSet
      <4>3. CASE i = n
        <5>1. SegmentMaps(e, o, a)
          BY <2>6, <3>2, <4>1, <4>3 DEF c
        <5> QED BY <4>2, <5>1 DEF Maps
      <4>4. CASE i # n
        BY <2>7, <3>2, <4>1, <4>2, <4>4 DEF Maps
      <4> QED BY <4>3, <4>4
    <3>3. ASSUME SegmentMaps(s, o, a) PROVE Maps(new, o, a)
      <4>1. e \in ToSet(new)
        BY <1>2, <2>7 DEF ToSet
      <4> QED BY <2>6, <3>3, <4>1 DEF Maps
    <3> QED BY <3>1, <3>2, <3>3 DEF Maps
  <2> QED BY <2>1, <2>7, <2>8 DEF Segments
<1> QED BY <1>4, <1>5

\* The segments of a table as optimize joins them, one after the other.
IsJoined(f, sorted) ==
  f = [n \in DOMAIN sorted |-> IF n = 1 THEN <<sorted[1]>> ELSE Join(f[n - 1], sorted[n])]

\* The loop of optimize defines a function.
LEMMA JoinedExists ==
  ASSUME NEW n \in Nat, n > 0, NEW sorted \in Seq(Segment), Len(sorted) = n
  PROVE  \E f : IsJoined(f, sorted)
<1> DEFINE step == [i \in 1 .. n |-> [x \in Segments |-> Join(x, sorted[i])]]
<1>1. ASSUME NEW i \in 1 .. n
      PROVE  [x \in Segments |-> Join(x, sorted[i])] \in [Segments -> Segments]
  <2>1. sorted[i] \in Segment
    OBVIOUS
  <2>2. \A x \in Segments : Join(x, sorted[i]) \in Segments
    BY <2>1, JoinMaps
  <2> QED BY <2>2
<1>2. step \in [1 .. n -> [Segments -> Segments]]
  BY <1>1
<1>3. \A i \in 1 .. n : \A x \in Segments : step[i][x] = Join(x, sorted[i])
  OBVIOUS
<1>4. <<sorted[1]>> \in Segments
  BY DEF Segments
<1> HIDE DEF step
<1>5. PICK f \in [1 .. n -> Segments] : IsLoop(f, n, <<sorted[1]>>, step)
  BY <1>2, <1>4, LoopExists
<1>6. ASSUME NEW i \in 1 .. n
      PROVE  f[i] = IF i = 1 THEN <<sorted[1]>> ELSE Join(f[i - 1], sorted[i])
  <2>1. CASE i = 1
    BY <1>5, <2>1 DEF IsLoop
  <2>2. CASE i # 1
    <3>1. i \in 2 .. n /\ i - 1 \in 1 .. n
      BY <2>2
    <3>2. f[i] = step[i][f[i - 1]] /\ f[i - 1] \in Segments
      BY <1>5, <3>1 DEF IsLoop
    <3> QED BY <1>3, <2>2, <3>2
  <2> QED BY <2>1, <2>2
<1>7. DOMAIN sorted = 1 .. n
  OBVIOUS
<1>8. IsJoined(f, sorted)
  BY <1>6, <1>7 DEF IsJoined
<1> QED BY <1>8

\* Optimize changes where no byte is found.
LEMMA OptimizeMaps ==
  ASSUME NEW table, table = [segs |-> table.segs, total |-> table.total],
         table.segs \in Seq(Segment)
  PROVE  /\ Optimize(table).segs \in Seq(Segment)
         /\ Optimize(table).total = table.total
         /\ \A o \in Nat : \A a : Maps(Optimize(table).segs, o, a) <=> Maps(table.segs, o, a)
<1>1. CASE Len(table.segs) <= 1
  <2>1. Optimize(table) = table
    BY <1>1 DEF Optimize
  <2> QED BY <2>1
<1>2. CASE ~(Len(table.segs) <= 1)
  <2> DEFINE sorted == SortByStart(table.segs)
             joined == CHOOSE f : IsJoined(f, sorted)
  <2>1. sorted \in Seq(Segment) /\ Len(sorted) = Len(table.segs)
        /\ ToSet(sorted) = ToSet(table.segs)
    BY SortKeeps
  <2>2. Optimize(table) = [table EXCEPT !.segs = joined[Len(sorted)]]
    BY <1>2, Zenon DEF Optimize, IsJoined
  <2> HIDE DEF sorted
  <2>3. PICK n \in Nat : n = Len(sorted) /\ n > 1 /\ DOMAIN sorted = 1 .. n
    BY <1>2, <2>1
  <2>4. IsJoined(joined, sorted)
    <3>1. \E f : IsJoined(f, sorted)
      BY <2>1, <2>3, JoinedExists
    <3> QED BY <3>1
  <2> HIDE DEF joined
  <2>5. \A i \in 1 .. n : joined[i] = IF i = 1 THEN <<sorted[1]>>
                                      ELSE Join(joined[i - 1], sorted[i])
    BY <2>3, <2>4, Zenon DEF IsJoined
  <2> DEFINE Good(m) ==
               /\ joined[m] \in Segments
               /\ \A o \in Nat : \A a : Maps(joined[m], o, a)
                                      <=> \E i \in 1 .. m : SegmentMaps(sorted[i], o, a)
             Done == {m \in Nat : m + 1 <= n => Good(m + 1)}
  <2>6. Good(1)
    <3>1. 1 \in 1 .. n /\ sorted[1] \in Segment
      BY <2>1, <2>3
    <3>2. joined[1] = <<sorted[1]>>
      BY <2>5, <3>1
    <3>3. ToSet(<<sorted[1]>>) = {sorted[1]} /\ <<sorted[1]>> \in Segments
      BY <3>1 DEF ToSet, Segments
    <3>4. 1 .. 1 = {1}
      OBVIOUS
    <3> QED BY <3>2, <3>3, <3>4 DEF Maps
  <2>7. ASSUME NEW m \in Nat, m > 0, m + 1 <= n, Good(m) PROVE Good(m + 1)
    <3>1. m + 1 \in 1 .. n /\ m + 1 # 1 /\ (m + 1) - 1 = m
      <4> HIDE DEF Good
      <4> QED BY <2>7
    <3>2. joined[m + 1] = Join(joined[m], sorted[m + 1])
      BY <2>5, <3>1
    <3>3. sorted[m + 1] \in Segment
      BY <2>1, <2>3, <3>1
    <3>4. 1 .. m + 1 = (1 .. m) \cup {m + 1}
      BY <2>7
    <3>5. joined[m] \in Segments
      BY <2>7
    <3>6. /\ joined[m + 1] \in Segments
          /\ \A o \in Nat : \A a : Maps(joined[m + 1], o, a)
                <=> Maps(joined[m], o, a) \/ SegmentMaps(sorted[m + 1], o, a)
      BY <3>2, <3>3, <3>5, JoinMaps
    <3> QED BY <2>7, <3>4, <3>6
  <2> HIDE DEF Good
  <2>8. 0 \in Done
    BY <2>6
  <2>9. ASSUME NEW m \in Nat, m \in Done PROVE m + 1 \in Done
    <3> SUFFICES ASSUME (m + 1) + 1 <= n PROVE Good((m + 1) + 1)
      OBVIOUS
    <3>1. m + 1 \in Nat /\ m + 1 > 0 /\ m + 1 <= n
      BY <2>3
    <3>2. Good(m + 1)
      BY <2>9, <3>1
    <3> QED BY <2>7, <3>1, <3>2
  <2>10. Nat \subseteq Done
    <3> HIDE DEF Done
    <3> QED BY <2>8, <2>9, SetInduction
  <2>11. n - 1 \in Nat /\ (n - 1) + 1 = n
    BY <2>3
  <2>12. Good(n)
    <3>1. n - 1 \in Done
      BY <2>10, <2>11
    <3> QED BY <2>11, <3>1
  <2>13. joined[n] \in Seq(Segment)
    BY <2>12 DEF Good, Segments
  <2>14. ASSUME NEW o \in Nat, NEW a PROVE Maps(joined[n], o, a) <=> Maps(table.segs, o, a)
    <3>1. Maps(joined[n], o, a) <=> \E i \in 1 .. n : SegmentMaps(sorted[i], o, a)
      BY <2>12 DEF Good
    <3>2. Maps(sorted, o, a) <=> \E i \in 1 .. n : SegmentMaps(sorted[i], o, a)
      BY <2>3 DEF Maps, ToSet
    <3> QED BY <2>1, <3>1, <3>2 DEF Maps
  <2>15. Optimize(table).segs = joined[n] /\ Optimize(table).total = table.total
    BY <2>2, <2>3
  <2> QED BY <2>13, <2>14, <2>15
<1> QED BY <1>1, <1>2

---------------------------------------------------------------------------
(***************************************************************************)
(* Translating a range.                                                    *)
(***************************************************************************)
\* One step of translate_range_sparse: the segments with the byte at the
\* cursor, where the walk goes on, and the piece it finds.
HitsAt(segs, cur) == {i \in DOMAIN segs : cur \in segs[i].start .. (segs[i].end - 1)}
HitAt(segs, cur) == segs[Min(HitsAt(segs, cur))]
LaterStarts(segs, cur) == {s.start : s \in {r \in ToSet(segs) : r.start > cur}}
SparseNext(segs, end, cur) ==
  IF HitsAt(segs, cur) = {} THEN Min(LaterStarts(segs, cur) \cup {end})
  ELSE Least(end, HitAt(segs, cur).end)
SparsePiece(segs, at, end, cur) ==
  [dst |-> cur - at,
   physical |-> HitAt(segs, cur).physical + (cur - HitAt(segs, cur).start),
   count |-> Least(end, HitAt(segs, cur).end) - cur]

IsSparse(f, segs, at, end) ==
  f = [cur \in Nat |->
        IF cur >= end THEN <<>>
        ELSE IF HitsAt(segs, cur) = {} THEN f[Min(LaterStarts(segs, cur) \cup {end})]
        ELSE <<SparsePiece(segs, at, end, cur)>> \o f[Least(end, HitAt(segs, cur).end)]]

\* translate_range_sparse is the walk IsSparse describes.
LEMMA SparseIsWalk ==
  ASSUME NEW table, NEW at, NEW count
  PROVE  TranslateRangeSparse(table, at, count)
           = (CHOOSE f : IsSparse(f, table.segs, at, at + count))[at]
  BY Zenon DEF TranslateRangeSparse, IsSparse, HitsAt, HitAt, LaterStarts, SparsePiece

\* The segment found at an offset contains it.
LEMMA HitIsSegment ==
  ASSUME NEW segs \in Seq(Segment), NEW cur \in Nat, HitsAt(segs, cur) # {}
  PROVE  /\ HitAt(segs, cur) \in ToSet(segs) /\ HitAt(segs, cur) \in Segment
         /\ HitAt(segs, cur).start <= cur /\ cur < HitAt(segs, cur).end
<1> DEFINE H == HitsAt(segs, cur)
<1>1. H \in SUBSET Nat
  BY DEF HitsAt
<1>2. Min(H) \in H
  <2> HIDE DEF H
  <2>1. H # {}
    BY DEF H
  <2> QED BY <1>1, <2>1, MinOfNaturals
<1> DEFINE i == Min(H)
<1>3. i \in DOMAIN segs /\ cur \in segs[i].start .. (segs[i].end - 1)
  BY <1>2 DEF HitsAt
<1>4. segs[i] \in Segment /\ segs[i] \in ToSet(segs) /\ HitAt(segs, cur) = segs[i]
  BY <1>3 DEF ToSet, HitAt
<1> HIDE DEF i
<1>5. segs[i].start \in Nat /\ segs[i].end \in Nat
  BY <1>4, SegmentType
<1> QED BY <1>3, <1>4, <1>5

\* Every turn of translate_range_sparse moves on, never past the end, and
\* what it skips is a hole.
LEMMA SparseAdvances ==
  ASSUME NEW segs \in Seq(Segment), NEW end \in Nat, NEW cur \in Nat, cur < end
  PROVE  /\ SparseNext(segs, end, cur) \in Nat
         /\ SparseNext(segs, end, cur) > cur /\ SparseNext(segs, end, cur) <= end
         /\ HitsAt(segs, cur) = {} =>
              \A o \in Nat : \A a : cur <= o /\ o < SparseNext(segs, end, cur) => ~Maps(segs, o, a)
<1>1. \A s \in ToSet(segs) : s \in Segment /\ s.start \in Nat /\ s.end \in Nat
  BY ToSetElements, SegmentType
<1>2. CASE HitsAt(segs, cur) # {}
  <2>1. HitAt(segs, cur).end \in Nat /\ cur < HitAt(segs, cur).end
    BY <1>2, HitIsSegment, SegmentType
  <2>2. SparseNext(segs, end, cur) = Least(end, HitAt(segs, cur).end)
    BY <1>2 DEF SparseNext
  <2> QED BY <1>2, <2>1, <2>2, LeastOfTwo
<1>3. CASE HitsAt(segs, cur) = {}
  <2> DEFINE L == LaterStarts(segs, cur) \cup {end}
  <2>1. L \in SUBSET Nat /\ L # {} /\ end \in L
    BY <1>1 DEF LaterStarts
  <2>2. \A x \in L : x > cur
    BY <1>1 DEF LaterStarts
  <2>3. SparseNext(segs, end, cur) = Min(L)
    BY <1>3 DEF SparseNext
  <2>4. \A s \in ToSet(segs) : s.start > cur => s.start \in L
    BY DEF LaterStarts
  <2> HIDE DEF L
  <2>5. Min(L) \in L /\ \A y \in L : Min(L) <= y
    BY <2>1, MinOfNaturals
  <2>6. ASSUME NEW o \in Nat, NEW a, cur <= o, o < Min(L), Maps(segs, o, a) PROVE FALSE
    <3>1. PICK s \in ToSet(segs) : SegmentMaps(s, o, a)
      BY <2>6 DEF Maps
    <3>2. s.start <= o /\ o < s.end /\ s.start \in Nat /\ s.end \in Nat
      BY <1>1, <3>1 DEF SegmentMaps
    <3>3. ~(s.start > cur)
      <4>1. Min(L) \in Nat
        BY <2>1, <2>5
      <4> QED BY <2>4, <2>5, <2>6, <3>2, <4>1
    <3>4. PICK i \in DOMAIN segs : s = segs[i]
      BY ToSetElements
    <3>5. i \in HitsAt(segs, cur)
      BY <2>6, <3>2, <3>3, <3>4 DEF HitsAt
    <3> QED BY <1>3, <3>5
  <2>7. Min(L) \in Nat /\ Min(L) > cur /\ Min(L) <= end
    BY <2>1, <2>2, <2>5
  <2> QED BY <2>3, <2>6, <2>7
<1> QED BY <1>2, <1>3

\* A piece of the source volume and where it goes in the buffer.
Found == [dst : Nat, physical : Nat, count : Nat]

\* A piece found has natural numbers in its fields.
LEMMA SparsePieceType ==
  ASSUME NEW segs \in Seq(Segment), NEW at \in Nat, NEW end \in Nat, NEW cur \in Nat,
         cur < end, HitsAt(segs, cur) # {}, at <= cur
  PROVE  SparsePiece(segs, at, end, cur) \in Found
<1>1. /\ HitAt(segs, cur).start \in Nat /\ HitAt(segs, cur).end \in Nat
      /\ HitAt(segs, cur).physical \in Nat
      /\ HitAt(segs, cur).start <= cur /\ cur < HitAt(segs, cur).end
  BY HitIsSegment, SegmentType
<1>2. Least(end, HitAt(segs, cur).end) - cur \in Nat
  BY <1>1, LeastOfTwo
<1>3. cur - at \in Nat /\ HitAt(segs, cur).physical + (cur - HitAt(segs, cur).start) \in Nat
  BY <1>1
<1> QED BY <1>2, <1>3 DEF SparsePiece, Found

\* The loop of translate_range_sparse defines a function.
LEMMA SparseExists ==
  ASSUME NEW segs \in Seq(Segment), NEW at \in Nat, NEW end \in Nat
  PROVE  \E f : IsSparse(f, segs, at, end)
<1> DEFINE V == Seq([dst : Int, physical : Nat, count : Nat])
           next == [cur \in Nat |-> IF cur >= end THEN cur + 1 ELSE SparseNext(segs, end, cur)]
           base == <<>>
           Add(cur, x) == IF cur >= end \/ HitsAt(segs, cur) = {} THEN x
                          ELSE <<SparsePiece(segs, at, end, cur)>> \o x
           comb == [cur \in Nat |-> [x \in V |-> Add(cur, x)]]
<1>1. next \in [Nat -> Nat] /\ \A cur \in Nat : next[cur] > cur
  BY SparseAdvances
<1>2. base \in V
  OBVIOUS
<1>3. ASSUME NEW cur \in Nat, NEW x \in V PROVE Add(cur, x) \in V
  <2>1. CASE cur >= end \/ HitsAt(segs, cur) = {}
    BY <2>1
  <2>2. CASE ~(cur >= end \/ HitsAt(segs, cur) = {})
    <3>1. /\ HitAt(segs, cur).start \in Nat /\ HitAt(segs, cur).end \in Nat
          /\ HitAt(segs, cur).physical \in Nat
          /\ HitAt(segs, cur).start <= cur /\ cur < HitAt(segs, cur).end
      BY <2>2, HitIsSegment, SegmentType
    <3>2. Least(end, HitAt(segs, cur).end) - cur \in Nat
      <4> HIDE DEF V
      <4>1. end \in Int /\ HitAt(segs, cur).end \in Int
        BY <3>1
      <4>2. cur < end
        BY <2>2
      <4> QED BY <3>1, <4>1, <4>2, LeastOfTwo
    <3>3. HitAt(segs, cur).physical + (cur - HitAt(segs, cur).start) \in Nat
      BY <3>1
    <3>4. SparsePiece(segs, at, end, cur) \in [dst : Int, physical : Nat, count : Nat]
      BY <3>2, <3>3 DEF SparsePiece
    <3>5. Add(cur, x) = <<SparsePiece(segs, at, end, cur)>> \o x
      BY <2>2
    <3> HIDE DEF Add
    <3> QED BY <3>4, <3>5, Prepended
  <2> QED BY <2>1, <2>2
<1> HIDE DEF V, Add
<1>4. comb \in [Nat -> [V -> V]]
  BY <1>3
<1>5. \A cur \in Nat : \A x \in V : comb[cur][x] = Add(cur, x)
  OBVIOUS
<1>6. \A cur \in Nat : cur < end => next[cur] = SparseNext(segs, end, cur)
  OBVIOUS
<1> HIDE DEF next, comb, base
<1>7. PICK f \in [Nat -> V] : IsWalk(f, end, next, base, comb)
  BY <1>1, <1>2, <1>4, WalkExists
<1>8. ASSUME NEW cur \in Nat
      PROVE  f[cur] = IF cur >= end THEN <<>>
                      ELSE IF HitsAt(segs, cur) = {} THEN f[Min(LaterStarts(segs, cur) \cup {end})]
                      ELSE <<SparsePiece(segs, at, end, cur)>> \o f[Least(end, HitAt(segs, cur).end)]
  <2>1. CASE cur >= end
    BY <1>7, <2>1 DEF IsWalk, base
  <2>2. CASE ~(cur >= end)
    <3>1. f[cur] = comb[cur][f[next[cur]]] /\ next[cur] \in Nat /\ f[next[cur]] \in V
      BY <1>1, <1>7, <2>2 DEF IsWalk
    <3>2. f[cur] = Add(cur, f[SparseNext(segs, end, cur)])
      BY <1>5, <1>6, <2>2, <3>1
    <3> QED BY <2>2, <3>2 DEF Add, SparseNext
  <2> QED BY <2>1, <2>2
<1>9. IsSparse(f, segs, at, end)
  BY <1>8 DEF IsSparse
<1> QED BY <1>9

\* What translate_range_sparse finds: pieces inside the range, each byte where
\* the table says, and every mapped byte of the range.
SparsePiecesFit(pieces, segs, at, count, from) ==
  /\ pieces \in Seq(Found)
  /\ \A p \in ToSet(pieces) : \A k \in Nat : p.dst <= k /\ k < p.dst + p.count
       => k < count /\ Maps(segs, at + k, p.physical + (k - p.dst))
  /\ \A p \in ToSet(pieces) : p.count > 0
  /\ \A k \in Nat : \A a : from <= at + k /\ k < count /\ Maps(segs, at + k, a)
       => \E p \in ToSet(pieces) : p.dst <= k /\ k < p.dst + p.count

\* The pieces translate_range_sparse returns are the mapped bytes of the
\* range, all of them and nothing else.
LEMMA SparseFits ==
  ASSUME NEW table, table.segs \in Seq(Segment), NEW at \in Nat, NEW count \in Nat
  PROVE  SparsePiecesFit(TranslateRangeSparse(table, at, count), table.segs, at, count, at)
<1> DEFINE segs == table.segs
           end == at + count
           walk == CHOOSE f : IsSparse(f, segs, at, end)
           Fits(cur) == SparsePiecesFit(walk[cur], segs, at, count, cur)
<1>0. end \in Nat /\ segs \in Seq(Segment)
  OBVIOUS
<1>1. IsSparse(walk, segs, at, end)
  <2>1. \E f : IsSparse(f, segs, at, end)
    BY <1>0, SparseExists
  <2> QED BY <2>1
<1>2. TranslateRangeSparse(table, at, count) = walk[at]
  BY SparseIsWalk
<1> HIDE DEF walk, segs
<1>3. \A cur \in Nat :
        walk[cur] = IF cur >= end THEN <<>>
                    ELSE IF HitsAt(segs, cur) = {}
                      THEN walk[Min(LaterStarts(segs, cur) \cup {end})]
                    ELSE <<SparsePiece(segs, at, end, cur)>> \o walk[Least(end, HitAt(segs, cur).end)]
  BY <1>1, Zenon DEF IsSparse
<1>4. ASSUME NEW cur \in Nat, at <= cur, cur >= end PROVE Fits(cur)
  <2>1. walk[cur] = <<>>
    BY <1>3, <1>4
  <2>2. <<>> \in Seq(Found) /\ ToSet(<<>>) = {}
    BY DEF ToSet
  <2>3. \A k \in Nat : ~(cur <= at + k /\ k < count)
    BY <1>4
  <2> QED BY <2>1, <2>2, <2>3 DEF SparsePiecesFit
<1>5. ASSUME NEW cur \in Nat, at <= cur, cur < end, HitsAt(segs, cur) = {},
             Fits(SparseNext(segs, end, cur))
      PROVE  Fits(cur)
  <2> DEFINE nxt == SparseNext(segs, end, cur)
  <2>0. ~(cur >= end)
    BY <1>0, <1>5
  <2>1. walk[cur] = walk[nxt]
    BY <1>3, <1>5, <2>0, Zenon DEF SparseNext
  <2>2. nxt \in Nat /\ \A o \in Nat : \A a : cur <= o /\ o < nxt => ~Maps(segs, o, a)
    BY <1>0, <1>5, SparseAdvances
  <2> HIDE DEF nxt
  <2>3. SparsePiecesFit(walk[cur], segs, at, count, nxt)
    BY <1>5, <2>1 DEF nxt
  <2>4. ASSUME NEW k \in Nat, NEW a, cur <= at + k, Maps(segs, at + k, a) PROVE nxt <= at + k
    BY <2>2, <2>4
  <2> QED BY <2>3, <2>4 DEF SparsePiecesFit
<1>6. ASSUME NEW cur \in Nat, at <= cur, cur < end, HitsAt(segs, cur) # {},
             Fits(SparseNext(segs, end, cur))
      PROVE  Fits(cur)
  <2> DEFINE nxt == SparseNext(segs, end, cur)
             hit == HitAt(segs, cur)
             p == SparsePiece(segs, at, end, cur)
             rest == walk[nxt]
  <2>0. ~(cur >= end)
    BY <1>0, <1>6
  <2>1. walk[cur] = <<p>> \o rest
    BY <1>3, <1>6, <2>0, Zenon DEF SparseNext
  <2>2. nxt \in Nat /\ cur < nxt /\ nxt <= end /\ nxt = Least(end, hit.end)
    BY <1>0, <1>6, SparseAdvances DEF SparseNext
  <2>3. p \in Found
    BY <1>0, <1>6, SparsePieceType
  <2>4. hit \in ToSet(segs) /\ hit \in Segment /\ hit.start <= cur /\ cur < hit.end
    BY <1>0, <1>6, HitIsSegment
  <2>5. hit.start \in Nat /\ hit.end \in Nat /\ hit.physical \in Nat
    BY <2>4, SegmentType
  <2>6. p.dst = cur - at /\ p.physical = hit.physical + (cur - hit.start) /\ p.count = nxt - cur
    BY <2>2 DEF SparsePiece
  <2>6a. nxt <= hit.end
    BY <1>0, <2>2, <2>5, LeastOfTwo
  <2> HIDE DEF p, nxt, hit
  <2>7. SparsePiecesFit(rest, segs, at, count, nxt)
    BY <1>6 DEF nxt
  <2> HIDE DEF rest
  <2>8. rest \in Seq(Found)
    BY <2>7 DEF SparsePiecesFit
  <2>9. <<p>> \o rest \in Seq(Found) /\ ToSet(<<p>> \o rest) = {p} \cup ToSet(rest)
    BY <2>3, <2>8, Prepended
  <2>10. ASSUME NEW k \in Nat, p.dst <= k, k < p.dst + p.count
         PROVE  k < count /\ Maps(segs, at + k, p.physical + (k - p.dst))
    <3>1. cur <= at + k /\ at + k < nxt
      BY <2>2, <2>6, <2>10
    <3>2. SegmentMaps(hit, at + k, p.physical + (k - p.dst))
      BY <2>4, <2>5, <2>6, <2>6a, <2>2, <3>1 DEF SegmentMaps
    <3>3. k < count
      BY <2>2, <3>1
    <3> QED BY <2>4, <3>2, <3>3 DEF Maps
  <2>11. p.count > 0
    BY <2>2, <2>6
  <2>12. ASSUME NEW k \in Nat, cur <= at + k, at + k < nxt
         PROVE  p.dst <= k /\ k < p.dst + p.count
    BY <2>2, <2>6, <2>12
  <2>13. ASSUME NEW k \in Nat, NEW a, cur <= at + k, k < count, Maps(segs, at + k, a)
         PROVE  \E q \in {p} \cup ToSet(rest) : q.dst <= k /\ k < q.dst + q.count
    <3>1. CASE at + k < nxt
      BY <2>12, <2>13, <3>1
    <3>2. CASE nxt <= at + k
      BY <2>7, <2>13, <3>2 DEF SparsePiecesFit
    <3> QED BY <2>2, <3>1, <3>2
  <2>14. \A q \in {p} \cup ToSet(rest) : \A k \in Nat : q.dst <= k /\ k < q.dst + q.count
           => k < count /\ Maps(segs, at + k, q.physical + (k - q.dst))
    BY <2>7, <2>10 DEF SparsePiecesFit
  <2>15. \A q \in {p} \cup ToSet(rest) : q.count > 0
    BY <2>7, <2>11 DEF SparsePiecesFit
  <2> QED BY <2>1, <2>9, <2>13, <2>14, <2>15 DEF SparsePiecesFit
<1> DEFINE S == {cur \in Nat : at <= cur => Fits(cur)}
<1>7. ASSUME NEW cur \in Nat, cur < end => \A c \in Nat : c > cur => c \in S
      PROVE  cur \in S
  <2> HIDE DEF Fits
  <2> SUFFICES ASSUME at <= cur PROVE Fits(cur)
    OBVIOUS
  <2>1. CASE cur >= end
    BY <1>4, <2>1
  <2>2. CASE cur < end
    <3>1. SparseNext(segs, end, cur) \in Nat /\ SparseNext(segs, end, cur) > cur
      BY <1>0, <2>2, SparseAdvances
    <3>2. Fits(SparseNext(segs, end, cur))
      BY <1>7, <2>2, <3>1
    <3> QED BY <1>5, <1>6, <2>2, <3>2
  <2> QED BY <1>0, <2>1, <2>2
<1> HIDE DEF S
<1>8. Nat \subseteq S
  BY <1>0, <1>7, DownInduction
<1>9. Fits(at)
  BY <1>8 DEF S
<1> QED BY <1>2, <1>9 DEF segs

---------------------------------------------------------------------------
(***************************************************************************)
(* Reading.                                                                *)
(***************************************************************************)
Overlay == [at : Nat, data : Seq(Int)]
Overlays == Seq(Overlay)
Covers(overlay, o) == overlay.at <= o /\ o < overlay.at + Len(overlay.data)

\* The fields of an overlay.
LEMMA OverlayType ==
  ASSUME NEW overlays \in Overlays, NEW i \in DOMAIN overlays
  PROVE  /\ overlays[i].at \in Nat /\ overlays[i].data \in Seq(Int)
         /\ Len(overlays[i].data) \in Nat /\ i \in Nat /\ i > 0
<1>1. overlays[i] \in Overlay /\ i \in Nat /\ i > 0
  BY DEF Overlays
<1>2. overlays[i].at \in Nat /\ overlays[i].data \in Seq(Int)
  BY <1>1 DEF Overlay
<1>3. Len(overlays[i].data) \in Nat
  BY <1>2
<1> QED BY <1>1, <1>2, <1>3

\* OverlayAt is the last overlay with the byte, 0 if there is none.
LEMMA TopOverlay ==
  ASSUME NEW overlays \in Overlays, NEW o \in Nat
  PROVE  /\ OverlayAt(overlays, o) \in Nat
         /\ OverlayAt(overlays, o) > 0 =>
              /\ OverlayAt(overlays, o) \in DOMAIN overlays
              /\ Covers(overlays[OverlayAt(overlays, o)], o)
         /\ \A i \in DOMAIN overlays : Covers(overlays[i], o) => i <= OverlayAt(overlays, o)
<1> DEFINE C == {i \in DOMAIN overlays :
                   o \in overlays[i].at .. (overlays[i].at + Len(overlays[i].data) - 1)}
           S == {0} \cup C
<1>1. \A i \in DOMAIN overlays : i \in C <=> Covers(overlays[i], o)
  BY OverlayType DEF Covers
<1>2. Len(overlays) \in Nat /\ DOMAIN overlays = 1 .. Len(overlays)
  BY DEF Overlays
<1>3. C \in SUBSET DOMAIN overlays
  OBVIOUS
<1>4. OverlayAt(overlays, o) = Max(S)
  BY DEF OverlayAt
<1> HIDE DEF C
<1>5. S \in SUBSET Nat /\ S # {} /\ \A x \in S : x <= Len(overlays)
  BY <1>2, <1>3
<1> HIDE DEF S
<1>6. Max(S) \in S /\ \A y \in S : Max(S) >= y
  BY <1>2, <1>5, MaxOfNaturals
<1>7. Max(S) \in Nat
  BY <1>5, <1>6
<1>8. Max(S) > 0 => Max(S) \in C
  BY <1>6 DEF S
<1>9. \A i \in C : i <= Max(S)
  BY <1>2, <1>3, <1>6, <1>7 DEF S
<1> QED BY <1>1, <1>3, <1>4, <1>7, <1>8, <1>9

\* The byte x may be read at offset o of the disk: zero behind its end, the
\* latest overlay, or the byte of the volume the table leads to, if any.
Shows(vbio, o, x) ==
  LET top == OverlayAt(vbio.overlays, o)
  IN IF o >= vbio.size THEN x = Zero
     ELSE IF top > 0 THEN x = vbio.overlays[top].data[o - vbio.overlays[top].at + 1]
     ELSE \/ vbio.blocks # NoDevice /\ Maps(vbio.table.segs, o, x)
          \/ x = Zero /\ (vbio.blocks = NoDevice \/ \A a : ~Maps(vbio.table.segs, o, a))

\* Where an overlay lies on top, its byte is read.
LEMMA ShowsOverlay ==
  ASSUME NEW vbio, NEW o, NEW x, ~(o >= vbio.size), OverlayAt(vbio.overlays, o) > 0,
         x = vbio.overlays[OverlayAt(vbio.overlays, o)].data
               [o - vbio.overlays[OverlayAt(vbio.overlays, o)].at + 1]
  PROVE  Shows(vbio, o, x)
  BY Zenon DEF Shows

\* A successful read fills the whole buffer with bytes the disk shows.
THEOREM ReadShows ==
  ASSUME NEW vbio, vbio.table.segs \in Seq(Segment), vbio.size \in Nat,
         vbio.overlays \in Overlays, NEW at \in Nat, NEW count \in Nat,
         ReadVirtualBytes(vbio, at, count).status = "Success"
  PROVE  LET data == ReadVirtualBytes(vbio, at, count).data
         IN /\ data = [k \in 1 .. count |-> data[k]]
            /\ \A k \in 1 .. count : Shows(vbio, at + k - 1, data[k])
<1> DEFINE readable == Least(vbio.size - at, count)
           pieces == ToSet(TranslateRangeSparse(vbio.table, at, readable))
           Holding(k) == {q \in pieces : k \in q.dst .. (q.dst + q.count - 1)}
           Stored(k) ==
             LET p == {q \in pieces : k \in q.dst .. (q.dst + q.count - 1)}
             IN IF p = {} \/ vbio.blocks = NoDevice THEN Zero
                ELSE LET q == CHOOSE q \in p : TRUE IN q.physical + (k - q.dst)
           Byte(k) ==
             LET o == IF k < readable THEN OverlayAt(vbio.overlays, at + k) ELSE 0
             IN IF o > 0 THEN vbio.overlays[o].data[at + k - vbio.overlays[o].at + 1]
                ELSE Stored(k)
           answer == ReadVirtualBytes(vbio, at, count)
           data == answer.data
<1>1. CASE at >= vbio.size
  <2>1. data = [k \in 1 .. count |-> Zero]
    BY <1>1 DEF ReadVirtualBytes
  <2>2. ASSUME NEW k \in 1 .. count PROVE Shows(vbio, at + k - 1, data[k])
    <3>1. at + k - 1 >= vbio.size
      BY <1>1
    <3> QED BY <2>1, <3>1 DEF Shows
  <2> QED BY <2>1, <2>2
<1>2. CASE ~(at >= vbio.size)
  <2>1. data = [k \in 1 .. count |-> Byte(k - 1)]
    BY <1>2, Zenon DEF ReadVirtualBytes
  <2>2. readable \in Nat /\ readable <= count /\ readable <= vbio.size - at
        /\ (readable = count \/ readable = vbio.size - at)
    BY <1>2, LeastOfTwo
  <2>3. SparsePiecesFit(TranslateRangeSparse(vbio.table, at, readable),
                        vbio.table.segs, at, readable, at)
    <3> HIDE DEF readable
    <3> QED BY <2>2, SparseFits
  <2> HIDE DEF readable
  <2>4. pieces \subseteq Found
    BY <2>3, ToSetElements DEF SparsePiecesFit
  <2>5. ASSUME NEW k \in Nat, NEW q \in Holding(k)
        PROVE  k < readable /\ Maps(vbio.table.segs, at + k, q.physical + (k - q.dst))
    <3>1. q \in pieces /\ q.dst <= k /\ k < q.dst + q.count
      <4>1. q \in Found /\ q.dst \in Nat /\ q.count \in Nat
        BY <2>4 DEF Found
      <4> QED BY <4>1
    <3> QED BY <2>3, <3>1 DEF SparsePiecesFit
  <2>6. ASSUME NEW k \in Nat, NEW a, k < readable, Maps(vbio.table.segs, at + k, a)
        PROVE  Holding(k) # {}
    <3>1. at <= at + k
      OBVIOUS
    <3>2. PICK q \in pieces : q.dst <= k /\ k < q.dst + q.count
      BY <2>3, <2>6, <3>1 DEF SparsePiecesFit
    <3>3. q.dst \in Nat /\ q.count \in Nat
      BY <2>4 DEF Found
    <3>4. q \in Holding(k)
      BY <3>2, <3>3
    <3> QED BY <3>4
  <2>7. ASSUME NEW k \in Nat
        PROVE  Stored(k) = IF Holding(k) = {} \/ vbio.blocks = NoDevice THEN Zero
                           ELSE LET q == CHOOSE q \in Holding(k) : TRUE IN q.physical + (k - q.dst)
    OBVIOUS
  <2>8. ASSUME NEW k \in Nat
        PROVE  Byte(k) = LET o == IF k < readable THEN OverlayAt(vbio.overlays, at + k) ELSE 0
                         IN IF o > 0 THEN vbio.overlays[o].data[at + k - vbio.overlays[o].at + 1]
                            ELSE Stored(k)
    OBVIOUS
  <2> HIDE DEF Holding, Stored, Byte, pieces
  <2>9. ASSUME NEW k \in Nat, k < count PROVE Shows(vbio, at + k, Byte(k))
    <3>1. CASE ~(k < readable)
      <4>1. Holding(k) = {}
        BY <2>5, <3>1
      <4>2. Byte(k) = Zero
        <5>1. Byte(k) = Stored(k)
          BY <2>8, <3>1
        <5> QED BY <2>7, <4>1, <5>1, Zenon
      <4>3. at + k >= vbio.size
        BY <1>2, <2>2, <2>9, <3>1
      <4> QED BY <4>2, <4>3 DEF Shows
    <3>2. CASE k < readable
      <4> DEFINE top == OverlayAt(vbio.overlays, at + k)
      <4>1. ~(at + k >= vbio.size)
        BY <1>2, <2>2, <3>2
      <4>2. CASE top > 0
        <5>1. Byte(k) = vbio.overlays[top].data[at + k - vbio.overlays[top].at + 1]
          BY <2>8, <3>2, <4>2
        <5>2. PICK o \in Nat : o = at + k
          OBVIOUS
        <5>3. ~(o >= vbio.size) /\ OverlayAt(vbio.overlays, o) > 0
          BY <4>1, <4>2, <5>2
        <5>4. top \in DOMAIN vbio.overlays
          BY <5>2, <5>3, TopOverlay
        <5>5. vbio.overlays[top].at \in Nat
          BY <5>4, OverlayType
        <5> HIDE DEF top
        <5>6. at + k - vbio.overlays[top].at + 1 = o - vbio.overlays[top].at + 1
          BY <5>2, <5>5
        <5>7. Byte(k) = vbio.overlays[top].data[o - vbio.overlays[top].at + 1]
          BY <5>1, <5>6, Zenon
        <5>8. Shows(vbio, o, Byte(k))
          BY <5>2, <5>3, <5>7, ShowsOverlay, Zenon DEF top
        <5> QED BY <5>2, <5>8, Zenon
      <4>3. CASE ~(top > 0)
        <5>1. Byte(k) = Stored(k)
          BY <2>8, <3>2, <4>3
        <5>2. CASE vbio.blocks = NoDevice
          BY <2>7, <4>1, <4>3, <5>1, <5>2 DEF Shows
        <5>3. CASE vbio.blocks # NoDevice /\ Holding(k) = {}
          <6>1. \A a : ~Maps(vbio.table.segs, at + k, a)
            BY <2>6, <3>2, <5>3
          <6> QED BY <2>7, <4>1, <4>3, <5>1, <5>3, <6>1 DEF Shows
        <5>4. CASE vbio.blocks # NoDevice /\ Holding(k) # {}
          <6> DEFINE q == CHOOSE q \in Holding(k) : TRUE
          <6>1. q \in Holding(k)
            BY <5>4
          <6>2. Stored(k) = q.physical + (k - q.dst)
            BY <2>7, <5>4
          <6> HIDE DEF q
          <6>3. Maps(vbio.table.segs, at + k, Byte(k))
            BY <2>5, <5>1, <6>1, <6>2
          <6> QED BY <4>1, <4>3, <5>4, <6>3 DEF Shows
        <5> QED BY <5>2, <5>3, <5>4
      <4> QED BY <4>2, <4>3
    <3> QED BY <3>1, <3>2
  <2>10. ASSUME NEW k \in 1 .. count PROVE Shows(vbio, at + k - 1, data[k])
    <3>1. k - 1 \in Nat /\ k - 1 < count /\ at + (k - 1) = at + k - 1
      OBVIOUS
    <3>2. data[k] = Byte(k - 1)
      BY <2>1
    <3> HIDE DEF data
    <3>3. Shows(vbio, at + (k - 1), Byte(k - 1))
      BY <2>9, <3>1
    <3> QED BY <3>1, <3>2, <3>3
  <2> QED BY <2>1, <2>10
<1> QED BY <1>1, <1>2

\* A byte below the end of n blocks is in one of them.
LEMMA DivBelow ==
  ASSUME NEW x \in Nat, NEW n \in Nat, NEW k \in Nat, k > 0, x < n * k
  PROVE  x \div k < n
<1> DEFINE q == x \div k
<1>1. q \in Nat /\ q * k <= x
  OBVIOUS
<1> HIDE DEF q
<1>2. CASE q >= n
  <2>1. q * k >= n * k
    BY <1>1, <1>2
  <2>2. q * k \in Nat /\ n * k \in Nat
    BY <1>1
  <2> QED BY <1>1, <2>1, <2>2
<1> QED BY <1>1, <1>2 DEF q

\* A table that reaches to the end of the disk and stays on the volume makes
\* every read succeed.
LEMMA ReadSucceeds ==
  ASSUME NEW vbio, vbio.table.segs \in Seq(Segment), vbio.size \in Nat,
         vbio.table.total \in Nat, vbio.size <= vbio.table.total,
         PhysicalBlock \in Nat, PhysicalBlock > 0,
         \/ vbio.blocks = NoDevice
         \/ /\ vbio.blocks \in Nat
            /\ \A o \in Nat, a \in Nat : Maps(vbio.table.segs, o, a)
                                          => a < vbio.blocks * PhysicalBlock,
         NEW at \in Nat, NEW count \in Nat
  PROVE  ReadVirtualBytes(vbio, at, count).status = "Success"
<1> DEFINE readable == Least(vbio.size - at, count)
           pieces == ToSet(TranslateRangeSparse(vbio.table, at, readable))
           touched == UNION {BlocksOf(p) : p \in pieces}
           answer == ReadVirtualBytes(vbio, at, count)
<1>1. CASE at >= vbio.size
  BY <1>1 DEF ReadVirtualBytes
<1>2. CASE ~(at >= vbio.size)
  <2>1. readable \in Nat /\ readable <= vbio.size - at /\ ~(at + readable > vbio.table.total)
    BY <1>2, LeastOfTwo
  <2>2. CASE vbio.blocks = NoDevice
    BY <1>2, <2>1, <2>2 DEF ReadVirtualBytes
  <2>3. CASE vbio.blocks # NoDevice
    <3>1. ASSUME NEW p \in pieces, NEW b \in BlocksOf(p) PROVE ~(b >= vbio.blocks)
      <4>1. SparsePiecesFit(TranslateRangeSparse(vbio.table, at, readable),
                            vbio.table.segs, at, readable, at)
        <5> HIDE DEF readable
        <5> QED BY <2>1, SparseFits
      <4>2. p \in Found /\ p.count > 0
        BY <4>1, ToSetElements DEF SparsePiecesFit
      <4>3. p.dst \in Nat /\ p.count \in Nat /\ p.physical \in Nat
        BY <4>2 DEF Found
      <4> HIDE DEF pieces
      <4> DEFINE k == p.dst + p.count - 1
                 a == p.physical + (k - p.dst)
      <4>4. k \in Nat /\ p.dst <= k /\ k < p.dst + p.count /\ a \in Nat
            /\ a = p.physical + p.count - 1 /\ at + k \in Nat
        <5>1. p.dst + p.count - 1 \in Nat
          BY <4>2, <4>3
        <5>2. p.physical + (k - p.dst) = p.physical + p.count - 1
          BY <4>3
        <5>3. p.dst <= p.dst + p.count - 1 /\ p.dst + p.count - 1 < p.dst + p.count
          BY <4>2, <4>3
        <5>4. p.physical + p.count - 1 \in Nat
          BY <4>2, <4>3
        <5>5. at + (p.dst + p.count - 1) \in Nat
          BY <5>1
        <5> QED BY <5>1, <5>2, <5>3, <5>4, <5>5
      <4>5. Maps(vbio.table.segs, at + k, a)
        BY <4>1, <4>4 DEF SparsePiecesFit, pieces
      <4> HIDE DEF k, a
      <4>6. a < vbio.blocks * PhysicalBlock /\ vbio.blocks \in Nat
        BY <2>3, <4>4, <4>5
      <4>7. a \div PhysicalBlock < vbio.blocks
        BY <4>4, <4>6, DivBelow
      <4>8. b \in (p.physical \div PhysicalBlock) .. (a \div PhysicalBlock)
        BY <4>4 DEF BlocksOf
      <4>9. a \div PhysicalBlock \in Int /\ p.physical \div PhysicalBlock \in Int
        BY <4>3, <4>4
      <4> QED BY <4>6, <4>7, <4>8, <4>9
    <3>2. ~\E b \in touched : b >= vbio.blocks
      BY <3>1
    <3> HIDE DEF touched
    <3>3. answer = IF at >= vbio.size THEN [status |-> "Success", data |-> [k \in 1 .. count |-> Zero], touched |-> {}]
                   ELSE answer
      BY <1>2
    <3> QED BY <1>2, <2>1, <2>3, <3>2 DEF ReadVirtualBytes, touched
  <2> QED BY <2>2, <2>3
<1> QED BY <1>1, <1>2

---------------------------------------------------------------------------
(***************************************************************************)
(* Division.                                                               *)
(***************************************************************************)
LEMMA DivFacts ==
  ASSUME NEW o \in Nat, NEW k \in Nat, k > 0
  PROVE  /\ o \div k \in Nat /\ (o \div k) * k \in Nat /\ (o \div k + 1) * k \in Nat
         /\ (o \div k) * k <= o /\ o < (o \div k + 1) * k
         /\ o % k = o - (o \div k) * k
         /\ (o \div k + 1) * k = (o \div k) * k + k
  OBVIOUS

\* Products with a natural keep the order.
LEMMA Monotone ==
  ASSUME NEW a \in Nat, NEW b \in Nat, NEW k \in Nat, a <= b
  PROVE  a * k <= b * k /\ a * k \in Nat /\ b * k \in Nat
<1>1. PICK d \in Nat : b = a + d
  <2>1. b - a \in Nat /\ b = a + (b - a)
    OBVIOUS
  <2> QED BY <2>1
<1>2. b * k = a * k + d * k
  BY <1>1
<1>3. d * k \in Nat /\ a * k \in Nat /\ b * k \in Nat
  OBVIOUS
<1> QED BY <1>2, <1>3

\* The quotient of an offset is the block it lies in.
LEMMA DivRange ==
  ASSUME NEW o \in Nat, NEW k \in Nat, k > 0, NEW b \in Nat, b * k <= o, o < (b + 1) * k
  PROVE  o \div k = b /\ o % k = o - b * k
<1> DEFINE q == o \div k
<1>1. q \in Nat /\ q * k <= o /\ o < (q + 1) * k /\ o % k = o - q * k
      /\ q * k \in Nat /\ (q + 1) * k \in Nat
  BY DivFacts
<1> HIDE DEF q
<1>2. b * k \in Nat /\ (b + 1) * k \in Nat
  OBVIOUS
<1>3. ~(q + 1 <= b)
  <2> SUFFICES ASSUME q + 1 <= b PROVE FALSE
    OBVIOUS
  <2>1. (q + 1) * k <= b * k
    BY <1>1, Monotone
  <2> QED BY <1>1, <1>2, <2>1
<1>4. ~(b + 1 <= q)
  <2> SUFFICES ASSUME b + 1 <= q PROVE FALSE
    OBVIOUS
  <2>1. (b + 1) * k <= q * k
    BY <1>1, Monotone
  <2> QED BY <1>1, <1>2, <2>1
<1>5. q = b
  BY <1>1, <1>3, <1>4
<1> QED BY <1>1, <1>5 DEF q

\* DivUp counts the blocks of k bytes that hold v bytes.
LEMMA DivUpFacts ==
  ASSUME NEW v \in Nat, NEW k \in Nat, k > 0
  PROVE  /\ DivUp(v, k) \in Nat /\ DivUp(v, k) * k \in Nat /\ v <= DivUp(v, k) * k
         /\ DivUp(v, k) * k < v + k
         /\ \A b \in Nat : b < DivUp(v, k) <=> b * k < v
<1> DEFINE q == DivUp(v, k)
<1>1. q = (v + k - 1) \div k /\ v + k - 1 \in Nat
  BY DEF DivUp
<1>2. q \in Nat /\ q * k \in Nat /\ q * k <= v + k - 1 /\ v + k - 1 < (q + 1) * k
      /\ (q + 1) * k = q * k + k
  BY <1>1, DivFacts
<1> HIDE DEF q
<1>3. v <= q * k /\ q * k < v + k
  BY <1>2
<1>4. ASSUME NEW b \in Nat PROVE b < q <=> b * k < v
  <2>0. b * k \in Nat /\ (b + 1) * k = b * k + k
    OBVIOUS
  <2>1. ASSUME b < q PROVE b * k < v
    <3>1. (b + 1) * k <= q * k
      BY <1>2, <2>1, Monotone
    <3> QED BY <1>2, <1>3, <2>0, <3>1
  <2>2. ASSUME ~(b < q) PROVE ~(b * k < v)
    <3>1. q * k <= b * k
      BY <1>2, <2>2, Monotone
    <3> QED BY <1>2, <1>3, <2>0, <3>1
  <2> QED BY <2>1, <2>2
<1> QED BY <1>2, <1>3, <1>4 DEF q

\* The single run VirtualBlockIo::new maps reaches to the end of the disk.
LEMMA ContiguousTotal ==
  ASSUME NEW bytes \in Nat, NEW k \in Nat, k > 0, PhysicalBlock \in Nat
  PROVE  /\ Contiguous(0, bytes, k).segs \in Seq(Segment)
         /\ Contiguous(0, bytes, k).total \in Nat
         /\ bytes <= Contiguous(0, bytes, k).total
         /\ Contiguous(0, bytes, k)
              = [segs |-> Contiguous(0, bytes, k).segs, total |-> Contiguous(0, bytes, k).total]
<1> DEFINE n == DivUp(bytes, k) * k
           s == [start |-> 0, end |-> 0 + n, physical |-> 0 * PhysicalBlock]
<1>1. n \in Nat /\ bytes <= n
  BY DivUpFacts
<1> HIDE DEF n
<1>2. CASE n = 0
  <2>1. Contiguous(0, bytes, k) = Empty
    BY <1>2 DEF Contiguous, AddSegment, n
  <2>2. <<>> \in Seq(Segment) /\ 0 \in Nat /\ bytes <= 0
    BY <1>1, <1>2
  <2> DEFINE c == Contiguous(0, bytes, k)
  <2>3. c.segs = <<>> /\ c.total = 0
    BY <2>1 DEF Empty
  <2>4. c = [segs |-> c.segs, total |-> c.total]
    BY <2>1 DEF Empty
  <2> HIDE DEF c
  <2>5. c.segs \in Seq(Segment) /\ c.total \in Nat /\ bytes <= c.total
    BY <2>2, <2>3
  <2> QED BY <2>4, <2>5 DEF c
<1>3. CASE n # 0
  <2>1. Contiguous(0, bytes, k) = [segs |-> Append(<<>>, s), total |-> Max({0, 0 + n})]
    BY <1>3 DEF Contiguous, AddSegment, Empty, n
  <2>2. Max({0, 0 + n}) = n
    BY <1>1 DEF Max
  <2>3. s \in Segment
    BY <1>1 DEF Segment
  <2> HIDE DEF s
  <2>4. Append(<<>>, s) \in Seq(Segment)
    BY <2>3
  <2> DEFINE c == Contiguous(0, bytes, k)
  <2>5. c.segs = Append(<<>>, s) /\ c.total = n
    BY <2>1, <2>2
  <2>6. c = [segs |-> c.segs, total |-> c.total]
    BY <2>1
  <2> HIDE DEF c
  <2>7. c.segs \in Seq(Segment) /\ c.total \in Nat /\ bytes <= c.total
    BY <1>1, <2>4, <2>5
  <2> QED BY <2>6, <2>7 DEF c
<1> QED BY <1>2, <1>3
=============================================================================
