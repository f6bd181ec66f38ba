--------------------------- MODULE ConsoleProofs ---------------------------
(***************************************************************************)
(* Proofs about the console: nanoprintf prints every format as C says;     *)
(* and for every sequence of calls, with interrupts, refused requests and  *)
(* short writes at any point, the screen shows what the calls say, the     *)
(* lines of a hexdump included, and a panic is shown whole.                *)
(***************************************************************************)
EXTENDS Console, SequenceTheorems, WellFoundedInduction, FiniteSetTheorems, TLAPS

----------------------------------------------------------------------------
(* FlattenSeq, which puts the texts of requests together *)

\* A set of natural numbers has a least element.
LEMMA Least ==
    ASSUME NEW S, S \subseteq Nat, S # {}
    PROVE  \E m \in S : \A k \in S : m <= k
  <1>1. PICK m \in S : \A y \in S : ~(<<y, m>> \in OpToRel(<, Nat))
    BY NatLessThanWellFounded, WFMin
  <1>2. \A y \in S : ~(y < m)
    BY <1>1 DEF OpToRel
  <1> QED BY <1>2

\* What \o yields.
LEMMA ConcatIs ==
    \A S : \A a, b \in Seq(S) :
        /\ a \o b \in Seq(S)
        /\ Len(a \o b) = Len(a) + Len(b)
        /\ \A k \in 1 .. Len(a) + Len(b) :
             (a \o b)[k] = IF k <= Len(a) THEN a[k] ELSE b[k - Len(a)]
  BY ConcatProperties

\* The same under a name of its own, by which the provers find the instances.
Cat(a, b) == a \o b

\* It may be grouped in either way.
LEMMA CatGroups ==
    ASSUME NEW S, NEW a \in Seq(S), NEW b \in Seq(S), NEW c \in Seq(S)
    PROVE  Cat(Cat(a, b), c) = Cat(a, Cat(b, c))
  BY ConcatAssociative, SMT DEF Cat

\* F[i] is the first i of the sequences, put together.
IsFlat(s, n, F) == F = [i \in 1 .. n |-> IF i = 1 THEN s[i] ELSE F[i - 1] \o s[i]]

\* There is such a function for every number of sequences.
LEMMA FlatExists ==
    ASSUME NEW s, NEW n \in Nat
    PROVE  \E F : IsFlat(s, n, F)
  <1> DEFINE S == {m \in Nat : ~ \E F : IsFlat(s, m, F)}
  <1>1. ASSUME S # {} PROVE FALSE
    <2>1. PICK m \in S : \A k \in S : m <= k
      BY <1>1, Least
    <2>2. CASE m = 0
      <3> DEFINE F == [i \in 1 .. 0 |-> 0]
      <3>1. F = [i \in 1 .. 0 |-> IF i = 1 THEN s[i] ELSE F[i - 1] \o s[i]]
        OBVIOUS
      <3> HIDE DEF F
      <3>2. IsFlat(s, 0, F)
        BY <3>1 DEF IsFlat
      <3> QED BY <2>1, <2>2, <3>2
    <2>3. CASE m # 0
      <3>1. m \in Nat \ {0} /\ m - 1 \in Nat /\ m - 1 \notin S
        BY <2>1, <2>3
      <3>2. PICK F : IsFlat(s, m - 1, F)
        BY <3>1
      <3> DEFINE G == [i \in 1 .. m |-> IF i < m THEN F[i]
                                        ELSE IF i = 1 THEN s[i] ELSE F[i - 1] \o s[i]]
                 H == [i \in 1 .. m |-> IF i = 1 THEN s[i] ELSE G[i - 1] \o s[i]]
      <3>3. ASSUME NEW i \in 1 .. m PROVE G[i] = H[i]
        <4>1. \A j \in 1 .. m - 1 : F[j] = IF j = 1 THEN s[j] ELSE F[j - 1] \o s[j]
          BY <3>2 DEF IsFlat
        <4>2. i # 1 => G[i - 1] = F[i - 1]
          BY <3>1
        <4>3. H[i] = IF i = 1 THEN s[i] ELSE F[i - 1] \o s[i]
          <5> HIDE DEF G
          <5> QED BY <4>2
        <4>4. G[i] = IF i = 1 THEN s[i] ELSE F[i - 1] \o s[i]
          <5>1. CASE i < m
            <6>1. i \in 1 .. m - 1
              BY <3>1, <5>1
            <6> QED BY <4>1, <5>1, <6>1
          <5>2. CASE ~(i < m)
            BY <5>2
          <5> QED BY <5>1, <5>2
        <4> HIDE DEF G, H
        <4> QED BY <4>3, <4>4
      <3>4. G = H
        <4>1. G = [i \in 1 .. m |-> G[i]]
          BY Zenon
        <4>2. H = [i \in 1 .. m |-> H[i]]
          <5> HIDE DEF G
          <5> QED BY Zenon
        <4> HIDE DEF G, H
        <4> QED BY <3>3, <4>1, <4>2, Zenon
      <3>5. IsFlat(s, m, G)
        <4> HIDE DEF G
        <4> QED BY <3>4 DEF IsFlat
      <3> QED BY <2>1, <3>5
    <2> QED BY <2>2, <2>3
  <1> QED BY <1>1

\* What it yields are sequences of the same elements.
LEMMA FlatTyped ==
    ASSUME NEW S, NEW s \in Seq(Seq(S)), NEW F, IsFlat(s, Len(s), F)
    PROVE  \A i \in 1 .. Len(s) : F[i] \in Seq(S)
  <1> DEFINE B == {i \in 1 .. Len(s) : F[i] \notin Seq(S)}
  <1>1. \A i \in 1 .. Len(s) : F[i] = IF i = 1 THEN s[i] ELSE F[i - 1] \o s[i]
    BY DEF IsFlat
  <1>2. \A i \in 1 .. Len(s) : s[i] \in Seq(S)
    OBVIOUS
  <1>3. ASSUME B # {} PROVE FALSE
    <2>1. B \subseteq Nat
      OBVIOUS
    <2>2. PICK m \in B : \A k \in B : m <= k
      BY <1>3, <2>1, Least
    <2>3. m # 1
      BY <1>1, <1>2, <2>2
    <2>4. m \in 1 .. Len(s) /\ m - 1 \in 1 .. Len(s) /\ m - 1 \notin B
      BY <2>2, <2>3
    <2>5. F[m - 1] \in Seq(S) /\ s[m] \in Seq(S)
      BY <1>2, <2>4
    <2>6. F[m] = F[m - 1] \o s[m]
      BY <1>1, <2>3, <2>4
    <2>7. F[m] \in Seq(S)
      BY <2>5, <2>6, ConcatProperties
    <2> QED BY <2>2, <2>7
  <1> QED BY <1>3

\* FlattenSeq is the last value of such a function.
LEMMA FlattenIs ==
    ASSUME NEW S, NEW s \in Seq(Seq(S))
    PROVE  /\ Len(s) = 0 => FlattenSeq(s) = <<>>
           /\ Len(s) # 0 => \E F : IsFlat(s, Len(s), F) /\ FlattenSeq(s) = F[Len(s)]
           /\ FlattenSeq(s) \in Seq(S)
  <1>1. CASE Len(s) = 0
    <2>1. FlattenSeq(s) = s
      BY <1>1 DEF FlattenSeq
    <2>2. s = <<>>
      BY <1>1, EmptySeq
    <2> QED BY <1>1, <2>1, <2>2
  <1>2. CASE Len(s) # 0
    <2>1. \E F : IsFlat(s, Len(s), F)
      BY FlatExists, LenProperties
    <2> DEFINE G == CHOOSE F : IsFlat(s, Len(s), F)
    <2>2. IsFlat(s, Len(s), G)
      BY <2>1
    <2>3. FlattenSeq(s) = G[Len(s)]
      BY <1>2, Zenon DEF FlattenSeq, IsFlat
    <2> HIDE DEF G
    <2>4. Len(s) \in 1 .. Len(s)
      BY <1>2
    <2>5. G[Len(s)] \in Seq(S)
      BY <2>2, <2>4, FlatTyped
    <2> QED BY <1>2, <2>2, <2>3, <2>5
  <1> QED BY <1>1, <1>2

\* The first sequence goes in front of the rest, put together.
LEMMA FlattenCons ==
    ASSUME NEW S, NEW s \in Seq(Seq(S)), s # <<>>
    PROVE  FlattenSeq(s) = Head(s) \o FlattenSeq(Tail(s))
  <1>1. PICK n, t : n = Len(s) /\ t = Tail(s)
    OBVIOUS
  <1>2. n \in Nat \ {0} /\ Head(s) = s[1] /\ s[1] \in Seq(S)
    BY <1>1, EmptySeq
  <1>3. t \in Seq(Seq(S)) /\ Len(t) = n - 1 /\ \A i \in 1 .. n - 1 : t[i] = s[i + 1]
    BY <1>1, HeadTailProperties
  <1>4. PICK F : IsFlat(s, n, F) /\ FlattenSeq(s) = F[n]
    BY <1>1, <1>2, FlattenIs
  <1>5. \A i \in 1 .. n : F[i] = IF i = 1 THEN s[i] ELSE F[i - 1] \o s[i]
    BY <1>4 DEF IsFlat
  <1>6. CASE n = 1
    <2>0. Len(t) = 0
      BY <1>3, <1>6
    <2>1. FlattenSeq(t) = <<>>
      BY <1>3, <2>0, FlattenIs, Zenon
    <2>2. FlattenSeq(s) = s[1]
      BY <1>4, <1>5, <1>6
    <2>3. s[1] \o <<>> = s[1]
      BY <1>2, ConcatEmptySeq
    <2> QED BY <1>1, <1>2, <2>1, <2>2, <2>3
  <1>7. CASE n # 1
    <2>1. Len(t) # 0 /\ n - 1 \in 1 .. n - 1
      BY <1>2, <1>3, <1>7
    <2>2. PICK G : IsFlat(t, n - 1, G) /\ FlattenSeq(t) = G[n - 1]
      BY <1>3, <2>1, FlattenIs
    <2>3. \A i \in 1 .. n - 1 : G[i] = IF i = 1 THEN t[i] ELSE G[i - 1] \o t[i]
      BY <2>2 DEF IsFlat
    <2>4. \A i \in 1 .. n - 1 : G[i] \in Seq(S)
      BY <1>3, <2>2, FlatTyped
    <2> DEFINE B == {i \in 1 .. n - 1 : F[i + 1] # s[1] \o G[i]}
    <2>5. ASSUME B # {} PROVE FALSE
      <3>1. PICK m \in B : \A k \in B : m <= k
        <4>0. 1 .. n - 1 \subseteq Nat
          BY <1>2
        <4>1. B \subseteq Nat
          BY <4>0, Zenon
        <4> QED BY <2>5, <4>1, Least
      <3>2. m \in 1 .. n - 1 /\ m + 1 \in 1 .. n /\ m + 1 # 1 /\ (m + 1) - 1 = m /\ m \in Nat
        BY <1>2, <3>1
      <3>3. F[m + 1] = F[m] \o s[m + 1]
        BY <1>5, <3>2
      <3>4. t[m] = s[m + 1] /\ t[m] \in Seq(S)
        BY <1>3, <3>2
      <3>5. CASE m = 1
        <4>1. F[1] = s[1]
          BY <1>2, <1>5
        <4>2. G[m] = t[m]
          BY <2>3, <3>2, <3>5
        <4>3. F[m + 1] = s[1] \o G[m]
          BY <3>3, <3>4, <3>5, <4>1, <4>2
        <4> QED BY <3>1, <4>3
      <3>6. CASE m # 1
        <4>1. m - 1 \in 1 .. n - 1 /\ m - 1 \notin B /\ (m - 1) + 1 = m
          <5>1. m - 1 \in 1 .. n - 1 /\ (m - 1) + 1 = m /\ ~(m <= m - 1)
            BY <1>2, <3>2, <3>6
          <5> HIDE DEF B
          <5> QED BY <3>1, <5>1, Zenon
        <4>2. F[m] = s[1] \o G[m - 1]
          BY <4>1
        <4>3. G[m] = G[m - 1] \o t[m]
          BY <2>3, <3>2, <3>6
        <4>4. G[m - 1] \in Seq(S)
          BY <2>4, <4>1
        <4>5. (s[1] \o G[m - 1]) \o t[m] = s[1] \o (G[m - 1] \o t[m])
          <5>1. s[1] \in Seq(S) /\ G[m - 1] \in Seq(S) /\ t[m] \in Seq(S)
            BY <1>2, <3>4, <4>4
          <5>2. Cat(Cat(s[1], G[m - 1]), t[m]) = Cat(s[1], Cat(G[m - 1], t[m]))
            BY <5>1, CatGroups
          <5> QED BY <5>2, Zenon DEF Cat
        <4>6. F[m + 1] = s[1] \o G[m]
          BY <3>3, <3>4, <4>2, <4>3, <4>5, Zenon
        <4> QED BY <3>1, <4>6
      <3> QED BY <3>5, <3>6
    <2>6. F[(n - 1) + 1] = s[1] \o G[n - 1]
      BY <2>1, <2>5
    <2>7. (n - 1) + 1 = n
      BY <1>2
    <2> QED BY <1>1, <1>2, <1>4, <2>2, <2>6, <2>7
  <1> QED BY <1>6, <1>7

\* Sequences of one element each make up the sequence of those elements.
LEMMA FlattenUnits ==
    ASSUME NEW S, NEW t \in Seq(S), NEW s \in Seq(Seq(S)), Len(s) = Len(t),
           \A i \in 1 .. Len(t) : s[i] = <<t[i]>>
    PROVE  FlattenSeq(s) = t
  <1>1. PICK n : n = Len(t)
    OBVIOUS
  <1>2. n \in Nat
    BY <1>1
  <1>3. CASE n = 0
    <2>1. FlattenSeq(s) = <<>>
      BY <1>1, <1>3, FlattenIs
    <2>2. t = <<>>
      BY <1>1, <1>3, EmptySeq
    <2> QED BY <2>1, <2>2
  <1>4. CASE n # 0
    <2>1. PICK F : IsFlat(s, n, F) /\ FlattenSeq(s) = F[n]
      BY <1>1, <1>4, FlattenIs
    <2>2. \A i \in 1 .. n : F[i] = IF i = 1 THEN s[i] ELSE F[i - 1] \o s[i]
      BY <2>1 DEF IsFlat
    <2>3. \A i \in 1 .. n : F[i] \in Seq(S)
      BY <1>1, <2>1, FlatTyped
    <2> DEFINE Good(i) == Len(F[i]) = i /\ \A k \in 1 .. i : F[i][k] = t[k]
               B == {i \in 1 .. n : ~Good(i)}
    <2>4. ASSUME B # {} PROVE FALSE
      <3>1. PICK m \in B : \A k \in B : m <= k
        <4>1. B \subseteq Nat
          BY <1>2
        <4> QED BY <2>4, <4>1, Least
      <3>2. m \in 1 .. n /\ s[m] = <<t[m]>> /\ t[m] \in S
        BY <1>1, <3>1
      <3>3. CASE m = 1
        <4>1. F[m] = <<t[m]>>
          BY <2>2, <3>2, <3>3
        <4>2. Good(m)
          BY <3>3, <4>1
        <4> QED BY <3>1, <4>2
      <3>4. CASE m # 1
        <4>1. m - 1 \in 1 .. n /\ m - 1 \notin B
          BY <1>2, <3>1, <3>2, <3>4
        <4>2. PICK f : f = F[m - 1]
          OBVIOUS
        <4>3. f \in Seq(S) /\ Len(f) = m - 1 /\ \A k \in 1 .. m - 1 : f[k] = t[k]
          BY <2>3, <4>1, <4>2
        <4>4. F[m] = f \o <<t[m]>>
          BY <2>2, <3>2, <3>4, <4>2
        <4>5. /\ Len(f \o <<t[m]>>) = m
              /\ \A k \in 1 .. m : (f \o <<t[m]>>)[k] = t[k]
          <5>1. PICK u : u = <<t[m]>>
            OBVIOUS
          <5>2. u \in Seq(S) /\ Len(u) = 1 /\ u[1] = t[m]
            BY <3>2, <5>1
          <5>3. /\ Len(f \o u) = Len(f) + Len(u)
                /\ \A k \in 1 .. Len(f) + Len(u) :
                     (f \o u)[k] = IF k <= Len(f) THEN f[k] ELSE u[k - Len(f)]
            <6>1. f \in Seq(S) /\ u \in Seq(S)
              BY <4>3, <5>2
            <6> QED BY ONLY <6>1, ConcatIs
          <5>4. ASSUME NEW k \in 1 .. m PROVE (f \o u)[k] = t[k]
            <6>1. CASE k <= m - 1
              BY <3>2, <4>3, <5>2, <5>3, <6>1
            <6>2. CASE ~(k <= m - 1)
              <7>1. k = m /\ k - Len(f) = 1
                BY <3>2, <4>3, <6>2
              <7> QED BY <3>2, <4>3, <5>2, <5>3, <6>2, <7>1
            <6> QED BY <6>1, <6>2
          <5>5. Len(f \o u) = m
            BY <3>2, <4>3, <5>2, <5>3
          <5> QED BY <5>1, <5>4, <5>5
        <4>6. Good(m)
          BY <4>4, <4>5
        <4> QED BY <3>1, <4>6
      <3> QED BY <3>3, <3>4
    <2>5. n \in 1 .. n
      BY <1>2, <1>4
    <2>6. PICK f : f = F[n]
      OBVIOUS
    <2>7. f \in Seq(S) /\ Len(f) = n /\ \A k \in 1 .. n : f[k] = t[k]
      BY <2>3, <2>4, <2>5, <2>6
    <2>8. f = t
      BY <1>1, <2>7, SeqEqual
    <2> QED BY <2>1, <2>6, <2>8
  <1> QED BY <1>3, <1>4

----------------------------------------------------------------------------
(* Powers and digits *)

\* The law of exponentiation, which the provers know for constants only, for the
\* bases of numerals and for registers.
Base == {2, 8, 10, 16}
PowerLaw == \A b \in Base : b^0 = 1 /\ \A k \in Nat : b^k \in Nat /\ b^(k + 1) = b * b^k

\* A power.  Under this name the provers see what is stated of it.
Pow(b, k) == b^k

\* What is needed of powers.
LEMMA PowIs ==
    ASSUME PowerLaw, NEW b \in Base
    PROVE  /\ Pow(b, 0) = 1 /\ Pow(b, 1) = b
           /\ \A k \in Nat : Pow(b, k) \in Int /\ Pow(b, k + 1) = b * Pow(b, k)
  <1>1. Pow(b, 0) = 1
    BY Zenon DEF Pow, PowerLaw
  <1>2. \A k \in Nat : Pow(b, k) \in Nat
    BY Zenon DEF Pow, PowerLaw
  <1>3. \A k \in Nat : Pow(b, k + 1) = b * Pow(b, k)
    BY Zenon DEF Pow, PowerLaw
  <1>4. Pow(b, 1) = b
    <2>1. Pow(b, 0 + 1) = b * Pow(b, 0)
      BY <1>3
    <2>2. b \in Nat
      BY DEF Base
    <2> QED BY <1>1, <2>1, <2>2
  <1> QED BY <1>1, <1>2, <1>3, <1>4

\* The bases.
LEMMA BaseIs ==
    ASSUME NEW b \in Base
    PROVE  b \in Nat /\ b >= 2 /\ b <= 16
  BY DEF Base

\* Products with a base grow ...
LEMMA TimesGrows ==
    ASSUME NEW b \in Base, NEW x \in Int, x >= 1
    PROVE  b * x \in Int /\ b * x > x
  <1>1. b = 2 \/ b = 8 \/ b = 10 \/ b = 16
    BY DEF Base
  <1> QED BY <1>1

\* ... and keep the order.
LEMMA TimesOrder ==
    ASSUME NEW b \in Base, NEW x \in Int, NEW y \in Int
    PROVE  /\ b * x \in Int /\ b * y \in Int
           /\ x <= y => b * x <= b * y
           /\ x < y => b * x + b <= b * y
           /\ b * (x + y) = b * x + b * y
  <1>1. b = 2 \/ b = 8 \/ b = 10 \/ b = 16
    BY DEF Base
  <1> QED BY <1>1

\* Quotient and remainder by a base.
LEMMA DivBase ==
    ASSUME NEW b \in Base, NEW m \in Nat
    PROVE  /\ m \div b \in Nat /\ m % b \in 0 .. b - 1
           /\ b * (m \div b) <= m /\ m < b * (m \div b) + b
           /\ m < b => m \div b = 0 /\ m % b = m
           /\ m >= b => m \div b # 0 /\ m \div b < m
  <1>1. CASE b = 2
    BY <1>1
  <1>2. CASE b = 8
    BY <1>2
  <1>3. CASE b = 10
    BY <1>3
  <1>4. CASE b = 16
    BY <1>4
  <1> QED BY <1>1, <1>2, <1>3, <1>4 DEF Base

\* They are positive ...
LEMMA PowPositive ==
    ASSUME PowerLaw, NEW b \in Base
    PROVE  \A k \in Nat : Pow(b, k) \in Nat \ {0}
  <1> DEFINE B == {k \in Nat : Pow(b, k) \notin Nat \ {0}}
  <1>1. ASSUME B # {} PROVE FALSE
    <2>1. PICK m \in B : \A k \in B : m <= k
      <3>1. B \subseteq Nat
        OBVIOUS
      <3> QED BY <1>1, <3>1, Least
    <2>2. m # 0
      BY <2>1, PowIs
    <2>3. m - 1 \in Nat /\ m - 1 \notin B /\ (m - 1) + 1 = m
      BY <2>1, <2>2
    <2>4. PICK x : x = Pow(b, m - 1)
      OBVIOUS
    <2>5. x \in Nat \ {0}
      BY <2>3, <2>4
    <2>6. Pow(b, m) = b * x
      BY <2>3, <2>4, PowIs
    <2>7. b * x \in Nat \ {0}
      <3>0. x \in Int /\ x >= 1
        BY <2>5
      <3>1. b * x > x /\ b * x \in Int
        BY <3>0, TimesGrows, Zenon
      <3>2. PICK y : y = b * x
        OBVIOUS
      <3> QED BY <2>5, <3>1, <3>2
    <2> QED BY <2>1, <2>6, <2>7
  <1> QED BY <1>1

\* ... and grow with the exponent ...
LEMMA PowGrows ==
    ASSUME PowerLaw, NEW b \in Base, NEW j \in Nat
    PROVE  \A k \in Nat : j <= k => Pow(b, j) <= Pow(b, k)
  <1> DEFINE B == {k \in Nat : j <= k /\ ~(Pow(b, j) <= Pow(b, k))}
  <1>1. ASSUME B # {} PROVE FALSE
    <2>1. PICK m \in B : \A k \in B : m <= k
      <3>1. B \subseteq Nat
        OBVIOUS
      <3> QED BY <1>1, <3>1, Least
    <2>2. m \in Nat /\ j <= m /\ ~(Pow(b, j) <= Pow(b, m))
      BY <2>1
    <2>3. m # j
      BY <2>2, PowIs
    <2>4. m - 1 \in Nat /\ j <= m - 1 /\ ~(m <= m - 1) /\ (m - 1) + 1 = m
      BY <2>2, <2>3
    <2>5. Pow(b, j) <= Pow(b, m - 1)
      BY <2>1, <2>4
    <2>6. PICK x, y : x = Pow(b, m - 1) /\ y = Pow(b, j)
      OBVIOUS
    <2>7. Pow(b, m) = b * x /\ x \in Nat \ {0} /\ y \in Nat
      BY <2>4, <2>6, PowIs, PowPositive
    <2>8. y <= b * x
      <3>0. x \in Int /\ x >= 1
        BY <2>7
      <3>1. b * x > x /\ b * x \in Int
        BY <3>0, TimesGrows, Zenon
      <3> QED BY <2>5, <2>6, <2>7, <3>1
    <2> QED BY <2>2, <2>6, <2>7, <2>8
  <1> QED BY <1>1

\* ... and with the base, from 2 on.
LEMMA PowAbove ==
    ASSUME PowerLaw, NEW b \in Base
    PROVE  \A k \in Nat : Pow(2, k) <= Pow(b, k)
  <1> DEFINE B == {k \in Nat : ~(Pow(2, k) <= Pow(b, k))}
  <1>0. 2 \in Base
    BY DEF Base
  <1>1. ASSUME B # {} PROVE FALSE
    <2>1. PICK m \in B : \A k \in B : m <= k
      <3>1. B \subseteq Nat
        OBVIOUS
      <3> QED BY <1>1, <3>1, Least
    <2>2. m \in Nat /\ ~(Pow(2, m) <= Pow(b, m))
      BY <2>1
    <2>3. m # 0
      BY <1>0, <2>2, PowIs
    <2>4. m - 1 \in Nat /\ ~(m <= m - 1) /\ (m - 1) + 1 = m
      BY <2>2, <2>3
    <2>5. Pow(2, m - 1) <= Pow(b, m - 1)
      BY <2>1, <2>4
    <2>6. PICK x, y : x = Pow(2, m - 1) /\ y = Pow(b, m - 1)
      OBVIOUS
    <2>7. Pow(2, m) = 2 * x /\ Pow(b, m) = b * y /\ x \in Nat /\ y \in Nat
      BY <1>0, <2>4, <2>6, PowIs, PowPositive
    <2>8. 2 * x <= b * y
      <3>1. x <= y
        BY <2>5, <2>6
      <3>2. CASE b = 2
        BY <2>7, <3>1, <3>2
      <3>3. CASE b = 8
        BY <2>7, <3>1, <3>3
      <3>4. CASE b = 10
        BY <2>7, <3>1, <3>4
      <3>5. CASE b = 16
        BY <2>7, <3>1, <3>5
      <3> QED BY <3>2, <3>3, <3>4, <3>5 DEF Base
    <2> QED BY <2>2, <2>7, <2>8
  <1> QED BY <1>1

\* m has k digits in base b.
Digits(b, m, k) == k \in Nat \ {0} /\ Pow(b, k - 1) <= m /\ m < Pow(b, k)

\* The number of digits is unique.
LEMMA DigitsUnique ==
    ASSUME PowerLaw, NEW b \in Base, NEW m \in Nat, NEW j, NEW k, Digits(b, m, j), Digits(b, m, k)
    PROVE  j = k
  <1>1. ASSUME NEW c, NEW d, Digits(b, m, c), Digits(b, m, d), c < d PROVE FALSE
    <2>1. c \in Nat /\ d - 1 \in Nat /\ c <= d - 1
      BY <1>1 DEF Digits
    <2>2. Pow(b, c) <= Pow(b, d - 1)
      BY <2>1, PowGrows
    <2>3. m < Pow(b, c) /\ Pow(b, d - 1) <= m /\ Pow(b, c) \in Int /\ Pow(b, d - 1) \in Int
      BY <1>1, <2>1, PowIs DEF Digits
    <2> QED BY <2>2, <2>3
  <1>2. j \in Nat /\ k \in Nat
    BY DEF Digits
  <1> QED BY <1>1, <1>2

\* One more digit than the quotient.
LEMMA DigitsUp ==
    ASSUME PowerLaw, NEW b \in Base, NEW m \in Nat \ {0}
    PROVE  /\ m < b => Digits(b, m, 1) /\ m \div b = 0
           /\ m >= b => m \div b \in Nat \ {0} /\ m \div b < m
           /\ \A k : m >= b /\ Digits(b, m \div b, k) => Digits(b, m, k + 1)
  <1>1. m < b => Digits(b, m, 1) /\ m \div b = 0
    BY PowIs, DivBase DEF Digits
  <1>2. m >= b => m \div b \in Nat \ {0} /\ m \div b < m
    BY DivBase
  <1>3. ASSUME NEW k, m >= b, Digits(b, m \div b, k) PROVE Digits(b, m, k + 1)
    <2>1. PICK d : d = m \div b
      OBVIOUS
    <2>2. d \in Nat /\ b * d <= m /\ m < b * d + b
      BY <2>1, DivBase
    <2>3. k \in Nat \ {0} /\ k - 1 \in Nat /\ (k - 1) + 1 = k /\ (k + 1) - 1 = k
      BY <1>3 DEF Digits
    <2>4. PICK x, y : x = Pow(b, k - 1) /\ y = Pow(b, k)
      OBVIOUS
    <2>5. x \in Int /\ y \in Int /\ y = b * x /\ Pow(b, k + 1) = b * y
      BY <2>3, <2>4, PowIs
    <2>6. x <= d /\ d < y
      BY <1>3, <2>1, <2>4 DEF Digits
    <2>7. y <= m /\ m < b * y
      <3>1. b * x <= b * d /\ b * d + b <= b * y /\ b * d \in Int /\ b * y \in Int /\ b * x \in Int
        <4>1. d \in Int
          BY <2>2
        <4> QED BY <2>5, <2>6, <4>1, TimesOrder, Zenon
      <3>2. PICK bx, bd, by : bx = b * x /\ bd = b * d /\ by = b * y
        OBVIOUS
      <3>3. b \in Nat
        BY BaseIs
      <3> QED BY <2>2, <2>5, <3>1, <3>2, <3>3
    <2>8. Pow(b, (k + 1) - 1) <= m /\ m < Pow(b, k + 1)
      BY <2>3, <2>4, <2>5, <2>7
    <2>9. k + 1 \in Nat \ {0}
      BY <2>3
    <2> QED BY <2>8, <2>9 DEF Digits
  <1> QED BY <1>1, <1>2, <1>3

\* Every number but 0 has digits.
LEMMA DigitsExist ==
    ASSUME PowerLaw, NEW b \in Base
    PROVE  \A m \in Nat \ {0} : \E k : Digits(b, m, k)
  <1> DEFINE B == {m \in Nat \ {0} : ~ \E k : Digits(b, m, k)}
  <1>0. b \in Nat
    BY BaseIs
  <1>1. ASSUME B # {} PROVE FALSE
    <2>1. PICK m \in B : \A k \in B : m <= k
      <3>1. B \subseteq Nat
        OBVIOUS
      <3> QED BY <1>1, <3>1, Least
    <2>2. m \in Nat \ {0} /\ ~ \E k : Digits(b, m, k)
      BY <2>1
    <2>3. m >= b
      BY <1>0, <2>2, DigitsUp
    <2>4. PICK d : d = m \div b
      OBVIOUS
    <2>5. d \in Nat \ {0} /\ ~(m <= d)
      BY <2>2, <2>3, <2>4, DigitsUp
    <2>6. PICK k : Digits(b, d, k)
      BY <2>1, <2>5
    <2>7. Digits(b, m, k + 1)
      BY <2>2, <2>3, <2>4, <2>6, DigitsUp
    <2> QED BY <2>2, <2>7
  <1> QED BY <1>1

\* A quotient is unique.
LEMMA DivUnique ==
    ASSUME NEW x \in Nat, NEW y \in Nat \ {0}, NEW q \in Int, y * q <= x, x < y * q + y
    PROVE  x \div y = q
  <1>1. PICK r : r = x \div y
    OBVIOUS
  <1>2. r \in Int /\ y * r <= x /\ x < y * r + y
    BY <1>1
  <1>3. ASSUME NEW s \in Int, NEW t \in Int, s < t, x < y * s + y, y * t <= x PROVE FALSE
    <2>1. y * (s + 1) <= y * t
      BY <1>3
    <2>2. y * (s + 1) = y * s + y
      OBVIOUS
    <2> QED BY <1>3, <2>1, <2>2
  <1>4. ~(q < r) /\ ~(r < q)
    BY <1>2, <1>3
  <1>5. r = q
    BY <1>2, <1>4
  <1> QED BY <1>1, <1>5

\* Dividing by a base and then by c.
LEMMA DivDiv ==
    ASSUME NEW b \in Base, NEW v \in Nat, NEW c \in Nat \ {0}
    PROVE  (v \div b) \div c = v \div (b * c)
  <1>1. PICK d : d = v \div b
    OBVIOUS
  <1>2. d \in Nat /\ b * d <= v /\ v < b * d + b
    BY <1>1, DivBase
  <1>3. PICK q : q = d \div c
    OBVIOUS
  <1>4. q \in Int /\ c * q <= d /\ d < c * q + c
    BY <1>2, <1>3
  <1>5. PICK m, y : m = c * q /\ y = b * c
    OBVIOUS
  <1>6. m \in Int
    BY <1>4, <1>5
  <1>7. b \in Nat /\ y \in Nat \ {0}
    <2>1. c \in Int /\ c >= 1
      OBVIOUS
    <2>2. b * c > c /\ b * c \in Int
      BY <2>1, TimesGrows, Zenon
    <2> QED BY <1>5, <2>1, <2>2, BaseIs
  <1>8. b * m <= b * d /\ b * d + b <= b * (m + c) /\ b * (m + c) = b * m + b * c
    <2>1. m <= d /\ d < m + c /\ m + c \in Int /\ d \in Int /\ c \in Int
      BY <1>2, <1>4, <1>5, <1>6
    <2> QED BY <1>6, <2>1, TimesOrder, Zenon
  <1>9. y * q = b * m
    BY <1>4, <1>5, <1>7
  <1>10. y * q <= v /\ v < y * q + y
    <2>1. PICK bm, bd, yq : bm = b * m /\ bd = b * d /\ yq = y * q
      OBVIOUS
    <2>2. bm \in Int /\ bd \in Int /\ yq = bm
      BY <1>2, <1>6, <1>7, <1>9, <2>1
    <2>3. bm <= bd /\ bd + b <= bm + y /\ bd <= v /\ v < bd + b
      BY <1>2, <1>5, <1>8, <2>1
    <2> QED BY <1>7, <2>1, <2>2, <2>3
  <1>11. v \div y = q
    BY <1>4, <1>7, <1>10, DivUnique
  <1> QED BY <1>1, <1>3, <1>5, <1>11

----------------------------------------------------------------------------
(* npf_utoa_rev and the numerals of C *)

\* The number of digits that are printed.
Count(b, v) == IF v = 0 THEN 1 ELSE CHOOSE k : Digits(b, v, k)

\* It is one more than that of the quotient, down to 1.
LEMMA CountIs ==
    ASSUME PowerLaw, NEW b \in Base, NEW v \in Nat
    PROVE  /\ Count(b, v) \in Nat \ {0} /\ (v = 0 => Count(b, v) = 1) /\ (v # 0 => Digits(b, v, Count(b, v)))
           /\ v \div b \in Nat
           /\ v \div b = 0 => Count(b, v) = 1
           /\ v \div b # 0 => Count(b, v) = Count(b, v \div b) + 1
  <1>1. \A m \in Nat \ {0} : Digits(b, m, Count(b, m))
    BY DigitsExist DEF Count
  <1>2. \A m \in Nat : m = 0 => Count(b, m) = 1
    BY DEF Count
  <1>3. \A m \in Nat : Count(b, m) \in Nat \ {0}
    BY <1>1, <1>2 DEF Digits
  <1>4. PICK d : d = v \div b
    OBVIOUS
  <1>5. d \in Nat /\ (v < b => d = 0) /\ (v >= b => d # 0) /\ b \in Nat
    BY <1>4, DivBase, BaseIs, Zenon
  <1>6. d = 0 => Count(b, v) = 1
    <2> SUFFICES ASSUME d = 0, v # 0 PROVE Count(b, v) = 1
      BY <1>2
    <2>1. v < b
      BY <1>5
    <2>2. Digits(b, v, 1)
      BY <2>1, DigitsUp
    <2> QED BY <1>1, <2>2, DigitsUnique
  <1>7. d # 0 => Count(b, v) = Count(b, d) + 1
    <2> SUFFICES ASSUME d # 0 PROVE Count(b, v) = Count(b, d) + 1
      OBVIOUS
    <2>1. v >= b /\ v # 0
      BY <1>5, BaseIs
    <2>2. Digits(b, d, Count(b, d))
      BY <1>1, <1>5
    <2>3. Digits(b, v, Count(b, d) + 1)
      BY <1>4, <2>1, <2>2, DigitsUp
    <2> QED BY <1>1, <2>1, <2>3, DigitsUnique
  <1> QED BY <1>1, <1>2, <1>3, <1>4, <1>5, <1>6, <1>7

\* The character of a digit, the function that npf_utoa_rev defines by recursion,
\* and what it computes.
DigitChar(d, adj) == d + (IF d < 10 THEN Ch.ZERO ELSE Ch.A - 10 + adj)
IsRev(g, b, adj) ==
    g = [v \in Nat |-> <<DigitChar(v % b, adj)>> \o (IF v \div b = 0 THEN <<>> ELSE g[v \div b])]
RevDigit(b, adj, v, k) == DigitChar((v \div Pow(b, k - 1)) % b, adj)
Rev(b, adj, v) == [k \in 1 .. Count(b, v) |-> RevDigit(b, adj, v, k)]

\* The digits are characters, and those of the quotient.
LEMMA RevDigitIs ==
    ASSUME PowerLaw, NEW b \in Base, NEW adj \in Nat, NEW v \in Nat, NEW k \in Nat \ {0}
    PROVE  /\ RevDigit(b, adj, v, k) \in Nat
           /\ RevDigit(b, adj, v, 1) = DigitChar(v % b, adj)
           /\ RevDigit(b, adj, v, k + 1) = RevDigit(b, adj, v \div b, k)
  <1>1. \A d \in Nat : DigitChar(d, adj) \in Nat
    BY DEF DigitChar, Ch
  <1>2. ASSUME NEW m \in Nat, NEW y \in Nat \ {0} PROVE m \div y \in Nat
    BY <1>2
  <1>3. k - 1 \in Nat /\ (k + 1) - 1 = (k - 1) + 1
    OBVIOUS
  <1>4. PICK y : y = Pow(b, k - 1)
    OBVIOUS
  <1>5. y \in Nat \ {0} /\ Pow(b, (k - 1) + 1) = b * y
    BY <1>3, <1>4, PowIs, PowPositive
  <1>6. RevDigit(b, adj, v, k) \in Nat
    <2>1. v \div y \in Nat
      BY <1>2, <1>5
    <2>2. (v \div y) % b \in 0 .. b - 1 /\ b \in Nat
      BY <2>1, DivBase, BaseIs
    <2>3. (v \div y) % b \in Nat
      BY <2>2
    <2> QED BY <1>1, <1>4, <2>3 DEF RevDigit
  <1>7. RevDigit(b, adj, v, 1) = DigitChar(v % b, adj)
    <2>1. v \div Pow(b, 1 - 1) = v
      <3>1. Pow(b, 0) = 1 /\ 1 - 1 = 0
        BY PowIs
      <3>2. v \div 1 = v
        OBVIOUS
      <3> QED BY <3>1, <3>2
    <2> QED BY <2>1, Zenon DEF RevDigit
  <1>8. RevDigit(b, adj, v, k + 1) = RevDigit(b, adj, v \div b, k)
    <2>1. (v \div b) \div y = v \div (b * y)
      BY <1>5, DivDiv, Zenon
    <2> QED BY <1>3, <1>4, <1>5, <2>1, Zenon DEF RevDigit
  <1> QED BY <1>6, <1>7, <1>8

\* Rev satisfies the equation.
LEMMA RevCons ==
    ASSUME PowerLaw, NEW b \in Base, NEW adj \in Nat, NEW v \in Nat
    PROVE  /\ Rev(b, adj, v) \in Seq(Nat) /\ Len(Rev(b, adj, v)) = Count(b, v)
           /\ Rev(b, adj, v) = <<DigitChar(v % b, adj)>> \o
                               (IF v \div b = 0 THEN <<>> ELSE Rev(b, adj, v \div b))
  <1>1. ASSUME NEW m \in Nat
        PROVE  /\ Rev(b, adj, m) \in Seq(Nat) /\ Len(Rev(b, adj, m)) = Count(b, m)
               /\ \A k \in 1 .. Count(b, m) : Rev(b, adj, m)[k] = RevDigit(b, adj, m, k)
    <2>1. Count(b, m) \in Nat
      BY CountIs
    <2>2. \A k \in 1 .. Count(b, m) : RevDigit(b, adj, m, k) \in Nat
      <3>1. \A k \in 1 .. Count(b, m) : k \in Nat \ {0}
        BY <2>1
      <3> QED BY <3>1, RevDigitIs
    <2>3. Rev(b, adj, m) = [k \in 1 .. Count(b, m) |-> RevDigit(b, adj, m, k)]
      BY DEF Rev
    <2> QED BY <2>1, <2>2, <2>3
  <1>2. PICK n, d, r, c : n = Count(b, v) /\ d = v \div b /\ r = Rev(b, adj, v) /\ c = DigitChar(v % b, adj)
    BY Zenon
  <1>3. r \in Seq(Nat) /\ Len(r) = n /\ \A k \in 1 .. n : r[k] = RevDigit(b, adj, v, k)
    BY <1>1, <1>2, Zenon
  <1>4. n \in Nat \ {0} /\ d \in Nat /\ (d = 0 => n = 1) /\ (d # 0 => n = Count(b, d) + 1)
    BY <1>2, CountIs
  <1>5. r[1] = c /\ c \in Nat
    <2>1. 1 \in 1 .. n /\ 1 \in Nat \ {0}
      BY <1>4
    <2>2. RevDigit(b, adj, v, 1) = c
      BY <1>2, <2>1, RevDigitIs
    <2> QED BY <1>3, <2>1, <2>2
  <1>6. CASE d = 0
    <2>1. <<c>> \in Seq(Nat) /\ <<c>> \o <<>> = <<c>>
      BY <1>5, ConcatEmptySeq
    <2>2. r = <<c>>
      <3>1. Len(<<c>>) = 1 /\ <<c>>[1] = c
        OBVIOUS
      <3>2. PICK u : u = <<c>>
        OBVIOUS
      <3>3. Len(r) = Len(u) /\ \A k \in 1 .. Len(r) : r[k] = u[k]
        BY <1>3, <1>4, <1>5, <1>6, <3>1, <3>2
      <3> QED BY <1>3, <2>1, <3>2, <3>3, SeqEqual
    <2> QED BY <1>2, <1>3, <1>6, <2>1, <2>2, Zenon
  <1>7. CASE d # 0
    <2>1. PICK t, u : t = Rev(b, adj, d) /\ u = <<c>>
      BY Zenon
    <2>2. t \in Seq(Nat) /\ Len(t) = n - 1 /\ \A k \in 1 .. n - 1 : t[k] = RevDigit(b, adj, d, k)
      <3>1. Count(b, d) = n - 1
        BY <1>4, <1>7, CountIs
      <3> QED BY <1>1, <1>4, <2>1, <3>1, Zenon
    <2>3. u \in Seq(Nat) /\ Len(u) = 1 /\ u[1] = c
      BY <1>5, <2>1
    <2>4. PICK w : w = u \o t
      OBVIOUS
    <2>5. /\ w \in Seq(Nat) /\ Len(w) = Len(u) + Len(t)
          /\ \A k \in 1 .. Len(u) + Len(t) : w[k] = IF k <= Len(u) THEN u[k] ELSE t[k - Len(u)]
      <3>1. u \in Seq(Nat) /\ t \in Seq(Nat)
        BY <2>2, <2>3
      <3> QED BY ONLY <2>4, <3>1, ConcatIs
    <2>6. Len(w) = n
      BY <1>4, <2>2, <2>3, <2>5
    <2>7. ASSUME NEW k \in 1 .. n PROVE r[k] = w[k]
      <3>1. CASE k = 1
        <4>1. w[1] = c
          BY <1>4, <2>2, <2>3, <2>5
        <4> QED BY <1>5, <3>1, <4>1
      <3>2. CASE k # 1
        <4>1. PICK j : j = k - 1
          OBVIOUS
        <4>2. j \in Nat \ {0} /\ j \in 1 .. n - 1 /\ j + 1 = k
          BY <1>4, <3>2, <4>1
        <4>3. w[k] = t[j]
          BY <1>4, <2>2, <2>3, <2>5, <3>2, <4>1
        <4>4. RevDigit(b, adj, v, j + 1) = RevDigit(b, adj, v \div b, j)
          BY <4>2, RevDigitIs
        <4> QED BY <1>2, <1>3, <2>2, <4>2, <4>3, <4>4, Zenon
      <3> QED BY <3>1, <3>2
    <2>8. r = w
      BY <1>3, <2>5, <2>6, <2>7, SeqEqual
    <2> QED BY <1>2, <1>3, <1>7, <2>1, <2>4, <2>8, Zenon
  <1> QED BY <1>6, <1>7

\* npf_utoa_rev computes it.
LEMMA UtoaIs ==
    ASSUME PowerLaw, NEW b \in Base, NEW adj \in Nat, NEW v \in Nat
    PROVE  npf_utoa_rev(v, b, adj) = Rev(b, adj, v)
  <1> DEFINE C == [m \in Nat |-> Rev(b, adj, m)]
             Next(g, m) == <<DigitChar(m % b, adj)>> \o (IF m \div b = 0 THEN <<>> ELSE g[m \div b])
  <1>1. ASSUME NEW m \in Nat PROVE C[m] = Next(C, m)
    <2>1. m \div b \in Nat
      BY DivBase
    <2>2. C[m] = Rev(b, adj, m) /\ C[m \div b] = Rev(b, adj, m \div b)
      BY <2>1
    <2> HIDE DEF C
    <2> QED BY <2>2, RevCons, Zenon
  <1>2. \E g : IsRev(g, b, adj)
    <2>1. C = [m \in Nat |-> C[m]]
      BY Zenon
    <2> HIDE DEF C
    <2>2. C = [m \in Nat |-> Next(C, m)]
      <3> HIDE DEF Next
      <3> QED BY <1>1, <2>1, Zenon
    <2>3. IsRev(C, b, adj)
      BY <2>2, Zenon DEF IsRev
    <2> QED BY <2>3
  <1> DEFINE G == CHOOSE g : IsRev(g, b, adj)
  <1>3. IsRev(G, b, adj)
    BY <1>2, Zenon
  <1>4. npf_utoa_rev(v, b, adj) = G[v]
    BY Zenon DEF npf_utoa_rev, IsRev, DigitChar
  <1> HIDE DEF G
  <1>5. \A m \in Nat : G[m] = Next(G, m)
    <2> DEFINE E(g) == [m \in Nat |-> Next(g, m)]
    <2>1. G = E(G)
      BY <1>3, Zenon DEF IsRev
    <2>2. \A m \in Nat : E(G)[m] = Next(G, m)
      <3> HIDE DEF Next
      <3> QED BY Zenon
    <2> HIDE DEF E, Next
    <2> QED BY <2>1, <2>2, Zenon
  <1> DEFINE B == {m \in Nat : G[m] # Rev(b, adj, m)}
  <1>6. ASSUME B # {} PROVE FALSE
    <2>1. PICK m \in B : \A k \in B : m <= k
      <3>1. B \subseteq Nat
        OBVIOUS
      <3> QED BY <1>6, <3>1, Least
    <2>2. m \in Nat /\ G[m] # Rev(b, adj, m)
      BY <2>1
    <2>3. m \div b # 0 => G[m \div b] = Rev(b, adj, m \div b)
      <3>1. PICK d : d = m \div b
        OBVIOUS
      <3>2. d # 0 => d \in Nat /\ ~(m <= d)
        <4>1. b \in Nat /\ d \in Nat /\ (m < b => d = 0) /\ (m >= b => d < m)
          BY <2>2, <3>1, DivBase, BaseIs, Zenon
        <4> QED BY <2>2, <4>1
      <3> QED BY <2>1, <3>1, <3>2
    <2>4. G[m] = Next(G, m)
      BY <1>5, <2>2
    <2>5. G[m] = Rev(b, adj, m)
      BY <2>2, <2>3, <2>4, RevCons, Zenon
    <2> QED BY <2>2, <2>5
  <1>7. G[v] = Rev(b, adj, v)
    BY <1>6
  <1> QED BY <1>4, <1>7

\* The digits that a numeral of C consists of, as nanoprintf makes them.
Table(upper) ==
    <<48, 49, 50, 51, 52, 53, 54, 55, 56, 57>> \o
    (IF upper THEN <<65, 66, 67, 68, 69, 70>> ELSE <<97, 98, 99, 100, 101, 102>>)
Adjust(upper) == IF upper THEN 0 ELSE Ch.a - Ch.A

\* A digit of the table is the one that npf_utoa_rev makes.
LEMMA TableIs ==
    ASSUME NEW upper \in BOOLEAN, NEW d \in 0 .. 15
    PROVE  Table(upper)[d + 1] = DigitChar(d, Adjust(upper)) /\ Adjust(upper) \in Nat
  <1>1. PICK s, t : /\ s = <<48, 49, 50, 51, 52, 53, 54, 55, 56, 57>>
                    /\ t = IF upper THEN <<65, 66, 67, 68, 69, 70>> ELSE <<97, 98, 99, 100, 101, 102>>
    BY Zenon
  <1>2. /\ s \in Seq(Nat) /\ Len(s) = 10
        /\ s[1] = 48 /\ s[2] = 49 /\ s[3] = 50 /\ s[4] = 51 /\ s[5] = 52
        /\ s[6] = 53 /\ s[7] = 54 /\ s[8] = 55 /\ s[9] = 56 /\ s[10] = 57
    BY <1>1
  <1>3. /\ t \in Seq(Nat) /\ Len(t) = 6
        /\ \A k \in 1 .. 6 : t[k] = (IF upper THEN 64 ELSE 96) + k
    <2>1. CASE upper
      <3>1. t = <<65, 66, 67, 68, 69, 70>>
        BY <1>1, <2>1
      <3> QED BY <2>1, <3>1
    <2>2. CASE ~upper
      <3>1. t = <<97, 98, 99, 100, 101, 102>>
        BY <1>1, <2>2
      <3> QED BY <2>2, <3>1
    <2> QED BY <2>1, <2>2
  <1>4. \A k \in 1 .. 10 : s[k] = 47 + k
    <2>1. \A k \in 1 .. 10 : k \in {1, 2, 3, 4, 5, 6, 7, 8, 9, 10}
      OBVIOUS
    <2>2. \A k \in {1, 2, 3, 4, 5, 6, 7, 8, 9, 10} : s[k] = 47 + k
      BY ONLY <1>2
    <2> QED BY ONLY <2>1, <2>2
  <1>5. PICK w : w = s \o t
    OBVIOUS
  <1>6. \A k \in 1 .. Len(s) + Len(t) : w[k] = IF k <= Len(s) THEN s[k] ELSE t[k - Len(s)]
    <2>1. s \in Seq(Nat) /\ t \in Seq(Nat)
      BY <1>2, <1>3
    <2> QED BY ONLY <1>5, <2>1, ConcatIs
  <1>7. Table(upper) = w
    BY <1>1, <1>5, Zenon DEF Table
  <1>8. w[d + 1] = IF d < 10 THEN d + 48 ELSE d + ((IF upper THEN 64 ELSE 96) - 9)
    <2>1. d + 1 \in 1 .. Len(s) + Len(t)
      BY <1>2, <1>3
    <2>2. w[d + 1] = IF d + 1 <= 10 THEN s[d + 1] ELSE t[d + 1 - 10]
      BY <1>2, <1>6, <2>1
    <2>3. CASE d < 10
      <3>1. d + 1 \in 1 .. 10
        BY <2>3
      <3>2. s[d + 1] = 47 + (d + 1)
        BY <1>4, <3>1
      <3> QED BY <2>2, <2>3, <3>2
    <2>4. CASE ~(d < 10)
      <3>1. d + 1 - 10 \in 1 .. 6
        BY <2>4
      <3>2. t[d + 1 - 10] = (IF upper THEN 64 ELSE 96) + (d + 1 - 10)
        BY <1>3, <3>1
      <3>3. w[d + 1] = t[d + 1 - 10]
        BY <2>2, <2>4
      <3> QED BY <2>4, <3>2, <3>3
    <2> QED BY <2>3, <2>4
  <1>9. Adjust(upper) = IF upper THEN 0 ELSE 32
    BY DEF Adjust, Ch
  <1>10. DigitChar(d, Adjust(upper)) = d + (IF d < 10 THEN 48 ELSE 65 - 10 + Adjust(upper))
    BY DEF DigitChar, Ch
  <1> QED BY <1>7, <1>8, <1>9, <1>10

\* A numeral has as many digits as were counted.
LEMMA NumeralIs ==
    ASSUME PowerLaw, NEW b \in Base, NEW upper \in BOOLEAN, NEW v \in Nat, Count(b, v) <= LONG_BITS
    PROVE  Numeral(v, b, upper) = [k \in 1 .. Count(b, v) |->
                                     Table(upper)[((v \div Pow(b, Count(b, v) - k)) % b) + 1]]
  <1>1. PICK n : n = Count(b, v)
    OBVIOUS
  <1>2. n \in Nat \ {0} /\ (v = 0 => n = 1) /\ (v # 0 => Digits(b, v, n)) /\ n <= LONG_BITS
    BY <1>1, CountIs
  <1>3. LONG_BITS \in Nat /\ n \in 1 .. LONG_BITS
    BY <1>2, BitsAssumption
  <1> DEFINE Fits(k) == v < b^k /\ (k = 1 \/ b^(k - 1) <= v)
  <1>4. Fits(n)
    <2>1. v < Pow(b, n) /\ (n = 1 \/ Pow(b, n - 1) <= v)
      <3>1. CASE v = 0
        <4>1. Pow(b, 1) = b /\ b \in Nat /\ b >= 2
          BY PowIs, BaseIs
        <4> QED BY <1>2, <3>1, <4>1
      <3>2. CASE v # 0
        BY <1>2, <3>2 DEF Digits
      <3> QED BY <3>1, <3>2
    <2> QED BY <2>1, Zenon DEF Pow
  <1>5. ASSUME NEW k \in 1 .. LONG_BITS, Fits(k) PROVE k = n
    <2>1. v < Pow(b, k) /\ (k = 1 \/ Pow(b, k - 1) <= v)
      BY <1>5, Zenon DEF Pow
    <2>2. k \in Nat \ {0} /\ k - 1 \in Nat
      BY <1>3
    <2>3. CASE v = 0
      <3>1. Pow(b, k - 1) \in Nat \ {0}
        BY <2>2, PowPositive
      <3> QED BY <1>2, <2>1, <2>3, <3>1
    <2>4. CASE v # 0
      <3>1. Digits(b, v, k)
        <4>1. Pow(b, k - 1) <= v
          <5>1. k = 1 => k - 1 = 0
            BY <2>2
          <5>2. Pow(b, 0) <= v
            BY <2>4, PowIs
          <5> QED BY <2>1, <5>1, <5>2
        <4> QED BY <2>1, <2>2, <4>1 DEF Digits
      <3> QED BY <1>2, <2>4, <3>1, DigitsUnique
    <2> QED BY <2>3, <2>4
  <1> DEFINE chosen == CHOOSE k \in 1 .. LONG_BITS : Fits(k)
             Digit(c, k) == Table(upper)[((v \div b^(c - k)) % b) + 1]
  <1>6. chosen = n
    <2> HIDE DEF Fits
    <2> QED BY <1>3, <1>4, <1>5, Zenon
  <1>7. Numeral(v, b, upper) = [k \in 1 .. chosen |-> Digit(chosen, k)]
    BY Zenon DEF Numeral, Table
  <1>8. Numeral(v, b, upper) = [k \in 1 .. n |-> Digit(n, k)]
    <2> HIDE DEF chosen, Digit
    <2> QED BY <1>6, <1>7, Zenon
  <1> QED BY <1>1, <1>8, Zenon DEF Pow

\* What nanoprintf prints of a number are the digits of C.
LEMMA NumeralPrinted ==
    ASSUME PowerLaw, NEW b \in Base, NEW upper \in BOOLEAN, NEW v \in Nat, Count(b, v) <= LONG_BITS
    PROVE  /\ Reverse(npf_utoa_rev(v, b, Adjust(upper))) = Numeral(v, b, upper)
           /\ Numeral(v, b, upper) \in Seq(Nat) /\ Len(Numeral(v, b, upper)) = Count(b, v)
  <1>1. PICK n, r, adj : n = Count(b, v) /\ adj = Adjust(upper) /\ r = Rev(b, adj, v)
    BY Zenon
  <1>2. n \in Nat \ {0}
    BY <1>1, CountIs
  <1>3. adj \in Nat
    <2>1. 0 \in 0 .. 15
      OBVIOUS
    <2> QED BY <1>1, <2>1, TableIs
  <1>4. r \in Seq(Nat) /\ Len(r) = n /\ npf_utoa_rev(v, b, adj) = r
    BY <1>1, <1>3, RevCons, UtoaIs
  <1>5. \A k \in 1 .. n : r[k] = RevDigit(b, adj, v, k)
    <2>1. r = [k \in 1 .. n |-> RevDigit(b, adj, v, k)]
      BY <1>1 DEF Rev
    <2> QED BY <2>1
  <1> DEFINE T(k) == Table(upper)[((v \div Pow(b, n - k)) % b) + 1]
  <1>6. ASSUME NEW k \in 1 .. n PROVE T(k) = r[n - k + 1]
    <2>1. n - k \in Nat /\ n - k + 1 \in 1 .. n /\ (n - k + 1) - 1 = n - k
      BY <1>2
    <2>2. PICK y : y = Pow(b, n - k)
      OBVIOUS
    <2>3. y \in Nat \ {0}
      BY <2>1, <2>2, PowPositive
    <2>4. PICK q : q = v \div y
      OBVIOUS
    <2>5. q \in Nat
      BY <2>3, <2>4
    <2>6. PICK d : d = q % b
      OBVIOUS
    <2>7. d \in 0 .. 15
      <3>1. d \in 0 .. b - 1 /\ b \in Nat /\ b <= 16
        BY <2>5, <2>6, DivBase, BaseIs
      <3> QED BY <3>1
    <2>8. T(k) = Table(upper)[d + 1]
      BY <2>2, <2>4, <2>6
    <2>9. r[n - k + 1] = DigitChar(d, adj)
      <3>1. RevDigit(b, adj, v, n - k + 1) = DigitChar(d, adj)
        BY <2>1, <2>2, <2>4, <2>6, Zenon DEF RevDigit
      <3> QED BY <1>5, <2>1, <3>1
    <2>10. Table(upper)[d + 1] = DigitChar(d, adj)
      BY <1>1, <2>7, TableIs
    <2> QED BY <2>8, <2>9, <2>10
  <1>7. Numeral(v, b, upper) = [k \in 1 .. n |-> T(k)]
    <2> DEFINE N(m) == [k \in 1 .. m |-> Table(upper)[((v \div Pow(b, m - k)) % b) + 1]]
    <2>1. Numeral(v, b, upper) = N(Count(b, v))
      BY NumeralIs
    <2>2. Numeral(v, b, upper) = N(n)
      <3> HIDE DEF N
      <3> QED BY <1>1, <2>1
    <2> QED BY <2>2, Zenon
  <1>8. Reverse(r) = [k \in 1 .. n |-> r[n - k + 1]]
    <2>1. (n - 1) + 1 = n
      BY <1>2
    <2>2. DOMAIN r = 1 .. n
      BY <1>4
    <2> QED BY <1>4, Zenon DEF Reverse
  <1> HIDE DEF T
  <1>9. Reverse(r) = Numeral(v, b, upper)
    BY <1>6, <1>7, <1>8, Zenon
  <1>10. Reverse(r) \in Seq(Nat) /\ Len(Reverse(r)) = n
    <2>1. \A k \in 1 .. n : r[n - k + 1] \in Nat
      BY <1>2, <1>4
    <2> QED BY <1>2, <1>8, <2>1
  <1> QED BY <1>1, <1>4, <1>9, <1>10, Zenon

----------------------------------------------------------------------------
(* What a directive prints for its argument *)

\* Remainders by a register's number of values.
LEMMA ModRegister ==
    ASSUME NEW y \in Nat \ {0}
    PROVE  /\ \A x \in Nat : x % y \in Nat /\ x % y < y
           /\ \A x \in Int : -y < x /\ x < 0 => x % y = x + y
  <1>1. ASSUME NEW x \in Nat PROVE x % y \in Nat /\ x % y < y
    OBVIOUS
  <1>2. ASSUME NEW x \in Int, -y < x, x < 0 PROVE x % y = x + y
    <2>1. x % y \in 0 .. y - 1 /\ x \div y \in Int
      OBVIOUS
    <2>2. x = y * (x \div y) + (x % y)
      OBVIOUS
    <2>3. PICK q, r : q = x \div y /\ r = x % y
      OBVIOUS
    <2>4. q \in Int /\ r \in 0 .. y - 1 /\ x = y * q + r
      BY <2>1, <2>2, <2>3
    <2>5. ASSUME q >= 0 PROVE FALSE
      <3>1. y * q >= 0
        BY <2>4, <2>5
      <3> QED BY <1>2, <2>4, <3>1
    <2>6. ASSUME q <= -2 PROVE FALSE
      <3>1. y * q <= -2 * y
        BY <2>4, <2>6
      <3> QED BY <1>2, <2>4, <3>1
    <2>7. q = -1
      BY <2>4, <2>5, <2>6
    <2>8. y * q = -y
      BY <2>7
    <2> QED BY <2>3, <2>4, <2>8
  <1> QED BY <1>1, <1>2

\* The widths of int and long.
LEMMA WidthIs ==
    ASSUME PowerLaw, NEW w \in {INT_BITS, LONG_BITS}
    PROVE  /\ Pow(2, w) \in Nat \ {0} /\ Pow(2, w - 1) \in Nat \ {0} /\ Pow(2, LONG_BITS) \in Nat \ {0}
           /\ Pow(2, w) = 2 * Pow(2, w - 1) /\ Pow(2, w) <= Pow(2, LONG_BITS)
  <1>1. 2 \in Base
    BY DEF Base
  <1>2. w \in Nat /\ w - 1 \in Nat /\ (w - 1) + 1 = w /\ LONG_BITS \in Nat /\ w <= LONG_BITS
    BY BitsAssumption
  <1>3. Pow(2, w) <= Pow(2, LONG_BITS)
    BY <1>1, <1>2, PowGrows
  <1>4. Pow(2, w) = 2 * Pow(2, w - 1)
    BY <1>1, <1>2, PowIs
  <1> QED BY <1>1, <1>2, <1>3, <1>4, PowPositive

\* The digits of what a register holds are no more than its bits.
LEMMA CountFits ==
    ASSUME PowerLaw, NEW b \in Base, NEW v \in Nat, v < Pow(2, LONG_BITS)
    PROVE  Count(b, v) <= LONG_BITS
  <1>1. LONG_BITS \in Nat \ {0}
    BY BitsAssumption
  <1>2. PICK n : n = Count(b, v)
    OBVIOUS
  <1>3. n \in Nat \ {0} /\ (v = 0 => n = 1) /\ (v # 0 => Digits(b, v, n))
    BY <1>2, CountIs
  <1>4. CASE v = 0
    BY <1>1, <1>2, <1>3, <1>4
  <1>5. CASE v # 0
    <2>1. n - 1 \in Nat /\ Pow(b, n - 1) <= v
      BY <1>3, <1>5 DEF Digits
    <2>2. PICK x, y, z : x = Pow(b, n - 1) /\ y = Pow(2, LONG_BITS) /\ z = Pow(b, LONG_BITS)
      BY Zenon
    <2>3. x \in Int /\ z \in Int /\ y <= z
      BY <1>1, <2>1, <2>2, PowIs, PowAbove
    <2>4. y \in Int
      BY <2>2, WidthIs
    <2>5. ~(z <= x)
      BY <2>1, <2>2, <2>3, <2>4
    <2>6. ~(LONG_BITS <= n - 1)
      BY <1>1, <2>1, <2>2, <2>5, PowGrows
    <2> QED BY <1>1, <1>2, <1>3, <2>6
  <1> QED BY <1>4, <1>5

\* A signed argument: its sign, and the number whose digits follow it.
LEMMA SignedIs ==
    ASSUME PowerLaw, NEW long \in BOOLEAN, NEW reg \in Nat
    PROVE  LET w == IF long THEN LONG_BITS ELSE INT_BITS
               low == reg % 2^w
               negative == low \div 2^(w - 1) = 1
               signed == SignedArg(long, reg)
               uval == IF signed < 0 THEN (0 - (signed % 2^LONG_BITS)) % 2^LONG_BITS ELSE signed
               val == IF negative THEN 2^w - low ELSE low
           IN  (signed < 0 <=> negative) /\ uval = val /\ val \in Nat /\ val < 2^LONG_BITS
  <1>1. PICK w : w = IF long THEN LONG_BITS ELSE INT_BITS
    OBVIOUS
  <1>2. w \in {INT_BITS, LONG_BITS}
    BY <1>1
  <1>3. PICK x, h, z : x = Pow(2, w) /\ h = Pow(2, w - 1) /\ z = Pow(2, LONG_BITS)
    BY Zenon
  <1>4. x \in Nat \ {0} /\ h \in Nat \ {0} /\ z \in Nat \ {0} /\ x = 2 * h /\ x <= z
    BY <1>2, <1>3, WidthIs
  <1>5. x = 2^w /\ h = 2^(w - 1) /\ z = 2^LONG_BITS
    BY <1>3, Zenon DEF Pow
  <1>6. PICK low : low = reg % x
    OBVIOUS
  <1>7. low \in Nat /\ low < x
    BY <1>4, <1>6, ModRegister
  <1>8. PICK signed : signed = IF low >= h THEN low - x ELSE low
    OBVIOUS
  <1>9. SignedArg(long, reg) = signed
    BY <1>1, <1>5, <1>6, <1>8, Zenon DEF SignedArg
  <1>10. low \div h = 1 <=> low >= h
    <2>1. CASE low >= h
      <3>1. h * 1 <= low /\ low < h * 1 + h
        BY <1>4, <1>7, <2>1
      <3> QED BY <1>4, <1>7, <2>1, <3>1, DivUnique
    <2>2. CASE ~(low >= h)
      <3>1. h * 0 <= low /\ low < h * 0 + h
        BY <1>4, <1>7, <2>2
      <3>2. low \div h = 0
        BY <1>4, <1>7, <3>1, DivUnique
      <3> QED BY <2>2, <3>2
    <2> QED BY <2>1, <2>2
  <1> DEFINE uval == IF signed < 0 THEN (0 - (signed % z)) % z ELSE signed
             val == IF low \div h = 1 THEN x - low ELSE low
  <1>11. (signed < 0 <=> low \div h = 1) /\ uval = val /\ val \in Nat /\ val < z
    <2>1. CASE low >= h
      <3>1. signed = low - x /\ signed < 0 /\ -z < signed /\ signed \in Int
        BY <1>4, <1>7, <1>8, <2>1
      <3>2. signed % z = signed + z
        BY <1>4, <3>1, ModRegister
      <3>3. PICK t : t = 0 - (signed + z)
        OBVIOUS
      <3>4. t \in Int /\ -z < t /\ t < 0 /\ t + z = x - low
        BY <1>4, <1>7, <3>1, <3>3
      <3>5. t % z = t + z
        BY <1>4, <3>4, ModRegister
      <3>6. uval = x - low
        BY <3>1, <3>2, <3>3, <3>4, <3>5
      <3>7. val = x - low
        BY <1>10, <2>1
      <3>8. x - low \in Nat /\ x - low < z
        BY <1>4, <1>7, <2>1
      <3> HIDE DEF uval, val
      <3> QED BY <1>10, <2>1, <3>1, <3>6, <3>7, <3>8
    <2>2. CASE ~(low >= h)
      <3>1. signed = low /\ ~(signed < 0)
        BY <1>4, <1>7, <1>8, <2>2
      <3>2. low < z
        BY <1>4, <1>7
      <3> QED BY <1>7, <1>10, <2>2, <3>1, <3>2
    <2> QED BY <2>1, <2>2
  <1> QED BY <1>1, <1>5, <1>6, <1>9, <1>11, Zenon

\* The cases of npf_convert.
LEMMA ConvertChar ==
    ASSUME NEW fs, NEW arg, fs.conv = Ch.c
    PROVE  npf_convert(fs, arg) = <<arg % 256>>
  <1>1. fs.conv # Ch.PCT /\ fs.conv # Ch.s /\ fs.conv \notin SignedConv
    BY DEF Ch, SignedConv
  <1> QED BY <1>1, Zenon DEF npf_convert

\* A string.
LEMMA ConvertString ==
    ASSUME NEW fs, NEW arg, fs.conv = Ch.s
    PROVE  npf_convert(fs, arg) = IF arg = <<>> THEN <<>> ELSE arg[1]
  <1>1. fs.conv # Ch.PCT /\ fs.conv # Ch.c /\ fs.conv \notin SignedConv
    BY DEF Ch, SignedConv
  <1> QED BY <1>1, Zenon DEF npf_convert

\* A signed number.
LEMMA ConvertSigned ==
    ASSUME NEW fs, NEW arg, fs.conv \in SignedConv
    PROVE  LET signed == SignedArg(fs.long, arg)
               uval == IF signed < 0 THEN (0 - (signed % 2^LONG_BITS)) % 2^LONG_BITS ELSE signed
           IN  npf_convert(fs, arg) = Payload(IF signed < 0 THEN <<Ch.MINUS>> ELSE fs.prepend,
                                              npf_utoa_rev(uval, 10, Adjust(FALSE)))
  BY DEF npf_convert, Ch, SignedConv, Adjust

\* The base of an unsigned number, ...
BaseOf(conv) == CASE conv = Ch.o -> 8 [] conv = Ch.u -> 10 [] OTHER -> 16

\* ... the number ...
LEMMA ConvertUnsigned ==
    ASSUME NEW fs, NEW arg, fs.conv \in UnsignedConv
    PROVE  npf_convert(fs, arg) =
             Payload(<<>>, npf_utoa_rev(UnsignedArg(fs.long \/ fs.conv = Ch.p, arg),
                                        BaseOf(fs.conv), Adjust(fs.conv = Ch.X)))
  BY DEF npf_convert, Ch, SignedConv, UnsignedConv, Adjust, BaseOf

\* ... and what the base is.
LEMMA BaseOfIs ==
    \A conv : /\ conv = Ch.o => BaseOf(conv) = 8 /\ conv # Ch.X
              /\ conv = Ch.u => BaseOf(conv) = 10 /\ conv # Ch.X
              /\ conv \in {Ch.x, Ch.p} => BaseOf(conv) = 16 /\ conv # Ch.X
              /\ conv = Ch.X => BaseOf(conv) = 16
  BY DEF BaseOf, Ch

\* The cases of CItem.
LEMMA CItemCases ==
    ASSUME NEW it, NEW arg
    PROVE  LET w == IF it.long THEN LONG_BITS ELSE INT_BITS
               low == arg % 2^w
               negative == low \div 2^(w - 1) = 1
               any == arg % 2^(IF it.long \/ it.conv = Ch.p THEN LONG_BITS ELSE INT_BITS)
           IN  /\ it.conv = Ch.c => CItem(it, arg) = <<arg % 256>>
               /\ it.conv = Ch.s => CItem(it, arg) = FlattenSeq(arg)
               /\ it.conv \in SignedConv => CItem(it, arg) =
                     (IF negative THEN <<Ch.MINUS>> ELSE npf_prepend(it.flags))
                       \o Numeral(IF negative THEN 2^w - low ELSE low, 10, FALSE)
               /\ it.conv = Ch.o => CItem(it, arg) = Numeral(any, 8, FALSE)
               /\ it.conv = Ch.u => CItem(it, arg) = Numeral(any, 10, FALSE)
               /\ it.conv \in {Ch.x, Ch.p} => CItem(it, arg) = Numeral(any, 16, FALSE)
               /\ it.conv = Ch.X => CItem(it, arg) = Numeral(any, 16, TRUE)
  <1>1. CASE it.conv = Ch.c
    BY <1>1 DEF CItem, Ch, SignedConv
  <1>2. CASE it.conv = Ch.s
    BY <1>2 DEF CItem, Ch, SignedConv
  <1>3. CASE it.conv \in SignedConv
    <2>1. it.conv # Ch.c /\ it.conv # Ch.s /\ it.conv # Ch.p /\ it.conv \notin {Ch.o, Ch.u, Ch.x, Ch.X}
      BY <1>3 DEF Ch, SignedConv
    <2>2. (it.long \/ it.conv = Ch.p) <=> it.long
      BY <2>1
    <2> DEFINE w == IF it.long THEN LONG_BITS ELSE INT_BITS
               low == arg % 2^w
               negative == low \div 2^(w - 1) = 1
    <2>3. w = IF it.long \/ it.conv = Ch.p THEN LONG_BITS ELSE INT_BITS
      BY <2>2
    <2> HIDE DEF w
    <2>4. CItem(it, arg) = (IF negative THEN <<Ch.MINUS>>
                            ELSE IF Contains(it.flags, Ch.PLUS) THEN <<Ch.PLUS>>
                            ELSE IF Contains(it.flags, Ch.SP) THEN <<Ch.SP>> ELSE <<>>)
                             \o Numeral(IF negative THEN 2^w - low ELSE low, 10, FALSE)
      BY <1>3, <2>1, <2>3, Zenon DEF CItem
    <2>5. CItem(it, arg) = (IF negative THEN <<Ch.MINUS>> ELSE npf_prepend(it.flags))
                             \o Numeral(IF negative THEN 2^w - low ELSE low, 10, FALSE)
      BY <2>4, Zenon DEF npf_prepend
    <2> QED BY <2>1, <2>5 DEF w
  <1>4. CASE it.conv \notin {Ch.c, Ch.s} /\ it.conv \notin SignedConv
    <2> DEFINE any == arg % 2^(IF it.long \/ it.conv = Ch.p THEN LONG_BITS ELSE INT_BITS)
    <2>1. CItem(it, arg) = IF it.conv = Ch.o THEN Numeral(any, 8, FALSE)
                           ELSE IF it.conv = Ch.u THEN Numeral(any, 10, FALSE)
                           ELSE Numeral(any, 16, it.conv = Ch.X)
      <3>1. it.conv # Ch.c /\ it.conv # Ch.s
        BY <1>4
      <3>2. CASE it.conv = Ch.o
        <4>1. it.conv # Ch.u
          BY <3>2 DEF Ch
        <4> QED BY <1>4, <3>1, <3>2, <4>1, Zenon DEF CItem
      <3>3. CASE it.conv = Ch.u
        <4>1. it.conv # Ch.o
          BY <3>3 DEF Ch
        <4> QED BY <1>4, <3>1, <3>3, <4>1, Zenon DEF CItem
      <3>4. CASE it.conv # Ch.o /\ it.conv # Ch.u
        BY <1>4, <3>1, <3>4, Zenon DEF CItem
      <3> QED BY <3>2, <3>3, <3>4
    <2> HIDE DEF any
    <2>2. Ch.o # Ch.u /\ {Ch.x, Ch.p, Ch.X} \cap {Ch.o, Ch.u} = {} /\ Ch.X \notin {Ch.x, Ch.p}
      BY DEF Ch
    <2>3. /\ it.conv = Ch.o => CItem(it, arg) = Numeral(any, 8, FALSE)
          /\ it.conv = Ch.u => CItem(it, arg) = Numeral(any, 10, FALSE)
          /\ it.conv \in {Ch.x, Ch.p} => CItem(it, arg) = Numeral(any, 16, FALSE)
          /\ it.conv = Ch.X => CItem(it, arg) = Numeral(any, 16, TRUE)
      BY <2>1, <2>2
    <2> QED BY <1>4, <2>3 DEF any
  <1> QED BY <1>1, <1>2, <1>3, <1>4

\* The sign in front of a number that is not negative.
LEMMA PrependTyped ==
    \A flags : npf_prepend(flags) \in Seq(Nat)
  BY DEF npf_prepend, Ch

\* A numeral of a register's value, as nanoprintf and as C print it.
LEMMA PrintedIs ==
    ASSUME PowerLaw, NEW b \in Base, NEW upper \in BOOLEAN, NEW v \in Nat, v < 2^LONG_BITS,
           NEW sign \in Seq(Nat)
    PROVE  /\ Payload(sign, npf_utoa_rev(v, b, Adjust(upper))) = sign \o Numeral(v, b, upper)
           /\ sign \o Numeral(v, b, upper) \in Seq(Nat) /\ Numeral(v, b, upper) \in Seq(Nat)
           /\ Payload(<<>>, npf_utoa_rev(v, b, Adjust(upper))) = Numeral(v, b, upper)
  <1>1. v < Pow(2, LONG_BITS)
    BY DEF Pow
  <1>2. Count(b, v) <= LONG_BITS
    BY <1>1, CountFits
  <1>3. PICK r, n : r = npf_utoa_rev(v, b, Adjust(upper)) /\ n = Numeral(v, b, upper)
    BY Zenon
  <1>4. Reverse(r) = n /\ n \in Seq(Nat)
    BY <1>2, <1>3, NumeralPrinted
  <1>5. sign \o n \in Seq(Nat)
    BY <1>4
  <1>6. Payload(sign, r) = sign \o n /\ Payload(<<>>, r) = <<>> \o n
    BY <1>4, Zenon DEF Payload
  <1>7. <<>> \o n = n
    BY <1>4
  <1> QED BY <1>3, <1>4, <1>5, <1>6, <1>7

\* The values that %o, %u, %x, %X and %p print.
LEMMA UnsignedFits ==
    ASSUME PowerLaw, NEW w \in {INT_BITS, LONG_BITS}, NEW reg \in Nat
    PROVE  reg % 2^w \in Nat /\ reg % 2^w < 2^LONG_BITS
  <1>1. PICK x, z : x = Pow(2, w) /\ z = Pow(2, LONG_BITS)
    BY Zenon
  <1>2. x \in Nat \ {0} /\ z \in Nat \ {0} /\ x <= z
    BY <1>1, WidthIs
  <1>3. reg % x \in Nat /\ reg % x < x
    BY <1>2, ModRegister
  <1>4. reg % x < z
    BY <1>2, <1>3
  <1>5. x = 2^w /\ z = 2^LONG_BITS
    BY <1>1, Zenon DEF Pow
  <1> QED BY <1>3, <1>4, <1>5

\* The number base of the conversions.
LEMMA Bases == 8 \in Base /\ 10 \in Base /\ 16 \in Base
  BY DEF Base

\* What nanoprintf makes of a directive it was asked for is what C says.
LEMMA ConvertIs ==
    ASSUME PowerLaw, NEW it \in Item, TakesArg(it), NEW arg, ArgFits(it, arg),
           NEW fs, fs.prepend = npf_prepend(it.flags), fs.long = it.long, fs.conv = it.conv
    PROVE  npf_convert(fs, arg) = CItem(it, arg) /\ CItem(it, arg) \in Seq(Nat)
  <1>1. /\ it.flags \in Seq({Ch.PLUS, Ch.SP}) /\ it.long \in BOOLEAN
        /\ it.conv \in Conversions /\ it.conv # Ch.PCT
    BY DEF Item, TakesArg
  <1>2. CASE it.conv = Ch.c
    <2>1. npf_convert(fs, arg) = <<arg % 256>> /\ CItem(it, arg) = <<arg % 256>>
      <3>1. fs.conv = Ch.c
        BY <1>2
      <3>2. npf_convert(fs, arg) = <<arg % 256>>
        BY <3>1, ConvertChar
      <3>3. CItem(it, arg) = <<arg % 256>>
        BY <1>2, CItemCases, Zenon
      <3> QED BY <3>2, <3>3
    <2>2. arg \in Nat
      BY <1>2 DEF ArgFits, Ch
    <2>3. <<arg % 256>> \in Seq(Nat)
      BY <2>2
    <2> QED BY <2>1, <2>3
  <1>3. CASE it.conv = Ch.s
    <2>1. npf_convert(fs, arg) = IF arg = <<>> THEN <<>> ELSE arg[1]
      <3>1. fs.conv = Ch.s
        BY <1>3
      <3> QED BY <3>1, ConvertString
    <2>2. CItem(it, arg) = FlattenSeq(arg)
      BY <1>3, CItemCases
    <2>3. arg = <<>> \/ (arg = <<arg[1]>> /\ arg[1] \in Seq(Nat))
      BY <1>3 DEF ArgFits
    <2>4. CASE arg = <<>>
      <3>1. arg \in Seq(Seq(Nat)) /\ Len(arg) = 0
        BY <2>4
      <3>2. FlattenSeq(arg) = <<>>
        BY <3>1, FlattenIs
      <3>3. <<>> \in Seq(Nat)
        OBVIOUS
      <3> QED BY <2>1, <2>2, <2>4, <3>2, <3>3
    <2>5. CASE arg # <<>>
      <3>1. PICK s \in Seq(Nat) : s = arg[1] /\ arg = <<s>>
        BY <2>3, <2>5
      <3>2. <<s>> \in Seq(Seq(Nat)) /\ Head(<<s>>) = s /\ Tail(<<s>>) = <<>> /\ <<s>> # <<>>
        BY <3>1
      <3>3. FlattenSeq(<<s>>) = s \o FlattenSeq(<<>>)
        BY <3>2, FlattenCons
      <3>4. <<>> \in Seq(Seq(Nat)) /\ Len(<<>>) = 0
        OBVIOUS
      <3>5. FlattenSeq(<<>>) = <<>>
        BY <3>4, FlattenIs
      <3>6. s \o <<>> = s
        BY <3>1
      <3> QED BY <2>1, <2>2, <2>5, <3>1, <3>3, <3>5, <3>6
    <2> QED BY <2>4, <2>5
  <1>4. CASE it.conv \in SignedConv
    <2>1. arg \in Nat
      BY <1>4 DEF ArgFits, Ch, SignedConv
    <2> DEFINE w == IF it.long THEN LONG_BITS ELSE INT_BITS
               low == arg % 2^w
               negative == low \div 2^(w - 1) = 1
               signed == SignedArg(it.long, arg)
               uval == IF signed < 0 THEN (0 - (signed % 2^LONG_BITS)) % 2^LONG_BITS ELSE signed
               val == IF negative THEN 2^w - low ELSE low
               sign == IF negative THEN <<Ch.MINUS>> ELSE npf_prepend(it.flags)
    <2>2. (signed < 0 <=> negative) /\ uval = val /\ val \in Nat /\ val < 2^LONG_BITS
      BY <1>1, <2>1, SignedIs
    <2>3. npf_convert(fs, arg) =
            Payload(IF signed < 0 THEN <<Ch.MINUS>> ELSE npf_prepend(it.flags), npf_utoa_rev(uval, 10, Adjust(FALSE)))
      <3>1. fs.conv \in SignedConv
        BY <1>4
      <3>2. fs.long = it.long /\ fs.prepend = npf_prepend(it.flags)
        OBVIOUS
      <3> QED BY <3>1, <3>2, ConvertSigned, Zenon
    <2>4. CItem(it, arg) = sign \o Numeral(val, 10, FALSE)
      BY <1>4, CItemCases
    <2>5. sign \in Seq(Nat)
      <3>1. <<Ch.MINUS>> \in Seq(Nat)
        BY DEF Ch
      <3> QED BY <3>1, PrependTyped
    <2> HIDE DEF negative, signed, uval, val
    <2>6. npf_convert(fs, arg) = Payload(sign, npf_utoa_rev(val, 10, Adjust(FALSE)))
      BY <2>2, <2>3, Zenon
    <2> HIDE DEF sign
    <2> QED BY <2>2, <2>4, <2>5, <2>6, Bases, PrintedIs
  <1>5. CASE it.conv \in UnsignedConv
    <2>1. arg \in Nat
      BY <1>5 DEF ArgFits, Ch, UnsignedConv
    <2> DEFINE w == IF it.long \/ it.conv = Ch.p THEN LONG_BITS ELSE INT_BITS
               any == arg % 2^w
    <2>2. any \in Nat /\ any < 2^LONG_BITS
      <3>1. w \in {INT_BITS, LONG_BITS}
        OBVIOUS
      <3> QED BY <2>1, <3>1, UnsignedFits
    <2>3. UnsignedArg(fs.long \/ fs.conv = Ch.p, arg) = any
      BY Zenon DEF UnsignedArg
    <2>4. <<>> \in Seq(Nat)
      OBVIOUS
    <2>10. npf_convert(fs, arg) = Payload(<<>>, npf_utoa_rev(any, BaseOf(it.conv), Adjust(it.conv = Ch.X)))
      <3>1. fs.conv = it.conv /\ fs.conv \in UnsignedConv
        BY <1>5
      <3>2. npf_convert(fs, arg) = Payload(<<>>, npf_utoa_rev(UnsignedArg(fs.long \/ fs.conv = Ch.p, arg),
                                                  BaseOf(fs.conv), Adjust(fs.conv = Ch.X)))
        BY <3>1, ConvertUnsigned, Zenon
      <3> HIDE DEF any
      <3> QED BY <2>3, <3>1, <3>2, Zenon
    <2>5. CASE it.conv = Ch.o
      <3>1. npf_convert(fs, arg) = Payload(<<>>, npf_utoa_rev(any, 8, Adjust(FALSE)))
        <4>1. BaseOf(it.conv) = 8 /\ (it.conv = Ch.X <=> FALSE)
          BY <2>5, BaseOfIs
        <4> HIDE DEF any
        <4> QED BY <2>10, <4>1
      <3>2. CItem(it, arg) = Numeral(any, 8, FALSE)
        BY <2>5, CItemCases
      <3> HIDE DEF any
      <3> QED BY <2>2, <2>4, <3>1, <3>2, Bases, PrintedIs
    <2>6. CASE it.conv = Ch.u
      <3>1. npf_convert(fs, arg) = Payload(<<>>, npf_utoa_rev(any, 10, Adjust(FALSE)))
        <4>1. BaseOf(it.conv) = 10 /\ (it.conv = Ch.X <=> FALSE)
          BY <2>6, BaseOfIs
        <4> HIDE DEF any
        <4> QED BY <2>10, <4>1
      <3>2. CItem(it, arg) = Numeral(any, 10, FALSE)
        BY <2>6, CItemCases
      <3> HIDE DEF any
      <3> QED BY <2>2, <2>4, <3>1, <3>2, Bases, PrintedIs
    <2>7. CASE it.conv \in {Ch.x, Ch.p}
      <3>1. npf_convert(fs, arg) = Payload(<<>>, npf_utoa_rev(any, 16, Adjust(FALSE)))
        <4>1. BaseOf(it.conv) = 16 /\ (it.conv = Ch.X <=> FALSE)
          BY <2>7, BaseOfIs
        <4> HIDE DEF any
        <4> QED BY <2>10, <4>1
      <3>2. CItem(it, arg) = Numeral(any, 16, FALSE)
        BY <2>7, CItemCases
      <3> HIDE DEF any
      <3> QED BY <2>2, <2>4, <3>1, <3>2, Bases, PrintedIs
    <2>8. CASE it.conv = Ch.X
      <3>1. npf_convert(fs, arg) = Payload(<<>>, npf_utoa_rev(any, 16, Adjust(TRUE)))
        <4>1. BaseOf(it.conv) = 16 /\ (it.conv = Ch.X <=> TRUE)
          BY <2>8, BaseOfIs
        <4> HIDE DEF any
        <4> QED BY <2>10, <4>1
      <3>2. CItem(it, arg) = Numeral(any, 16, TRUE)
        BY <2>8, CItemCases
      <3> HIDE DEF any
      <3> QED BY <2>2, <2>4, <3>1, <3>2, Bases, PrintedIs
    <2>9. it.conv \in {Ch.o, Ch.u, Ch.x, Ch.X, Ch.p}
      BY <1>5, Zenon DEF UnsignedConv
    <2> QED BY <2>5, <2>6, <2>7, <2>8, <2>9
  <1>6. it.conv \in {Ch.PCT, Ch.c, Ch.s} \union SignedConv \union UnsignedConv
    BY <1>1, Zenon DEF Conversions
  <1> QED BY <1>1, <1>2, <1>3, <1>4, <1>5, <1>6

----------------------------------------------------------------------------
(* Reading a directive *)

\* The flags after the "%" in position k end in front of position j.
Flag(f, m) == CharAt(f, m) \in {Ch.PLUS, Ch.SP}
FlagsEnd(f, k, j) == j \in k + 1 .. Len(f) + 1 /\ ~Flag(f, j) /\ \A m \in k + 1 .. j - 1 : Flag(f, m)

\* They end at one place, where the rest of the directive is read.
LEMMA ParseAt ==
    ASSUME NEW f \in Seq(Nat), NEW k \in 1 .. Len(f), NEW j, FlagsEnd(f, k, j)
    PROVE  LET pos == IF CharAt(f, j) = Ch.l THEN j + 1 ELSE j
           IN  npf_parse_format_spec(f, k) =
                 [len |-> IF CharAt(f, pos) \in Conversions THEN pos - k + 1 ELSE 0,
                  prepend |-> npf_prepend(SubSeq(f, k + 1, j - 1)),
                  long |-> pos # j, conv |-> CharAt(f, pos)]
  <1> DEFINE flag(m) == CharAt(f, m) \in {Ch.PLUS, Ch.SP}
             End(c) == ~flag(c) /\ \A m \in k + 1 .. c - 1 : flag(m)
  <1>1. j \in k + 1 .. Len(f) + 1 /\ End(j)
    BY Zenon DEF FlagsEnd, Flag
  <1>2. \A c \in k + 1 .. Len(f) + 1 : End(c) => c = j
    <2>1. SUFFICES ASSUME NEW c \in k + 1 .. Len(f) + 1, End(c), c # j PROVE FALSE
      BY Zenon
    <2> HIDE DEF flag
    <2>2. CASE c < j
      <3>1. c \in k + 1 .. j - 1
        BY <1>1, <2>2
      <3> QED BY <1>1, <2>1, <3>1
    <2>3. CASE j < c
      <3>1. j \in k + 1 .. c - 1
        BY <1>1, <2>3
      <3> QED BY <1>1, <2>1, <3>1
    <2>4. c < j \/ j < c
      BY <1>1, <2>1
    <2> QED BY <2>2, <2>3, <2>4
  <1>3. (CHOOSE c \in k + 1 .. Len(f) + 1 : End(c)) = j
    <2> HIDE DEF End
    <2> QED BY <1>1, <1>2
  <1> DEFINE spec(c) == LET pos == IF CharAt(f, c) = Ch.l THEN c + 1 ELSE c
                        IN  [len |-> IF CharAt(f, pos) \in Conversions THEN pos - k + 1 ELSE 0,
                             prepend |-> npf_prepend(SubSeq(f, k + 1, c - 1)),
                             long |-> pos # c, conv |-> CharAt(f, pos)]
  <1>4. npf_parse_format_spec(f, k) = spec(CHOOSE c \in k + 1 .. Len(f) + 1 : End(c))
    BY Zenon DEF npf_parse_format_spec
  <1>5. npf_parse_format_spec(f, k) = spec(j)
    <2> HIDE DEF spec, End
    <2> QED BY <1>3, <1>4
  <1> QED BY <1>5, Zenon

\* The flags end somewhere.
LEMMA FlagsEndSomewhere ==
    ASSUME NEW f \in Seq(Nat), NEW k \in 1 .. Len(f)
    PROVE  \E j : FlagsEnd(f, k, j)
  <1> DEFINE S == {j \in k + 1 .. Len(f) + 1 : ~Flag(f, j)}
  <1>1. Len(f) + 1 \in S
    <2>1. CharAt(f, Len(f) + 1) = 0
      BY DEF CharAt
    <2>2. 0 \notin {Ch.PLUS, Ch.SP}
      BY DEF Ch
    <2> QED BY <2>1, <2>2 DEF Flag
  <1>2. S \subseteq Nat
    OBVIOUS
  <1>3. PICK j \in S : \A c \in S : j <= c
    <2> HIDE DEF S
    <2> QED BY <1>1, <1>2, Least
  <1>4. \A m \in k + 1 .. j - 1 : Flag(f, m)
    <2>1. SUFFICES ASSUME NEW m \in k + 1 .. j - 1, ~Flag(f, m) PROVE FALSE
      OBVIOUS
    <2>2. m \in S
      BY <1>3, <2>1
    <2> QED BY <1>2, <1>3, <2>1, <2>2
  <1>5. FlagsEnd(f, k, j)
    BY <1>3, <1>4, Zenon DEF FlagsEnd
  <1> QED BY <1>5

\* A directive lies within the format.
LEMMA ParseWithin ==
    ASSUME NEW f \in Seq(Nat), NEW k \in 1 .. Len(f)
    PROVE  LET fs == npf_parse_format_spec(f, k)
           IN  fs.len \in Nat /\ (fs.len # 0 => k + fs.len <= Len(f) + 1)
  <1>1. PICK j : FlagsEnd(f, k, j)
    BY FlagsEndSomewhere
  <1>2. PICK pos : pos = IF CharAt(f, j) = Ch.l THEN j + 1 ELSE j
    OBVIOUS
  <1>3. npf_parse_format_spec(f, k).len = IF CharAt(f, pos) \in Conversions THEN pos - k + 1 ELSE 0
    BY <1>1, <1>2, ParseAt
  <1>4. j \in k + 1 .. Len(f) + 1
    BY <1>1, Zenon DEF FlagsEnd
  <1>5. pos \in Nat /\ k < pos
    BY <1>2, <1>4
  <1>6. CASE CharAt(f, pos) \in Conversions
    <2>1. CharAt(f, pos) # 0
      BY <1>6 DEF Conversions, SignedConv, UnsignedConv, Ch
    <2>2. pos <= Len(f)
      BY <2>1 DEF CharAt
    <2>3. npf_parse_format_spec(f, k).len = pos - k + 1
      BY <1>3, <1>6
    <2> QED BY <1>5, <2>2, <2>3
  <1>7. CASE CharAt(f, pos) \notin Conversions
    BY <1>3, <1>7
  <1> QED BY <1>6, <1>7

\* A directive as it stands in a format.
Directive == [flags : Seq({Ch.PLUS, Ch.SP}), long : BOOLEAN, conv : Conversions]
Skip(it) == IF it.long THEN 1 ELSE 0

\* It is spelled after the "%" in position k.
Stands(f, k, it) ==
    /\ k + Len(it.flags) + Skip(it) + 1 <= Len(f)
    /\ \A m \in 1 .. Len(it.flags) : f[k + m] = it.flags[m]
    /\ it.long => f[k + Len(it.flags) + 1] = Ch.l
    /\ f[k + Len(it.flags) + Skip(it) + 1] = it.conv

\* The directive that was spelled is the one that is read.
LEMMA ParseIs ==
    ASSUME NEW f \in Seq(Nat), NEW k \in 1 .. Len(f), NEW it \in Directive, Stands(f, k, it)
    PROVE  npf_parse_format_spec(f, k) = [len |-> Len(it.flags) + Skip(it) + 2,
                                          prepend |-> npf_prepend(it.flags),
                                          long |-> it.long, conv |-> it.conv]
  <1>1. PICK n, e, j, pos : n = Len(it.flags) /\ e = Skip(it) /\ j = k + n + 1 /\ pos = k + n + e + 1
    BY Zenon
  <1>2. it.flags \in Seq({Ch.PLUS, Ch.SP}) /\ it.long \in BOOLEAN /\ it.conv \in Conversions
    BY DEF Directive
  <1>3. n \in Nat /\ e \in {0, 1} /\ (it.long <=> e = 1) /\ pos = j + e
        /\ j \in Nat /\ pos \in Nat /\ j <= pos /\ pos <= Len(f) /\ k < j
    <2>1. n \in Nat /\ Len(f) \in Nat /\ k \in Nat
      BY <1>1, <1>2
    <2>2. e \in {0, 1} /\ (it.long <=> e = 1)
      BY <1>1, <1>2 DEF Skip
    <2>3. k + n + e + 1 <= Len(f)
      BY <1>1, Zenon DEF Stands
    <2>4. e \in Nat
      BY <2>2
    <2>5. pos = j + e /\ j \in Nat /\ pos \in Nat /\ j <= pos /\ pos <= Len(f) /\ k < j
      <3>1. j = k + n + 1 /\ pos = k + n + e + 1
        BY <1>1
      <3> QED BY ONLY <2>1, <2>3, <2>4, <3>1
    <2> QED BY <2>1, <2>2, <2>5
  <1>12. Len(f) \in Nat /\ k \in Nat
    OBVIOUS
  <1>4. CharAt(f, pos) = it.conv
    <2>1. f[pos] = it.conv
      BY <1>1, Zenon DEF Stands
    <2> QED BY <1>3, <2>1 DEF CharAt
  <1>5. CharAt(f, j) = IF it.long THEN Ch.l ELSE it.conv
    <2>1. CASE it.long
      <3>1. f[j] = Ch.l
        BY <1>1, <2>1, Zenon DEF Stands
      <3>2. j <= Len(f)
        BY <1>3, <1>12
      <3> QED BY <2>1, <3>1, <3>2 DEF CharAt
    <2>2. CASE ~it.long
      BY <1>3, <1>4, <2>2
    <2> QED BY <2>1, <2>2
  <1>6. Ch.l \notin Conversions /\ Ch.l \notin {Ch.PLUS, Ch.SP} /\ it.conv \notin {Ch.PLUS, Ch.SP}
    BY <1>2 DEF Conversions, SignedConv, UnsignedConv, Ch
  <1>7. FlagsEnd(f, k, j)
    <2>1. j \in k + 1 .. Len(f) + 1
      BY <1>3, <1>12
    <2>2. ~Flag(f, j)
      BY <1>5, <1>6 DEF Flag
    <2>3. ASSUME NEW m \in k + 1 .. j - 1 PROVE Flag(f, m)
      <3>1. PICK q : q = m - k
        OBVIOUS
      <3>2. q \in 1 .. n /\ m = k + q /\ m <= Len(f)
        <4>1. j = k + n + 1 /\ n \in Nat /\ j \in Nat /\ pos \in Nat /\ j <= pos /\ pos <= Len(f)
          BY <1>1, <1>3
        <4>2. m \in k + 1 .. j - 1
          OBVIOUS
        <4> QED BY ONLY <1>12, <3>1, <4>1, <4>2
      <3>3. f[m] = it.flags[q]
        BY <1>1, <3>2, Zenon DEF Stands
      <3>4. it.flags[q] \in {Ch.PLUS, Ch.SP}
        BY <1>1, <1>2, <3>2
      <3>5. CharAt(f, m) = it.flags[q]
        BY <3>2, <3>3 DEF CharAt
      <3> QED BY <3>4, <3>5 DEF Flag
    <2> QED BY <2>1, <2>2, <2>3, Zenon DEF FlagsEnd
  <1>8. (IF CharAt(f, j) = Ch.l THEN j + 1 ELSE j) = pos
    BY <1>2, <1>3, <1>5, <1>6
  <1>9. npf_parse_format_spec(f, k) =
          [len |-> pos - k + 1, prepend |-> npf_prepend(SubSeq(f, k + 1, j - 1)),
           long |-> pos # j, conv |-> it.conv]
    <2>1. npf_parse_format_spec(f, k) =
            [len |-> IF CharAt(f, pos) \in Conversions THEN pos - k + 1 ELSE 0,
             prepend |-> npf_prepend(SubSeq(f, k + 1, j - 1)),
             long |-> pos # j, conv |-> CharAt(f, pos)]
      BY <1>7, <1>8, ParseAt
    <2> QED BY <1>2, <1>4, <2>1
  <1>10. SubSeq(f, k + 1, j - 1) = it.flags
    <2>1. PICK t : t = SubSeq(f, k + 1, j - 1)
      OBVIOUS
    <2>2. k + 1 \in 1 .. Len(f) + 1 /\ j - 1 \in k .. Len(f)
      BY <1>3, <1>12
    <2>3. t \in Seq(Nat) /\ Len(t) = j - 1 - k /\ \A m \in 1 .. j - 1 - k : t[m] = f[k + m]
      <3>1. \A m \in k + 1 .. j - 1 : f[m] \in Nat
        BY <1>3, <1>12
      <3>2. k + 1 \in Int /\ j - 1 \in Int
        BY <1>3, <1>12
      <3>3. /\ t \in Seq(Nat) /\ Len(t) = IF k + 1 <= j - 1 THEN (j - 1) - (k + 1) + 1 ELSE 0
            /\ \A m \in 1 .. (j - 1) - (k + 1) + 1 : t[m] = f[(k + 1) + m - 1]
        BY <2>1, <3>1, <3>2, SubSeqProperties
      <3>4. \A m \in 1 .. j - 1 - k : (k + 1) + m - 1 = k + m
        BY <1>3, <1>12
      <3>5. Len(t) = j - 1 - k /\ (j - 1) - (k + 1) + 1 = j - 1 - k
        BY <1>3, <1>12, <3>3
      <3> QED BY <3>3, <3>4, <3>5
    <2>4. j - 1 - k = n
      BY <1>1, <1>3
    <2>5. Len(t) = Len(it.flags) /\ \A m \in 1 .. Len(t) : t[m] = it.flags[m]
      <3>1. \A m \in 1 .. n : f[k + m] = it.flags[m]
        BY <1>1, Zenon DEF Stands
      <3> QED BY <1>1, <2>3, <2>4, <3>1
    <2>6. {Ch.PLUS, Ch.SP} \subseteq Nat
      BY DEF Ch
    <2>7. it.flags \in Seq(Nat)
      BY <1>2, <2>6
    <2>8. t = it.flags
      <3>1. PICK u : u = it.flags
        OBVIOUS
      <3>2. u \in Seq(Nat) /\ Len(t) = Len(u) /\ \A m \in 1 .. Len(t) : t[m] = u[m]
        BY <2>5, <2>7, <3>1
      <3>3. t = u
        BY <2>3, <3>2, SeqEqual
      <3> QED BY <3>1, <3>3
    <2> QED BY <2>1, <2>8
  <1>11. pos - k + 1 = n + e + 2 /\ (pos # j <=> it.long)
    <2>1. j = k + n + 1
      BY <1>1
    <2> QED BY ONLY <1>3, <1>12, <2>1
  <1>13. (pos # j) = it.long
    BY <1>2, <1>11
  <1> QED BY <1>1, <1>9, <1>10, <1>11, <1>13, Zenon

----------------------------------------------------------------------------
(* Where the items of a format stand *)

\* The elements in front of the k-th of the sequences that were put together.
Before(F, k) == IF k = 1 THEN 0 ELSE Len(F[k - 1])

\* The k-th sequence stands after them in the first i.
Placed(F, s, i, k) ==
    /\ Before(F, k) \in Nat /\ Before(F, k + 1) = Before(F, k) + Len(s[k])
    /\ Before(F, k + 1) <= Len(F[i])
    /\ \A j \in 1 .. Len(s[k]) : F[i][Before(F, k) + j] = s[k][j]

\* Each of the sequences does.
LEMMA FlatAt ==
    ASSUME NEW S, NEW s \in Seq(Seq(S)), NEW F, IsFlat(s, Len(s), F)
    PROVE  \A i \in 1 .. Len(s) : \A k \in 1 .. i : Placed(F, s, i, k)
  <1> DEFINE N == Len(s)
             At(i, k) == /\ Before(F, k) \in Nat /\ Before(F, k + 1) = Before(F, k) + Len(s[k])
                         /\ Before(F, k + 1) <= Len(F[i])
                         /\ \A j \in 1 .. Len(s[k]) : F[i][Before(F, k) + j] = s[k][j]
             Bad == {i \in 1 .. N : ~ \A k \in 1 .. i : At(i, k)}
  <1>1. N \in Nat
    OBVIOUS
  <1>2. \A i \in 1 .. N : F[i] = IF i = 1 THEN s[i] ELSE F[i - 1] \o s[i]
    BY Zenon DEF IsFlat
  <1>3. \A i \in 1 .. N : F[i] \in Seq(S) /\ Len(F[i]) \in Nat /\ s[i] \in Seq(S) /\ Len(s[i]) \in Nat
    <2>1. \A i \in 1 .. N : F[i] \in Seq(S) /\ s[i] \in Seq(S)
      BY FlatTyped
    <2>2. \A t \in Seq(S) : Len(t) \in Nat
      OBVIOUS
    <2> HIDE DEF N
    <2> QED BY <2>1, <2>2
  <1> HIDE DEF N
  <1>4. SUFFICES ASSUME Bad # {} PROVE FALSE
    <2>1. \A i \in 1 .. N : \A k \in 1 .. i : At(i, k)
      BY <1>4
    <2> QED BY <2>1, Zenon DEF N, Placed
  <1>5. PICK i \in Bad : \A m \in Bad : i <= m
    <2>1. Bad \subseteq Nat
      BY <1>1
    <2> HIDE DEF Bad
    <2> QED BY <1>4, <2>1, Least
  <1>6. i \in 1 .. N /\ ~ \A k \in 1 .. i : At(i, k)
    BY <1>5
  <1>7. PICK k \in 1 .. i : ~At(i, k)
    BY <1>6
  <1>8. k \in Nat /\ i \in Nat /\ k \in 1 .. N
    BY <1>1, <1>6, <1>7
  <1>9. Before(F, k + 1) = Len(F[k])
    <2>1. k + 1 # 1 /\ (k + 1) - 1 = k
      BY <1>8
    <2> QED BY <2>1 DEF Before
  <1>10. CASE i = 1
    <2>1. k = 1
      BY <1>7, <1>10
    <2>2. F[1] = s[1] /\ Len(s[1]) \in Nat
      BY <1>2, <1>3, <1>8, <2>1
    <2>3. Before(F, 1) = 0
      BY DEF Before
    <2>4. \A j \in 1 .. Len(s[1]) : 0 + j = j
      BY <2>2
    <2>5. At(1, 1)
      BY <1>9, <2>1, <2>2, <2>3, <2>4
    <2> QED BY <1>7, <1>10, <2>1, <2>5
  <1>11. CASE i # 1
    <2>1. i - 1 \in 1 .. N /\ i - 1 \in Nat /\ i - 1 < i
      BY <1>1, <1>6, <1>11
    <2>2. PICK a, b, c : a = F[i - 1] /\ b = s[i] /\ c = F[i]
      BY Zenon
    <2>3. a \in Seq(S) /\ b \in Seq(S) /\ c = a \o b /\ Len(a) \in Nat /\ Len(b) \in Nat
      BY <1>2, <1>3, <1>6, <1>11, <2>1, <2>2
    <2>4. /\ Len(c) = Len(a) + Len(b)
          /\ \A m \in 1 .. Len(a) + Len(b) : c[m] = IF m <= Len(a) THEN a[m] ELSE b[m - Len(a)]
      BY <2>3, ConcatIs
    <2>5. CASE k = i
      <3>1. Before(F, k) = Len(a)
        BY <1>11, <2>2, <2>5 DEF Before
      <3>2. Before(F, k + 1) = Len(a) + Len(b)
        BY <1>9, <2>2, <2>4, <2>5
      <3>3. \A j \in 1 .. Len(b) : c[Len(a) + j] = b[j]
        BY <2>3, <2>4
      <3>4. Len(a) + Len(b) <= Len(c)
        BY <2>3, <2>4
      <3>5. At(i, k)
        BY <2>2, <2>3, <2>5, <3>1, <3>2, <3>3, <3>4
      <3> QED BY <1>7, <3>5
    <2>6. CASE k # i
      <3>1. k \in 1 .. i - 1
        BY <1>7, <1>8, <2>1, <2>6
      <3>2. i - 1 \notin Bad
        <4> HIDE DEF Bad
        <4> QED BY <1>5, <1>8, <2>1
      <3>3. At(i - 1, k)
        BY <2>1, <3>1, <3>2
      <3>4. PICK x, y, t : x = Before(F, k) /\ y = Before(F, k + 1) /\ t = s[k]
        BY Zenon
      <3>5. x \in Nat /\ y = x + Len(t) /\ y <= Len(a) /\ Len(t) \in Nat
        BY <1>3, <1>8, <2>2, <3>3, <3>4
      <3>6. \A j \in 1 .. Len(t) : a[x + j] = t[j]
        BY <2>2, <3>3, <3>4
      <3>7. \A j \in 1 .. Len(t) : c[x + j] = t[j]
        <4>1. SUFFICES ASSUME NEW j \in 1 .. Len(t) PROVE c[x + j] = t[j]
          OBVIOUS
        <4>2. Len(a) \in Nat /\ Len(b) \in Nat
          BY <2>3
        <4>3. x + j \in 1 .. Len(a) + Len(b) /\ x + j <= Len(a)
          BY ONLY <3>5, <4>1, <4>2
        <4>4. c[x + j] = a[x + j]
          BY ONLY <2>4, <4>3
        <4> QED BY ONLY <3>6, <4>1, <4>4
      <3>8. y <= Len(c)
        BY <2>3, <2>4, <3>5
      <3>9. At(i, k)
        BY <2>2, <3>4, <3>5, <3>7, <3>8
      <3> QED BY <1>7, <3>9
    <2> QED BY <2>5, <2>6
  <1> QED BY <1>10, <1>11

\* An item that takes an argument takes the one after those of the items before.
LEMMA ArgOfIs ==
    ASSUME NEW items, NEW k \in Nat
    PROVE  /\ ArgOf(items, k) \in Nat /\ ArgOf(items, 0) = 0
           /\ ArgOf(items, k + 1) = ArgOf(items, k) + (IF TakesArg(items[k + 1]) THEN 1 ELSE 0)
  <1> DEFINE T(n) == {m \in 1 .. n : TakesArg(items[m])}
  <1>1. IsFiniteSet(T(k)) /\ Cardinality(T(k)) \in Nat
    <2>1. IsFiniteSet(1 .. k)
      BY FS_Interval
    <2>2. T(k) \subseteq 1 .. k
      OBVIOUS
    <2> HIDE DEF T
    <2> QED BY <2>1, <2>2, FS_Subset, FS_CardinalityType
  <1>2. ArgOf(items, k) \in Nat
    BY <1>1 DEF ArgOf
  <1>3. ArgOf(items, 0) = 0
    <2>1. T(0) = {}
      OBVIOUS
    <2> QED BY <2>1, FS_EmptySet DEF ArgOf
  <1>4. CASE TakesArg(items[k + 1])
    <2>1. T(k + 1) = T(k) \union {k + 1} /\ k + 1 \notin T(k)
      BY <1>4
    <2>2. Cardinality(T(k + 1)) = Cardinality(T(k)) + 1
      <3> HIDE DEF T
      <3> QED BY <1>1, <2>1, FS_AddElement
    <2> QED BY <1>2, <1>3, <1>4, <2>2 DEF ArgOf
  <1>5. CASE ~TakesArg(items[k + 1])
    <2>1. T(k + 1) = T(k)
      BY <1>5
    <2>2. ArgOf(items, k + 1) = ArgOf(items, k)
      BY <2>1 DEF ArgOf
    <2> QED BY <1>2, <1>3, <1>5, <2>2
  <1> QED BY <1>4, <1>5

----------------------------------------------------------------------------
(* How an item is spelled *)

Spelled(it) == IF "lit" \in DOMAIN it THEN <<it.lit>>
               ELSE <<Ch.PCT>> \o it.flags \o (IF it.long THEN <<Ch.l>> ELSE <<>>) \o <<it.conv>>

\* A literal has its own character.
LEMMA SpelledLiteral ==
    ASSUME NEW it \in Item, "lit" \in DOMAIN it
    PROVE  it.lit \in Nat \ {Ch.PCT} /\ Spelled(it) = <<it.lit>> /\ Spelled(it) \in Seq(Nat) /\ Len(Spelled(it)) = 1
  <1>1. it.lit \in Nat \ {Ch.PCT}
    BY DEF Item
  <1> QED BY <1>1 DEF Spelled

\* The parts of a directive follow each other.
LEMMA SpelledDirective ==
    ASSUME NEW it \in Item, "lit" \notin DOMAIN it
    PROVE  /\ it \in Directive
           /\ Spelled(it) \in Seq(Nat) /\ Len(Spelled(it)) = Len(it.flags) + Skip(it) + 2
           /\ Spelled(it)[1] = Ch.PCT
           /\ \A m \in 1 .. Len(it.flags) : Spelled(it)[1 + m] = it.flags[m]
           /\ it.long => Spelled(it)[Len(it.flags) + 2] = Ch.l
           /\ Spelled(it)[Len(it.flags) + Skip(it) + 2] = it.conv
  <1>1. it \in Directive
    BY DEF Item, Directive
  <1>2. it.flags \in Seq({Ch.PLUS, Ch.SP}) /\ it.long \in BOOLEAN /\ it.conv \in Conversions
    BY <1>1 DEF Directive
  <1>3. Ch.PCT \in Nat /\ Ch.l \in Nat /\ it.conv \in Nat /\ it.flags \in Seq(Nat)
    <2>1. {Ch.PLUS, Ch.SP} \subseteq Nat
      BY DEF Ch
    <2>2. it.flags \in Seq(Nat)
      BY <1>2, <2>1
    <2>3. Conversions \subseteq Nat
      BY DEF Conversions, SignedConv, UnsignedConv, Ch
    <2>4. Ch.PCT \in Nat /\ Ch.l \in Nat
      BY DEF Ch
    <2> QED BY <1>2, <2>2, <2>3, <2>4
  <1>4. PICK a, b, c, d, l : a = <<Ch.PCT>> /\ b = it.flags /\ l = Ch.l
                             /\ c = (IF it.long THEN <<l>> ELSE <<>>) /\ d = <<it.conv>>
    BY Zenon
  <1>5. /\ a \in Seq(Nat) /\ Len(a) = 1 /\ a[1] = Ch.PCT
        /\ b \in Seq(Nat) /\ Len(b) \in Nat
        /\ d \in Seq(Nat) /\ Len(d) = 1 /\ d[1] = it.conv
    BY <1>3, <1>4
  <1>6. c \in Seq(Nat) /\ Len(c) = Skip(it) /\ Skip(it) \in Nat /\ (it.long => Skip(it) = 1 /\ c[1] = l)
    BY <1>2, <1>3, <1>4 DEF Skip
  <1>7. PICK x, y, z : x = a \o b /\ y = x \o c /\ z = y \o d
    BY Zenon
  <1>8. Spelled(it) = z
    BY <1>4, <1>7, Zenon DEF Spelled
  <1>9. PICK n, e : n = Len(b) /\ e = Len(c)
    BY Zenon
  <1>10. n \in Nat /\ e \in Nat
    BY <1>5, <1>6, <1>9
  <1>11. /\ x \in Seq(Nat) /\ Len(x) = 1 + n
         /\ \A m \in 1 .. 1 + n : x[m] = IF m <= 1 THEN a[m] ELSE b[m - 1]
    <2>1. 1 \in Nat /\ Len(a) = 1 /\ Len(b) = n /\ x = a \o b /\ a \in Seq(Nat) /\ b \in Seq(Nat) /\ n \in Nat
      BY <1>5, <1>7, <1>9, <1>10
    <2>2. /\ x \in Seq(Nat) /\ Len(x) = Len(a) + Len(b)
          /\ \A m \in 1 .. Len(a) + Len(b) : x[m] = IF m <= Len(a) THEN a[m] ELSE b[m - Len(a)]
      BY <2>1, ConcatIs
    <2> QED BY <2>1, <2>2
  <1>12. /\ y \in Seq(Nat) /\ Len(y) = 1 + n + e
         /\ \A m \in 1 .. 1 + n + e : y[m] = IF m <= 1 + n THEN x[m] ELSE c[m - (1 + n)]
    <2>1. 1 + n \in Nat /\ Len(x) = 1 + n /\ Len(c) = e /\ y = x \o c /\ x \in Seq(Nat) /\ c \in Seq(Nat) /\ e \in Nat
      BY <1>6, <1>7, <1>9, <1>10, <1>11
    <2>2. /\ y \in Seq(Nat) /\ Len(y) = Len(x) + Len(c)
          /\ \A m \in 1 .. Len(x) + Len(c) : y[m] = IF m <= Len(x) THEN x[m] ELSE c[m - Len(x)]
      BY <2>1, ConcatIs
    <2> QED BY <2>1, <2>2
  <1>13. /\ z \in Seq(Nat) /\ Len(z) = 1 + n + e + 1
         /\ \A m \in 1 .. 1 + n + e + 1 : z[m] = IF m <= 1 + n + e THEN y[m] ELSE d[m - (1 + n + e)]
    <2>1. /\ 1 + n + e \in Nat /\ 1 \in Nat /\ Len(y) = 1 + n + e /\ Len(d) = 1 /\ z = y \o d
          /\ y \in Seq(Nat) /\ d \in Seq(Nat)
      BY <1>5, <1>7, <1>10, <1>12
    <2>2. /\ z \in Seq(Nat) /\ Len(z) = Len(y) + Len(d)
          /\ \A m \in 1 .. Len(y) + Len(d) : z[m] = IF m <= Len(y) THEN y[m] ELSE d[m - Len(y)]
      BY <2>1, ConcatIs
    <2> QED BY <2>1, <2>2
  <1>14. z[1] = a[1]
    <2>1. 1 \in 1 .. 1 + n /\ 1 \in 1 .. 1 + n + e /\ 1 \in 1 .. 1 + n + e + 1 /\ 1 <= 1 + n /\ 1 <= 1 + n + e
      BY ONLY <1>10
    <2> QED BY <1>11, <1>12, <1>13, <2>1
  <1>15. \A m \in 1 .. n : z[1 + m] = b[m]
    <2>1. SUFFICES ASSUME NEW m \in 1 .. n PROVE z[1 + m] = b[m]
      OBVIOUS
    <2>2. /\ 1 + m \in 1 .. 1 + n /\ 1 + m \in 1 .. 1 + n + e /\ 1 + m \in 1 .. 1 + n + e + 1
          /\ ~(1 + m <= 1) /\ (1 + m) - 1 = m /\ 1 + m <= 1 + n /\ 1 + m <= 1 + n + e
      BY ONLY <1>10, m \in 1 .. n
    <2> QED BY <1>11, <1>12, <1>13, <2>2
  <1>16. e = 1 => z[n + 2] = c[1]
    <2>1. SUFFICES ASSUME e = 1 PROVE z[n + 2] = c[1]
      OBVIOUS
    <2>2. n + 2 \in 1 .. 1 + n + e /\ n + 2 \in 1 .. 1 + n + e + 1 /\ n + 2 <= 1 + n + e
          /\ ~(n + 2 <= 1 + n) /\ (n + 2) - (1 + n) = 1
      BY <1>10, <2>1
    <2> QED BY <1>12, <1>13, <2>2
  <1>17. z[n + e + 2] = d[1]
    <2>1. n + e + 2 \in 1 .. 1 + n + e + 1 /\ ~(n + e + 2 <= 1 + n + e) /\ (n + e + 2) - (1 + n + e) = 1
      BY <1>10
    <2> QED BY <1>13, <2>1
  <1>18. Len(z) = n + e + 2
    BY <1>10, <1>13
  <1>19. n = Len(it.flags) /\ e = Skip(it)
    BY <1>4, <1>6, <1>9
  <1> QED BY <1>1, <1>4, <1>5, <1>6, <1>8, <1>13, <1>14, <1>15, <1>16, <1>17, <1>18, <1>19

\* An item of a format takes as many characters as its spelling has.
LEMMA SpelledIs ==
    ASSUME NEW it \in Item
    PROVE  Spelled(it) \in Seq(Nat) /\ Len(Spelled(it)) \in Nat \ {0}
  <1>1. CASE "lit" \in DOMAIN it
    <2>1. Spelled(it) \in Seq(Nat) /\ Len(Spelled(it)) = 1
      BY <1>1, SpelledLiteral
    <2> QED BY <2>1
  <1>2. CASE "lit" \notin DOMAIN it
    <2>1. Spelled(it) \in Seq(Nat) /\ Len(Spelled(it)) = Len(it.flags) + Skip(it) + 2 /\ it \in Directive
      BY <1>2, SpelledDirective
    <2>2. Len(it.flags) \in Nat /\ Skip(it) \in Nat
      BY <2>1 DEF Directive, Skip
    <2> QED BY <2>1, <2>2
  <1> QED BY <1>1, <1>2

\* Where a directive is spelled, it stands.
LEMMA SpelledStands ==
    ASSUME NEW it \in Item, "lit" \notin DOMAIN it, NEW f \in Seq(Nat), NEW q \in Nat,
           q + Len(Spelled(it)) <= Len(f),
           \A j \in 1 .. Len(Spelled(it)) : f[q + j] = Spelled(it)[j]
    PROVE  q + 1 \in 1 .. Len(f) /\ f[q + 1] = Ch.PCT /\ Stands(f, q + 1, it)
  <1>1. PICK z, n, e : z = Spelled(it) /\ n = Len(it.flags) /\ e = Skip(it)
    BY Zenon
  <1>2. it.flags \in Seq({Ch.PLUS, Ch.SP}) /\ e \in {0, 1} /\ (it.long => e = 1)
    BY <1>1, SpelledDirective DEF Directive, Skip
  <1>3. n \in Nat /\ e \in Nat /\ Len(f) \in Nat
    BY <1>1, <1>2
  <1>4. Len(z) = n + e + 2
    BY <1>1, SpelledDirective
  <1>5. z[1] = Ch.PCT /\ z[n + e + 2] = it.conv
    BY <1>1, SpelledDirective
  <1>6. \A m \in 1 .. n : z[1 + m] = it.flags[m]
    BY <1>1, SpelledDirective
  <1>7. it.long => z[n + 2] = Ch.l
    BY <1>1, SpelledDirective
  <1>8. \A j \in 1 .. n + e + 2 : f[q + j] = z[j]
    BY <1>1, <1>4, Zenon
  <1>9. q + (n + e + 2) <= Len(f)
    BY <1>1, <1>4, Zenon
  <1>10. q + 1 \in 1 .. Len(f) /\ (q + 1) + n + e + 1 <= Len(f)
    BY ONLY <1>3, <1>9, q \in Nat
  <1>11. f[q + 1] = Ch.PCT
    <2>1. 1 \in 1 .. n + e + 2
      BY ONLY <1>3
    <2> QED BY <1>5, <1>8, <2>1
  <1>12. \A m \in 1 .. n : f[(q + 1) + m] = it.flags[m]
    <2>1. SUFFICES ASSUME NEW m \in 1 .. n PROVE f[(q + 1) + m] = it.flags[m]
      OBVIOUS
    <2>2. 1 + m \in 1 .. n + e + 2 /\ q + (1 + m) = (q + 1) + m
      BY ONLY <1>3, q \in Nat, m \in 1 .. n
    <2>3. f[q + (1 + m)] = z[1 + m]
      BY <1>8, <2>2
    <2> QED BY <1>6, <2>2, <2>3
  <1>13. it.long => f[(q + 1) + n + 1] = Ch.l
    <2>1. SUFFICES ASSUME it.long PROVE f[(q + 1) + n + 1] = Ch.l
      OBVIOUS
    <2>2. n + 2 \in 1 .. n + e + 2 /\ q + (n + 2) = (q + 1) + n + 1
      BY ONLY <1>3, q \in Nat
    <2>3. f[q + (n + 2)] = z[n + 2]
      BY <1>8, <2>2
    <2> QED BY <1>7, <2>1, <2>2, <2>3
  <1>14. f[(q + 1) + n + e + 1] = it.conv
    <2>1. n + e + 2 \in 1 .. n + e + 2 /\ q + (n + e + 2) = (q + 1) + n + e + 1
      BY ONLY <1>3, q \in Nat
    <2>2. f[q + (n + e + 2)] = z[n + e + 2]
      BY <1>8, <2>1
    <2> QED BY <1>5, <2>1, <2>2
  <1> QED BY <1>1, <1>10, <1>11, <1>12, <1>13, <1>14, Zenon DEF Stands

----------------------------------------------------------------------------
(* What npf_vpprintf puts out from a position on *)

\* Out(p)(n), from what is put out at later positions.
OutStep(f, args, g, p, n) ==
    IF p > Len(f) THEN <<>>
    ELSE LET fs == npf_parse_format_spec(f, p)
         IN  IF f[p] # Ch.PCT \/ fs.len = 0
             THEN <<f[p]>> \o g[p + 1][n]
             ELSE IF fs.conv = Ch.PCT
                  THEN npf_convert(fs, 0) \o g[p + fs.len][n]
                  ELSE npf_convert(fs, args[n]) \o g[p + fs.len][n + 1]

IsOut(f, args, q, g) ==
    g = [p \in q .. Len(f) + 1 |-> [n \in Nat |-> OutStep(f, args, g, p, n)]]

\* It depends on later positions only.
LEMMA OutStepLocal ==
    ASSUME NEW f \in Seq(Nat), NEW args, NEW g, NEW h, NEW p \in 1 .. Len(f) + 1,
           \A m \in p + 1 .. Len(f) + 1 : g[m] = h[m]
    PROVE  \A n \in Nat : OutStep(f, args, g, p, n) = OutStep(f, args, h, p, n)
  <1>1. SUFFICES ASSUME NEW n \in Nat PROVE OutStep(f, args, g, p, n) = OutStep(f, args, h, p, n)
    OBVIOUS
  <1>2. PICK L : L = Len(f)
    OBVIOUS
  <1>3. L \in Nat /\ p \in 1 .. L + 1
    BY <1>2
  <1>4. CASE p > L
    BY <1>2, <1>4, Zenon DEF OutStep
  <1>5. CASE ~(p > L)
    <2>1. p \in 1 .. L
      BY <1>3, <1>5
    <2>2. PICK fs : fs = npf_parse_format_spec(f, p)
      OBVIOUS
    <2>3. fs.len \in Nat /\ (fs.len # 0 => p + fs.len <= L + 1)
      BY <1>2, <2>1, <2>2, ParseWithin
    <2>4. g[p + 1] = h[p + 1]
      <3>1. p + 1 \in p + 1 .. L + 1
        BY ONLY <1>3, <2>1
      <3> QED BY <1>2, <3>1
    <2>5. fs.len # 0 => g[p + fs.len] = h[p + fs.len]
      <3>1. SUFFICES ASSUME fs.len # 0 PROVE g[p + fs.len] = h[p + fs.len]
        OBVIOUS
      <3>2. p + fs.len \in p + 1 .. L + 1
        BY <1>3, <2>1, <2>3, <3>1
      <3> QED BY <1>2, <3>2
    <2> QED BY <1>2, <1>5, <2>2, <2>4, <2>5, Zenon DEF OutStep
  <1> QED BY <1>4, <1>5

\* What is put out is defined from every position on.
LEMMA OutExists ==
    ASSUME NEW f \in Seq(Nat), NEW args
    PROVE  \E g : IsOut(f, args, 1, g)
  <1>1. PICK L : L = Len(f)
    OBVIOUS
  <1>2. L \in Nat
    BY <1>1
  <1> DEFINE Bad == {d \in 0 .. L : ~ \E g : IsOut(f, args, L + 1 - d, g)}
  <1>3. SUFFICES ASSUME Bad # {} PROVE FALSE
    <2>1. L \in 0 .. L /\ L + 1 - L = 1
      BY <1>2
    <2>2. L \notin Bad
      <3> HIDE DEF Bad
      <3> QED BY <1>3
    <2>3. \E g : IsOut(f, args, L + 1 - L, g)
      BY <2>1, <2>2, Zenon
    <2> QED BY <2>1, <2>3
  <1>4. PICK d \in Bad : \A m \in Bad : d <= m
    <2>1. Bad \subseteq Nat
      BY <1>2
    <2> HIDE DEF Bad
    <2> QED BY <1>3, <2>1, Least
  <1>5. d \in 0 .. L /\ ~ \E g : IsOut(f, args, L + 1 - d, g)
    BY <1>4
  <1>6. PICK q : q = L + 1 - d
    OBVIOUS
  <1>7. q \in 1 .. L + 1
    BY <1>2, <1>5, <1>6
  <1>8. PICK g : \A p \in q + 1 .. L + 1 : g[p] = [n \in Nat |-> OutStep(f, args, g, p, n)]
    <2>1. CASE d = 0
      <3>1. q + 1 .. L + 1 = {}
        BY <1>2, <1>6, <2>1
      <3> QED BY <3>1
    <2>2. CASE d # 0
      <3>1. d - 1 \in 0 .. L /\ ~(d <= d - 1) /\ L + 1 - (d - 1) = q + 1
        BY <1>2, <1>5, <1>6, <2>2
      <3>2. d - 1 \notin Bad
        <4> HIDE DEF Bad
        <4> QED BY <1>4, <3>1
      <3>3. \E h : IsOut(f, args, q + 1, h)
        BY <3>1, <3>2
      <3>4. PICK h : h = [p \in q + 1 .. L + 1 |-> [n \in Nat |-> OutStep(f, args, h, p, n)]]
        BY <1>1, <3>3, Zenon DEF IsOut
      <3>5. \A p \in q + 1 .. L + 1 : h[p] = [n \in Nat |-> OutStep(f, args, h, p, n)]
        BY <3>4, Zenon
      <3> QED BY <3>5
    <2> QED BY <2>1, <2>2
  <1> DEFINE h == [p \in q .. L + 1 |-> [n \in Nat |-> OutStep(f, args, g, p, n)]]
  <1>9. \A p \in q .. L + 1 : h[p] = [n \in Nat |-> OutStep(f, args, g, p, n)]
    BY Zenon
  <1>10. \A p \in q + 1 .. L + 1 : g[p] = h[p]
    <2>1. \A p \in q + 1 .. L + 1 : p \in q .. L + 1
      BY <1>2, <1>7
    <2> HIDE DEF h
    <2> QED BY <1>8, <1>9, <2>1, Zenon
  <1>11. \A p \in q .. L + 1 : \A n \in Nat : OutStep(f, args, g, p, n) = OutStep(f, args, h, p, n)
    <2>1. SUFFICES ASSUME NEW p \in q .. L + 1
                   PROVE  \A n \in Nat : OutStep(f, args, g, p, n) = OutStep(f, args, h, p, n)
      OBVIOUS
    <2>2. p \in 1 .. L + 1 /\ \A m \in p + 1 .. L + 1 : m \in q + 1 .. L + 1
      BY <1>2, <1>7
    <2>3. \A m \in p + 1 .. L + 1 : g[m] = h[m]
      <3> HIDE DEF h
      <3> QED BY <1>10, <2>2, Zenon
    <2> HIDE DEF h
    <2> QED BY <1>1, <2>2, <2>3, OutStepLocal
  <1>12. h = [p \in q .. L + 1 |-> [n \in Nat |-> OutStep(f, args, h, p, n)]]
    <2>1. \A p \in q .. L + 1 : [n \in Nat |-> OutStep(f, args, g, p, n)] = [n \in Nat |-> OutStep(f, args, h, p, n)]
      <3> HIDE DEF h
      <3> QED BY <1>11, Zenon
    <2>2. PICK k : k = h
      OBVIOUS
    <2>3. h = [p \in q .. L + 1 |-> [n \in Nat |-> OutStep(f, args, k, p, n)]]
      <3>1. \A p \in q .. L + 1 : [n \in Nat |-> OutStep(f, args, g, p, n)] = [n \in Nat |-> OutStep(f, args, k, p, n)]
        <4> HIDE DEF h
        <4> QED BY <2>1, <2>2, Zenon
      <3> QED BY <3>1, Zenon
    <2> HIDE DEF h
    <2> QED BY <2>2, <2>3, Zenon
  <1>13. IsOut(f, args, q, h)
    <2> HIDE DEF h
    <2> QED BY <1>1, <1>12, Zenon DEF IsOut
  <1> QED BY <1>5, <1>6, <1>13

\* The function that npf_vpprintf starts, unfolded at a position.
LEMMA OutIs ==
    ASSUME NEW f \in Seq(Nat), NEW args
    PROVE  \E out : /\ npf_vpprintf(f, args) = out[1][1]
                    /\ \A p \in 1 .. Len(f) + 1 : \A n \in Nat : out[p][n] = OutStep(f, args, out, p, n)
  <1> DEFINE out == CHOOSE g : IsOut(f, args, 1, g)
  <1>1. IsOut(f, args, 1, out)
    BY OutExists, Zenon
  <1>2. npf_vpprintf(f, args) = out[1][1]
    BY Zenon DEF npf_vpprintf, IsOut, OutStep
  <1>3. out = [p \in 1 .. Len(f) + 1 |-> [n \in Nat |-> OutStep(f, args, out, p, n)]]
    <2> HIDE DEF out
    <2> QED BY <1>1, Zenon DEF IsOut
  <1> HIDE DEF out
  <1>4. \A p \in 1 .. Len(f) + 1 : out[p] = [n \in Nat |-> OutStep(f, args, out, p, n)]
    BY <1>3, Zenon
  <1>5. \A p \in 1 .. Len(f) + 1 : \A n \in Nat : out[p][n] = OutStep(f, args, out, p, n)
    BY <1>4, Zenon
  <1> QED BY <1>2, <1>5

----------------------------------------------------------------------------
(* nanoprintf prints what C says *)

\* The text of an item of a format.
ItemText(items, args, k) ==
    IF "lit" \in DOMAIN items[k] THEN <<items[k].lit>>
    ELSE IF items[k].conv = Ch.PCT THEN <<Ch.PCT>>
    ELSE CItem(items[k], args[ArgOf(items, k)])

\* The sequence z stands in f after position q; out is what is put out.
Holds(f, q, z) == q + Len(z) <= Len(f) /\ \A j \in 1 .. Len(z) : f[q + j] = z[j]
Unfolds(f, args, out) ==
    \A p \in 1 .. Len(f) + 1 : \A n \in Nat : out[p][n] = OutStep(f, args, out, p, n)

\* A literal is put out as it is.
LEMMA LiteralOut ==
    ASSUME NEW it \in Item, "lit" \in DOMAIN it, NEW f \in Seq(Nat), NEW q \in Nat,
           Holds(f, q, Spelled(it)), NEW args, NEW out, Unfolds(f, args, out), NEW n \in Nat
    PROVE  out[q + 1][n] = <<it.lit>> \o out[q + Len(Spelled(it)) + 1][n]
  <1>1. Spelled(it) = <<it.lit>> /\ Len(Spelled(it)) = 1 /\ it.lit # Ch.PCT
    BY SpelledLiteral
  <1>2. q + 1 <= Len(f) /\ f[q + 1] = it.lit
    BY <1>1 DEF Holds
  <1>3. q + 1 \in 1 .. Len(f) + 1 /\ ~(q + 1 > Len(f)) /\ (q + 1) + 1 = q + Len(Spelled(it)) + 1
    <2>1. PICK L : L = Len(f)
      OBVIOUS
    <2>2. L \in Nat /\ q + 1 <= L
      BY <1>2, <2>1
    <2>3. q + 1 \in 1 .. L + 1 /\ ~(q + 1 > L) /\ (q + 1) + 1 = q + 1 + 1
      BY ONLY <2>2, q \in Nat
    <2> QED BY <1>1, <2>1, <2>3
  <1>4. out[q + 1][n] = OutStep(f, args, out, q + 1, n)
    BY <1>3, Zenon DEF Unfolds
  <1>5. f[q + 1] # Ch.PCT
    BY <1>1, <1>2
  <1>6. out[q + 1][n] = <<f[q + 1]>> \o out[(q + 1) + 1][n]
    BY <1>3, <1>4, <1>5, Zenon DEF OutStep
  <1> QED BY <1>2, <1>3, <1>6

\* A directive puts out its conversion; "%%" takes no argument.
LEMMA DirectiveOut ==
    ASSUME NEW it \in Item, "lit" \notin DOMAIN it, NEW f \in Seq(Nat), NEW q \in Nat,
           Holds(f, q, Spelled(it)), NEW args, NEW out, Unfolds(f, args, out), NEW n \in Nat
    PROVE  LET next == q + Len(Spelled(it)) + 1
               fs == [len |-> Len(it.flags) + Skip(it) + 2, prepend |-> npf_prepend(it.flags),
                      long |-> it.long, conv |-> it.conv]
           IN  out[q + 1][n] = IF it.conv = Ch.PCT THEN <<Ch.PCT>> \o out[next][n]
                               ELSE npf_convert(fs, args[n]) \o out[next][n + 1]
  <1>1. q + 1 \in 1 .. Len(f) /\ f[q + 1] = Ch.PCT /\ Stands(f, q + 1, it)
    BY SpelledStands DEF Holds
  <1>2. it \in Directive /\ Len(Spelled(it)) = Len(it.flags) + Skip(it) + 2
    BY SpelledDirective
  <1>3. PICK fs : fs = [len |-> Len(it.flags) + Skip(it) + 2, prepend |-> npf_prepend(it.flags),
                        long |-> it.long, conv |-> it.conv]
    OBVIOUS
  <1>4. npf_parse_format_spec(f, q + 1) = fs
    BY <1>1, <1>2, <1>3, ParseIs
  <1>5. fs.conv = it.conv /\ fs.len = Len(Spelled(it))
    BY <1>2, <1>3
  <1>6. PICK e : e = Len(Spelled(it))
    OBVIOUS
  <1>7. e \in Nat \ {0}
    BY <1>6, SpelledIs
  <1>8. (q + 1) + e = q + e + 1
    BY ONLY <1>7, q \in Nat
  <1>9. q + 1 \in 1 .. Len(f) + 1 /\ ~(q + 1 > Len(f))
    BY <1>1
  <1>10. out[q + 1][n] = OutStep(f, args, out, q + 1, n)
    BY <1>9, Zenon DEF Unfolds
  <1>11. fs.len # 0 /\ (q + 1) + fs.len = q + Len(Spelled(it)) + 1
    BY <1>5, <1>6, <1>7, <1>8
  <1>12. out[q + 1][n] = IF fs.conv = Ch.PCT THEN npf_convert(fs, 0) \o out[(q + 1) + fs.len][n]
                         ELSE npf_convert(fs, args[n]) \o out[(q + 1) + fs.len][n + 1]
    BY <1>1, <1>4, <1>9, <1>10, <1>11, Zenon DEF OutStep
  <1>13. fs.conv = Ch.PCT => npf_convert(fs, 0) = <<Ch.PCT>>
    <2>1. SUFFICES ASSUME fs.conv = Ch.PCT PROVE npf_convert(fs, 0) = <<Ch.PCT>>
      OBVIOUS
    <2>2. fs.conv # Ch.c /\ fs.conv # Ch.s /\ fs.conv \notin SignedConv
      BY <2>1 DEF Ch, SignedConv
    <2> QED BY <2>1, <2>2, Zenon DEF npf_convert
  <1>14. out[q + 1][n] = IF it.conv = Ch.PCT THEN <<Ch.PCT>> \o out[q + Len(Spelled(it)) + 1][n]
                         ELSE npf_convert(fs, args[n]) \o out[q + Len(Spelled(it)) + 1][n + 1]
    BY <1>5, <1>11, <1>12, <1>13, Zenon
  <1> QED BY <1>3, <1>14, Zenon

\* An item puts out its text and goes on with the next item.
LEMMA ItemOut ==
    ASSUME PowerLaw, NEW items, NEW args, Formed(items, args), NEW f \in Seq(Nat), NEW q \in Nat,
           NEW k \in 1 .. Len(items), Holds(f, q, Spelled(items[k])), NEW out, Unfolds(f, args, out)
    PROVE  /\ out[q + 1][ArgOf(items, k - 1) + 1] =
                ItemText(items, args, k) \o out[q + Len(Spelled(items[k])) + 1][ArgOf(items, k) + 1]
           /\ ItemText(items, args, k) \in Seq(Nat)
  <1>1. PICK it : it = items[k]
    OBVIOUS
  <1>2. items \in Seq(Item) /\ it \in Item
    BY <1>1 DEF Formed
  <1>3. k - 1 \in Nat /\ (k - 1) + 1 = k
    BY <1>2
  <1>4. PICK n, m : n = ArgOf(items, k - 1) /\ m = ArgOf(items, k)
    BY Zenon
  <1>5. n \in Nat /\ m = n + (IF TakesArg(it) THEN 1 ELSE 0)
    BY <1>1, <1>3, <1>4, ArgOfIs
  <1>6. n + 1 \in Nat
    BY <1>5
  <1>7. PICK next : next = q + Len(Spelled(it)) + 1
    OBVIOUS
  <1>10. Holds(f, q, Spelled(it))
    BY <1>1
  <1>8. CASE "lit" \in DOMAIN it
    <2>1. m = n
      BY <1>5, <1>8 DEF TakesArg
    <2>2. out[q + 1][n + 1] = <<it.lit>> \o out[next][n + 1]
      <3>1. PICK a : a = n + 1
        OBVIOUS
      <3>2. a \in Nat
        BY <1>6, <3>1
      <3>3. out[q + 1][a] = <<it.lit>> \o out[q + Len(Spelled(it)) + 1][a]
        BY <1>2, <1>8, <1>10, <3>2, LiteralOut
      <3> QED BY <1>7, <3>1, <3>3
    <2>3. ItemText(items, args, k) = <<it.lit>>
      BY <1>1, <1>8, Zenon DEF ItemText
    <2>4. <<it.lit>> \in Seq(Nat)
      BY <1>2, <1>8, SpelledLiteral
    <2> QED BY <1>1, <1>4, <1>7, <2>1, <2>2, <2>3, <2>4, Zenon
  <1>9. CASE "lit" \notin DOMAIN it
    <2> DEFINE fs == [len |-> Len(it.flags) + Skip(it) + 2, prepend |-> npf_prepend(it.flags),
                      long |-> it.long, conv |-> it.conv]
    <2>1. out[q + 1][n + 1] = IF it.conv = Ch.PCT THEN <<Ch.PCT>> \o out[next][n + 1]
                              ELSE npf_convert(fs, args[n + 1]) \o out[next][(n + 1) + 1]
      <3>1. PICK a : a = n + 1
        OBVIOUS
      <3>2. a \in Nat
        BY <1>6, <3>1
      <3>3. out[q + 1][a] = IF it.conv = Ch.PCT THEN <<Ch.PCT>> \o out[q + Len(Spelled(it)) + 1][a]
                            ELSE npf_convert(fs, args[a]) \o out[q + Len(Spelled(it)) + 1][a + 1]
        BY <1>2, <1>9, <1>10, <3>2, DirectiveOut
      <3> QED BY <1>7, <3>1, <3>3
    <2>2. CASE it.conv = Ch.PCT
      <3>1. m = n
        BY <1>5, <2>2 DEF TakesArg
      <3>2. ItemText(items, args, k) = <<Ch.PCT>>
        BY <1>1, <1>9, <2>2, Zenon DEF ItemText
      <3>3. <<Ch.PCT>> \in Seq(Nat)
        BY DEF Ch
      <3> HIDE DEF fs
      <3> QED BY <1>1, <1>4, <1>7, <2>1, <2>2, <3>1, <3>2, <3>3, Zenon
    <2>3. CASE it.conv # Ch.PCT
      <3>1. TakesArg(it) /\ m = n + 1
        BY <1>5, <1>9, <2>3 DEF TakesArg
      <3>2. ItemText(items, args, k) = CItem(it, args[m])
        BY <1>1, <1>4, <1>9, <2>3, Zenon DEF ItemText
      <3>3. ArgFits(it, args[m])
        BY <1>1, <1>4, <3>1, Zenon DEF Formed
      <3>4. fs.prepend = npf_prepend(it.flags) /\ fs.long = it.long /\ fs.conv = it.conv
        OBVIOUS
      <3> HIDE DEF fs
      <3>5. npf_convert(fs, args[m]) = CItem(it, args[m]) /\ CItem(it, args[m]) \in Seq(Nat)
        BY <1>2, <3>1, <3>3, <3>4, ConvertIs
      <3>6. out[q + 1][n + 1] = CItem(it, args[m]) \o out[next][m + 1]
        BY <2>1, <2>3, <3>1, <3>5, Zenon
      <3> QED BY <1>1, <1>4, <1>7, <3>2, <3>5, <3>6, Zenon
    <2> QED BY <2>2, <2>3
  <1> QED BY <1>8, <1>9

\* The texts of a well-formed call are sequences of characters.
LEMMA ItemTextTyped ==
    ASSUME PowerLaw, NEW items, NEW args, Formed(items, args), NEW k \in 1 .. Len(items)
    PROVE  ItemText(items, args, k) \in Seq(Nat)
  <1>1. PICK it : it = items[k]
    OBVIOUS
  <1>2. items \in Seq(Item) /\ it \in Item
    BY <1>1 DEF Formed
  <1>3. CASE "lit" \in DOMAIN it
    <2>1. ItemText(items, args, k) = <<it.lit>>
      BY <1>1, <1>3, Zenon DEF ItemText
    <2>2. <<it.lit>> \in Seq(Nat)
      BY <1>2, <1>3, SpelledLiteral
    <2> QED BY <2>1, <2>2
  <1>4. CASE "lit" \notin DOMAIN it /\ it.conv = Ch.PCT
    <2>1. ItemText(items, args, k) = <<Ch.PCT>>
      BY <1>1, <1>4, Zenon DEF ItemText
    <2>2. <<Ch.PCT>> \in Seq(Nat)
      BY DEF Ch
    <2> QED BY <2>1, <2>2
  <1>5. CASE TakesArg(it)
    <2>1. PICK arg : arg = args[ArgOf(items, k)]
      OBVIOUS
    <2>2. ItemText(items, args, k) = CItem(it, arg)
      BY <1>1, <1>5, <2>1, Zenon DEF ItemText, TakesArg
    <2>3. ArgFits(it, arg)
      BY <1>1, <1>5, <2>1, Zenon DEF Formed
    <2>4. PICK fs : fs = [prepend |-> npf_prepend(it.flags), long |-> it.long, conv |-> it.conv]
      OBVIOUS
    <2>5. fs.prepend = npf_prepend(it.flags) /\ fs.long = it.long /\ fs.conv = it.conv
      BY <2>4
    <2>6. CItem(it, arg) \in Seq(Nat)
      BY <1>2, <1>5, <2>3, <2>5, ConvertIs
    <2> QED BY <2>2, <2>6
  <1> QED BY <1>3, <1>4, <1>5 DEF TakesArg

\* The spellings and the texts of the items.
SpelledSeq(items) == [k \in DOMAIN items |-> Spelled(items[k])]
TextSeq(items, args) == [k \in DOMAIN items |-> ItemText(items, args, k)]

\* Spell and CText put them together.
LEMMA SpellIs ==
    ASSUME NEW items \in Seq(Item)
    PROVE  /\ Spell(items) = FlattenSeq(SpelledSeq(items))
           /\ SpelledSeq(items) \in Seq(Seq(Nat)) /\ Len(SpelledSeq(items)) = Len(items)
           /\ \A k \in 1 .. Len(items) : SpelledSeq(items)[k] = Spelled(items[k])
  <1>1. Spell(items) = FlattenSeq(SpelledSeq(items))
    BY Zenon DEF Spell, SpelledSeq, Spelled
  <1>2. DOMAIN items = 1 .. Len(items) /\ Len(items) \in Nat
    OBVIOUS
  <1>3. \A k \in 1 .. Len(items) : Spelled(items[k]) \in Seq(Nat)
    BY SpelledIs
  <1> QED BY <1>1, <1>2, <1>3 DEF SpelledSeq

\* The same for the text.
LEMMA CTextIs ==
    ASSUME PowerLaw, NEW items, NEW args, Formed(items, args)
    PROVE  /\ CText(items, args) = FlattenSeq(TextSeq(items, args))
           /\ TextSeq(items, args) \in Seq(Seq(Nat)) /\ Len(TextSeq(items, args)) = Len(items)
           /\ \A k \in 1 .. Len(items) : TextSeq(items, args)[k] = ItemText(items, args, k)
  <1>1. CText(items, args) = FlattenSeq(TextSeq(items, args))
    BY Zenon DEF CText, TextSeq, ItemText
  <1>2. items \in Seq(Item)
    BY DEF Formed
  <1>3. DOMAIN items = 1 .. Len(items) /\ Len(items) \in Nat
    BY <1>2
  <1>4. \A k \in 1 .. Len(items) : ItemText(items, args, k) \in Seq(Nat)
    BY ItemTextTyped
  <1> QED BY <1>1, <1>3, <1>4 DEF TextSeq

\* From item k on, the rest of the text is put out.
Done(G, k) == IF k = 1 THEN <<>> ELSE G[k - 1]
Rest(out, F, items, k) == out[Before(F, k) + 1][ArgOf(items, k - 1) + 1]

\* One item less.
LEMMA RestStep ==
    ASSUME PowerLaw, NEW items, NEW args, Formed(items, args), NEW F, NEW G, NEW f \in Seq(Nat), NEW out,
           IsFlat(SpelledSeq(items), Len(items), F), f = F[Len(items)], Unfolds(f, args, out),
           IsFlat(TextSeq(items, args), Len(items), G), NEW k \in 1 .. Len(items), NEW whole,
           Rest(out, F, items, k + 1) \in Seq(Nat), Cat(Done(G, k + 1), Rest(out, F, items, k + 1)) = whole
    PROVE  Rest(out, F, items, k) \in Seq(Nat) /\ Cat(Done(G, k), Rest(out, F, items, k)) = whole
  <1>1. PICK N, s, t : N = Len(items) /\ s = SpelledSeq(items) /\ t = TextSeq(items, args)
    BY Zenon
  <1>2. items \in Seq(Item)
    BY DEF Formed
  <1>3. N \in Nat /\ k \in 1 .. N
    BY <1>1, <1>2
  <1>4. s \in Seq(Seq(Nat)) /\ Len(s) = N /\ s[k] = Spelled(items[k])
    BY <1>1, <1>2, SpellIs
  <1>5. t \in Seq(Seq(Nat)) /\ Len(t) = N /\ t[k] = ItemText(items, args, k)
    BY <1>1, CTextIs
  <1>6. IsFlat(s, Len(s), F) /\ IsFlat(t, Len(t), G)
    BY <1>1, <1>4, <1>5
  <1>7. N \in 1 .. N /\ N \in 1 .. Len(s) /\ k \in 1 .. N
    BY <1>3, <1>4
  <1>8. PICK q, e : q = Before(F, k) /\ e = Len(s[k])
    BY Zenon
  <1>9. q \in Nat /\ Before(F, k + 1) = q + e /\ q + e <= Len(F[N]) /\ \A j \in 1 .. e : F[N][q + j] = s[k][j]
    <2>1. \A i \in 1 .. Len(s) : \A m \in 1 .. i : Placed(F, s, i, m)
      BY <1>4, <1>6, FlatAt
    <2>2. /\ Before(F, k) \in Nat /\ Before(F, k + 1) = Before(F, k) + Len(s[k])
          /\ Before(F, k + 1) <= Len(F[N])
          /\ \A j \in 1 .. Len(s[k]) : F[N][Before(F, k) + j] = s[k][j]
      BY <1>7, <2>1, Zenon DEF Placed
    <2> QED BY <1>8, <2>2
  <1>10. Holds(f, q, Spelled(items[k]))
    <2>1. f = F[N]
      BY <1>1
    <2>2. Holds(f, q, s[k])
      BY <1>8, <1>9, <2>1, Zenon DEF Holds
    <2> QED BY <1>4, <2>2
  <1>11. PICK r, u : r = out[q + e + 1][ArgOf(items, k) + 1] /\ u = t[k]
    BY Zenon
  <1>12. out[q + 1][ArgOf(items, k - 1) + 1] = u \o r /\ u \in Seq(Nat)
    <2>1. e = Len(Spelled(items[k]))
      BY <1>4, <1>8
    <2>2. /\ out[q + 1][ArgOf(items, k - 1) + 1] =
               ItemText(items, args, k) \o out[q + Len(Spelled(items[k])) + 1][ArgOf(items, k) + 1]
          /\ ItemText(items, args, k) \in Seq(Nat)
      BY <1>9, <1>10, ItemOut
    <2> QED BY <1>5, <1>11, <2>1, <2>2, Zenon
  <1>13. Rest(out, F, items, k + 1) = r
    <2>1. (k + 1) - 1 = k
      BY <1>3
    <2> QED BY <1>9, <1>11, <2>1, Zenon DEF Rest
  <1>14. Rest(out, F, items, k) = Cat(u, r)
    BY <1>8, <1>12, Zenon DEF Rest, Cat
  <1>15. r \in Seq(Nat) /\ Cat(u, r) \in Seq(Nat)
    <2>1. r \in Seq(Nat)
      BY <1>13
    <2> QED BY <1>12, <2>1 DEF Cat
  <1>16. Done(G, k) \in Seq(Nat) /\ Done(G, k + 1) = Cat(Done(G, k), u)
    <2>1. \A i \in 1 .. N : G[i] \in Seq(Nat)
      BY <1>5, <1>6, FlatTyped
    <2>2. G[k] = IF k = 1 THEN u ELSE G[k - 1] \o u
      BY <1>3, <1>5, <1>6, <1>11, Zenon DEF IsFlat
    <2>3. Done(G, k + 1) = G[k]
      <3>1. k + 1 # 1 /\ (k + 1) - 1 = k
        BY <1>3
      <3> QED BY <3>1 DEF Done
    <2>4. CASE k = 1
      <3>1. Done(G, k) = <<>> /\ <<>> \in Seq(Nat)
        BY <2>4 DEF Done
      <3>2. Cat(<<>>, u) = u
        BY <1>12 DEF Cat
      <3> QED BY <2>2, <2>3, <2>4, <3>1, <3>2
    <2>5. CASE k # 1
      <3>1. k - 1 \in 1 .. N
        BY <1>3, <2>5
      <3>2. Done(G, k) = G[k - 1]
        BY <2>5 DEF Done
      <3>3. Cat(G[k - 1], u) = G[k]
        BY <2>2, <2>5, Zenon DEF Cat
      <3> QED BY <2>1, <2>3, <3>1, <3>2, <3>3
    <2> QED BY <2>4, <2>5
  <1>17. Cat(Cat(Done(G, k), u), r) = Cat(Done(G, k), Cat(u, r))
    BY <1>12, <1>15, <1>16, CatGroups
  <1>18. Cat(Done(G, k + 1), r) = whole
    BY <1>13
  <1> QED BY <1>14, <1>15, <1>16, <1>17, <1>18, Zenon

\* Of no items, nothing is printed.
LEMMA NothingPrinted ==
    ASSUME NEW args
    PROVE  npf_vpprintf(<<>>, args) = <<>>
  <1>1. <<>> \in Seq(Nat) /\ Len(<<>>) = 0
    OBVIOUS
  <1>2. PICK out : /\ npf_vpprintf(<<>>, args) = out[1][1]
                   /\ \A p \in 1 .. Len(<<>>) + 1 : \A n \in Nat : out[p][n] = OutStep(<<>>, args, out, p, n)
    BY <1>1, OutIs
  <1>3. 1 \in 1 .. Len(<<>>) + 1 /\ 1 \in Nat /\ 1 > Len(<<>>)
    BY <1>1
  <1>4. out[1][1] = OutStep(<<>>, args, out, 1, 1)
    BY <1>2, <1>3, Zenon
  <1>5. OutStep(<<>>, args, out, 1, 1) = <<>>
    BY <1>3, Zenon DEF OutStep
  <1> QED BY <1>2, <1>4, <1>5

\* nanoprintf, as console.c configures it, prints what C says: for every format
\* of the directives that were compiled in, with arguments of their types.
THEOREM NanoprintfAsC ==
    ASSUME PowerLaw, NEW items, NEW args, Formed(items, args)
    PROVE  npf_vpprintf(Spell(items), args) = CText(items, args) /\ CText(items, args) \in Seq(Nat)
  <1>1. PICK N, s, t, f : N = Len(items) /\ s = SpelledSeq(items) /\ t = TextSeq(items, args) /\ f = Spell(items)
    BY Zenon
  <1>2. items \in Seq(Item)
    BY DEF Formed
  <1>3. N \in Nat
    BY <1>1, <1>2
  <1>4. s \in Seq(Seq(Nat)) /\ Len(s) = N /\ f = FlattenSeq(s)
    BY <1>1, <1>2, SpellIs
  <1>5. t \in Seq(Seq(Nat)) /\ Len(t) = N /\ CText(items, args) = FlattenSeq(t)
    BY <1>1, CTextIs
  <1>6. f \in Seq(Nat) /\ CText(items, args) \in Seq(Nat)
    BY <1>4, <1>5, FlattenIs
  <1>7. CASE N = 0
    <2>1. f = <<>> /\ CText(items, args) = <<>>
      BY <1>4, <1>5, <1>7, FlattenIs
    <2> QED BY <1>1, <1>6, <2>1, NothingPrinted
  <1>8. CASE N # 0
    <2>1. PICK F : IsFlat(s, Len(s), F) /\ f = F[Len(s)]
      BY <1>4, <1>8, FlattenIs
    <2>2. PICK G : IsFlat(t, Len(t), G) /\ CText(items, args) = G[Len(t)]
      BY <1>5, <1>8, FlattenIs
    <2>3. PICK whole : whole = G[N]
      OBVIOUS
    <2>4. whole = CText(items, args) /\ whole \in Seq(Nat)
      BY <1>5, <1>6, <2>2, <2>3
    <2>5. PICK out : npf_vpprintf(f, args) = out[1][1] /\ Unfolds(f, args, out)
      BY <1>6, OutIs, Zenon DEF Unfolds
    <2> DEFINE Good(k) == Rest(out, F, items, k) \in Seq(Nat) /\ Cat(Done(G, k), Rest(out, F, items, k)) = whole
               Bad == {d \in 0 .. N : ~Good(N + 1 - d)}
    <2>6. Good(N + 1)
      <3>1. N + 1 # 1 /\ (N + 1) - 1 = N
        BY <1>3, <1>8
      <3>2. Done(G, N + 1) = whole
        BY <2>3, <3>1 DEF Done
      <3>3. Before(F, N + 1) = Len(f)
        BY <1>4, <2>1, <3>1 DEF Before
      <3>4. PICK n : n = ArgOf(items, N) + 1
        OBVIOUS
      <3>5. n \in Nat
        BY <1>3, <3>4, ArgOfIs
      <3>6. Len(f) + 1 \in 1 .. Len(f) + 1 /\ Len(f) + 1 > Len(f)
        BY <1>6
      <3>7. out[Len(f) + 1][n] = OutStep(f, args, out, Len(f) + 1, n)
        BY <2>5, <3>5, <3>6, Zenon DEF Unfolds
      <3>8. out[Len(f) + 1][n] = <<>>
        BY <3>6, <3>7, Zenon DEF OutStep
      <3>9. Rest(out, F, items, N + 1) = <<>>
        BY <3>1, <3>3, <3>4, <3>8, Zenon DEF Rest
      <3>10. Cat(whole, <<>>) = whole /\ <<>> \in Seq(Nat)
        BY <2>4 DEF Cat
      <3> QED BY <3>2, <3>9, <3>10
    <2>7. \A k \in 1 .. N : Good(k + 1) => Good(k)
      <3>1. SUFFICES ASSUME NEW k \in 1 .. N, Good(k + 1) PROVE Good(k)
        OBVIOUS
      <3>2. IsFlat(SpelledSeq(items), Len(items), F) /\ f = F[Len(items)]
        BY <1>1, <1>4, <2>1
      <3>3. IsFlat(TextSeq(items, args), Len(items), G)
        BY <1>1, <1>5, <2>2
      <3>4. k \in 1 .. Len(items)
        BY <1>1
      <3> QED BY <1>6, <2>5, <3>1, <3>2, <3>3, <3>4, RestStep
    <2> HIDE DEF Good
    <2>8. Bad = {}
      <3>1. SUFFICES ASSUME Bad # {} PROVE FALSE
        OBVIOUS
      <3>2. PICK d \in Bad : \A m \in Bad : d <= m
        <4>1. Bad \subseteq Nat
          BY <1>3
        <4> HIDE DEF Bad
        <4> QED BY <3>1, <4>1, Least
      <3>3. d \in 0 .. N /\ ~Good(N + 1 - d)
        BY <3>2
      <3>4. d # 0
        <4>1. N + 1 - 0 = N + 1
          BY <1>3
        <4> QED BY <2>6, <3>3, <4>1
      <3>5. d - 1 \in 0 .. N /\ ~(d <= d - 1) /\ N + 1 - (d - 1) = (N + 1 - d) + 1 /\ N + 1 - d \in 1 .. N
        BY <1>3, <3>3, <3>4
      <3>6. d - 1 \notin Bad
        <4> HIDE DEF Bad
        <4> QED BY <3>2, <3>5
      <3>7. Good(N + 1 - (d - 1))
        BY <3>5, <3>6
      <3>8. Good((N + 1 - d) + 1)
        BY <3>5, <3>7
      <3> QED BY <2>7, <3>3, <3>5, <3>8
    <2>9. Good(1)
      <3>1. N \in 0 .. N /\ N + 1 - N = 1
        BY <1>3
      <3>2. Good(N + 1 - N)
        BY <2>8, <3>1
      <3> QED BY <3>1, <3>2
    <2>10. Rest(out, F, items, 1) = out[1][1] /\ Done(G, 1) = <<>>
      <3>1. Before(F, 1) = 0 /\ Done(G, 1) = <<>>
        BY DEF Before, Done
      <3>2. 1 - 1 = 0 /\ 0 + 1 = 1 /\ 0 \in Nat
        OBVIOUS
      <3>3. ArgOf(items, 0) = 0
        BY <3>2, ArgOfIs
      <3>4. Rest(out, F, items, 1) = out[0 + 1][ArgOf(items, 1 - 1) + 1]
        BY <3>1, Zenon DEF Rest
      <3> QED BY <3>1, <3>2, <3>3, <3>4
    <2>11. out[1][1] \in Seq(Nat) /\ Cat(<<>>, out[1][1]) = whole
      BY <2>9, <2>10 DEF Good
    <2>12. out[1][1] = whole
      BY <2>11 DEF Cat
    <2> QED BY <1>1, <2>4, <2>5, <2>12
  <1> QED BY <1>7, <1>8

----------------------------------------------------------------------------
(* Two formats, one after the other *)

\* The first of two lists, and what is left of it.
LEMMA ConcatTail ==
    ASSUME NEW S, NEW a \in Seq(S), NEW b \in Seq(S), a # <<>>
    PROVE  a \o b # <<>> /\ Head(a \o b) = Head(a) /\ Tail(a \o b) = Tail(a) \o b
  OBVIOUS

\* Two lists of sequences are put together one after the other.
LEMMA FlattenConcat ==
    ASSUME NEW a \in Seq(Seq(Nat)), NEW b \in Seq(Seq(Nat))
    PROVE  FlattenSeq(a \o b) = FlattenSeq(a) \o FlattenSeq(b)
  <1> DEFINE Good(x) == FlattenSeq(x \o b) = Cat(FlattenSeq(x), FlattenSeq(b))
             Bad(k) == \E x \in Seq(Seq(Nat)) : Len(x) = k /\ ~Good(x)
             B == {k \in Nat : Bad(k)}
  <1>1. \A x \in Seq(Seq(Nat)) : FlattenSeq(x) \in Seq(Nat)
    BY FlattenIs
  <1>2. ASSUME B # {} PROVE FALSE
    <2>1. PICK k \in B : \A l \in B : k <= l
      <3>1. B \subseteq Nat
        OBVIOUS
      <3> QED BY <1>2, <3>1, Least
    <2>2. PICK x \in Seq(Seq(Nat)) : Len(x) = k /\ ~Good(x)
      BY <2>1
    <2>3. k \in Nat
      BY <2>1
    <2>4. CASE x = <<>>
      <3>1. x \o b = b
        BY <2>4, ConcatEmptySeq
      <3>2. FlattenSeq(x) = <<>>
        <4>1. Len(x) = 0
          BY <2>4
        <4> QED BY <4>1, FlattenIs
      <3>3. PICK t : t = FlattenSeq(b)
        OBVIOUS
      <3>4. t \in Seq(Nat)
        BY <1>1, <3>3
      <3>5. Cat(<<>>, t) = t
        BY <3>4 DEF Cat
      <3>6. Good(x)
        BY <3>1, <3>2, <3>3, <3>5, Zenon
      <3> QED BY <2>2, <3>6
    <2>5. CASE x # <<>>
      <3>1. PICK y, t, h : y = x \o b /\ t = Tail(x) /\ h = Head(x)
        BY Zenon
      <3>2. y \in Seq(Seq(Nat))
        BY <3>1, ConcatProperties
      <3>3. y # <<>> /\ Head(y) = h /\ Tail(y) = t \o b
        BY <2>5, <3>1, ConcatTail
      <3>4. t \in Seq(Seq(Nat)) /\ h \in Seq(Nat) /\ Len(t) = k - 1 /\ k - 1 \in Nat /\ ~(k <= k - 1)
        BY <2>2, <2>5, <3>1, HeadTailProperties
      <3>5. Good(t)
        <4> HIDE DEF Good
        <4>1. ~Bad(k - 1)
          <5> HIDE DEF Bad
          <5> QED BY <2>1, <3>4
        <4> QED BY <3>4, <4>1
      <3>6. FlattenSeq(y) = Cat(h, FlattenSeq(t \o b))
        BY <3>2, <3>3, FlattenCons DEF Cat
      <3>7. FlattenSeq(x) = Cat(h, FlattenSeq(t))
        BY <2>5, <3>1, FlattenCons DEF Cat
      <3>8. PICK u, v : u = FlattenSeq(t) /\ v = FlattenSeq(b)
        BY Zenon
      <3>9. u \in Seq(Nat) /\ v \in Seq(Nat)
        BY <1>1, <3>4, <3>8
      <3>10. Cat(h, Cat(u, v)) = Cat(Cat(h, u), v)
        BY <3>4, <3>9, CatGroups
      <3>11. Good(x)
        BY <3>1, <3>5, <3>6, <3>7, <3>8, <3>10, Zenon
      <3> QED BY <2>2, <3>11
    <2> QED BY <2>4, <2>5
  <1>3. Good(a)
    <2>1. ~Bad(Len(a))
      <3> HIDE DEF Bad
      <3>1. Len(a) \in Nat
        OBVIOUS
      <3> QED BY <1>2, <3>1
    <2> HIDE DEF Good
    <2> QED BY <2>1
  <1> QED BY <1>3, Zenon DEF Cat

\* The arguments of two formats follow each other.
LEMMA ArgOfConcat ==
    ASSUME NEW a \in Seq(Item), NEW b \in Seq(Item)
    PROVE  /\ \A k \in 0 .. Len(a) : ArgOf(a \o b, k) = ArgOf(a, k)
           /\ \A k \in 0 .. Len(b) : ArgOf(a \o b, Len(a) + k) = ArgOf(a, Len(a)) + ArgOf(b, k)
  <1>1. PICK z, m, n : z = a \o b /\ m = Len(a) /\ n = Len(b)
    BY Zenon
  <1>2. m \in Nat /\ n \in Nat
    BY <1>1
  <1>3. /\ \A k \in 1 .. m : z[k] = a[k]
        /\ \A k \in 1 .. n : z[m + k] = b[k]
    <2>1. \A k \in 1 .. Len(a) + Len(b) : z[k] = IF k <= Len(a) THEN a[k] ELSE b[k - Len(a)]
      BY <1>1, ConcatIs
    <2>2. \A k \in 1 .. m + n : z[k] = IF k <= m THEN a[k] ELSE b[k - m]
      BY <1>1, <2>1
    <2> QED BY <1>2, <2>2
  <1>4. \A s : \A k \in Nat : ArgOf(s, k) \in Nat /\ ArgOf(s, 0) = 0
    BY ArgOfIs
  <1> DEFINE Next(s, k) == ArgOf(s, k + 1) = ArgOf(s, k) + (IF TakesArg(s[k + 1]) THEN 1 ELSE 0)
  <1>5. \A s : \A k \in Nat : Next(s, k)
    BY ArgOfIs
  <1> DEFINE B == {k \in 0 .. m : ArgOf(z, k) # ArgOf(a, k)}
             C == {k \in 0 .. n : ArgOf(z, m + k) # ArgOf(a, m) + ArgOf(b, k)}
  <1>6. ASSUME B # {} PROVE FALSE
    <2>1. PICK k \in B : \A l \in B : k <= l
      <3>1. B \subseteq Nat
        BY <1>2
      <3> HIDE DEF B
      <3> QED BY <1>6, <3>1, Least
    <2>2. k \in 0 .. m /\ ArgOf(z, k) # ArgOf(a, k) /\ k \in Nat
      BY <1>2, <2>1
    <2>3. k # 0
      BY <1>4, <2>2
    <2>4. PICK j : j = k - 1
      OBVIOUS
    <2>5. j \in Nat /\ j + 1 = k /\ j \in 0 .. m /\ ~(k <= j) /\ j + 1 \in 1 .. m
      BY <1>2, <2>2, <2>3, <2>4
    <2>6. ArgOf(z, j) = ArgOf(a, j)
      BY <2>1, <2>5
    <2>7. Next(z, j) /\ Next(a, j) /\ z[j + 1] = a[j + 1]
      BY <1>3, <1>5, <2>5, Zenon
    <2>8. ArgOf(z, j + 1) = ArgOf(a, j + 1)
      BY <2>6, <2>7
    <2> QED BY <2>2, <2>5, <2>8
  <1>7. \A k \in 0 .. m : ArgOf(z, k) = ArgOf(a, k)
    BY <1>6
  <1>8. ASSUME C # {} PROVE FALSE
    <2>1. PICK k \in C : \A l \in C : k <= l
      <3>1. C \subseteq Nat
        BY <1>2
      <3> HIDE DEF C
      <3> QED BY <1>8, <3>1, Least
    <2>2. k \in 0 .. n /\ ArgOf(z, m + k) # ArgOf(a, m) + ArgOf(b, k) /\ k \in Nat
      BY <1>2, <2>1
    <2>3. k # 0
      <3>1. m + 0 = m /\ m \in 0 .. m /\ 0 \in Nat
        BY <1>2
      <3>2. ArgOf(z, m + 0) = ArgOf(a, m) /\ ArgOf(b, 0) = 0 /\ ArgOf(a, m) \in Nat
        BY <1>2, <1>4, <1>7, <3>1
      <3>3. ArgOf(z, m + 0) = ArgOf(a, m) + ArgOf(b, 0)
        BY <3>2
      <3> QED BY <2>2, <3>3
    <2>4. PICK j : j = k - 1
      OBVIOUS
    <2>5. /\ j \in Nat /\ j + 1 = k /\ j \in 0 .. n /\ ~(k <= j) /\ j + 1 \in 1 .. n
          /\ m + j \in Nat /\ (m + j) + 1 = m + (j + 1)
      BY <1>2, <2>2, <2>3, <2>4
    <2>6. ArgOf(z, m + j) = ArgOf(a, m) + ArgOf(b, j)
      BY <2>1, <2>5
    <2>7. Next(z, m + j) /\ Next(b, j)
      BY <1>5, <2>5, Zenon
    <2>8. z[(m + j) + 1] = b[j + 1]
      BY <1>3, <2>5
    <2>9. PICK x, y, u, v, w : x = ArgOf(z, m + j) /\ y = ArgOf(a, m) /\ u = ArgOf(b, j)
                               /\ v = ArgOf(z, (m + j) + 1) /\ w = ArgOf(b, j + 1)
      BY Zenon
    <2>10. y \in Nat /\ u \in Nat /\ x = y + u
      BY <1>2, <1>4, <2>5, <2>6, <2>9
    <2>11. PICK e : e = IF TakesArg(b[j + 1]) THEN 1 ELSE 0
      OBVIOUS
    <2>12. v = x + e /\ w = u + e /\ e \in Nat
      BY <2>7, <2>8, <2>9, <2>11
    <2>13. v = y + w
      BY <2>10, <2>12
    <2>14. ArgOf(z, m + k) = ArgOf(a, m) + ArgOf(b, k)
      BY <2>5, <2>9, <2>13
    <2> QED BY <2>2, <2>14
  <1>9. \A k \in 0 .. n : ArgOf(z, m + k) = ArgOf(a, m) + ArgOf(b, k)
    BY <1>8
  <1> QED BY <1>1, <1>7, <1>9

\* The lists of the arguments, put together.
LEMMA ArgsConcat ==
    ASSUME NEW s, NEW t, Len(s) \in Nat, s = [k \in 1 .. Len(s) |-> s[k]],
           Len(t) \in Nat, t = [k \in 1 .. Len(t) |-> t[k]]
    PROVE  /\ \A k \in 1 .. Len(s) : (s \o t)[k] = s[k]
           /\ \A k \in 1 .. Len(t) : (s \o t)[Len(s) + k] = t[k]
  <1>1. PICK S : S = {s[k] : k \in 1 .. Len(s)} \union {t[k] : k \in 1 .. Len(t)}
    OBVIOUS
  <1>2. (\A k \in 1 .. Len(s) : s[k] \in S) /\ \A k \in 1 .. Len(t) : t[k] \in S
    BY <1>1, Zenon
  <1>3. s \in Seq(S) /\ t \in Seq(S)
    <2>1. s \in [1 .. Len(s) -> S] /\ t \in [1 .. Len(t) -> S]
      BY <1>2, Zenon
    <2> QED BY <2>1, IsASeq
  <1>4. PICK m, n, z : m = Len(s) /\ n = Len(t) /\ z = s \o t
    BY Zenon
  <1>5. \A k \in 1 .. m + n : z[k] = IF k <= m THEN s[k] ELSE t[k - m]
    <2>1. \A k \in 1 .. Len(s) + Len(t) : (s \o t)[k] = IF k <= Len(s) THEN s[k] ELSE t[k - Len(s)]
      BY <1>3, ConcatIs
    <2> QED BY <1>4, <2>1
  <1>6. m \in Nat /\ n \in Nat
    BY <1>4
  <1>7. (\A k \in 1 .. m : z[k] = s[k]) /\ \A k \in 1 .. n : z[m + k] = t[k]
    BY ONLY <1>5, <1>6
  <1> QED BY <1>4, <1>7

\* An item that takes an argument has one.
LEMMA ArgInRange ==
    ASSUME NEW a, NEW s, Formed(a, s), NEW k \in 1 .. Len(a), TakesArg(a[k])
    PROVE  ArgOf(a, k) \in 1 .. Len(s)
  <1>1. a \in Seq(Item) /\ Len(s) \in Nat /\ ArgOf(a, k) <= Len(s)
    BY Zenon DEF Formed
  <1>2. Len(a) \in Nat
    BY <1>1
  <1>3. PICK j : j = k - 1
    OBVIOUS
  <1>4. j \in Nat /\ j + 1 = k
    BY <1>2, <1>3
  <1>5. ArgOf(a, j) \in Nat /\ ArgOf(a, k) = ArgOf(a, j) + 1
    BY <1>4, ArgOfIs
  <1> QED BY <1>1, <1>5

\* The text of an item depends on the item and on its argument only.
LEMMA ItemTextSame ==
    ASSUME NEW z, NEW args, NEW j, NEW a, NEW s, NEW k, z[j] = a[k],
           TakesArg(a[k]) => args[ArgOf(z, j)] = s[ArgOf(a, k)]
    PROVE  ItemText(z, args, j) = ItemText(a, s, k)
  BY Zenon DEF ItemText, TakesArg

\* What is one format to C may be printed as two, each with its own arguments:
\* _log and _panic do so.
LEMMA CTextConcat ==
    ASSUME PowerLaw, NEW a, NEW s, Formed(a, s), NEW b, NEW t, Formed(b, t), ArgOf(a, Len(a)) = Len(s)
    PROVE  CText(a \o b, s \o t) = CText(a, s) \o CText(b, t)
  <1>1. PICK z, args, m, n : z = a \o b /\ args = s \o t /\ m = Len(a) /\ n = Len(b)
    BY Zenon
  <1>2. a \in Seq(Item) /\ b \in Seq(Item)
    BY DEF Formed
  <1>3. m \in Nat /\ n \in Nat /\ DOMAIN a = 1 .. m /\ DOMAIN b = 1 .. n
    BY <1>1, <1>2
  <1>4. /\ DOMAIN z = 1 .. m + n
        /\ \A k \in 1 .. m : z[k] = a[k]
        /\ \A k \in 1 .. n : z[m + k] = b[k]
    <2>1. /\ z \in Seq(Item) /\ Len(z) = Len(a) + Len(b)
          /\ \A k \in 1 .. Len(a) + Len(b) : z[k] = IF k <= Len(a) THEN a[k] ELSE b[k - Len(a)]
      BY <1>1, <1>2, ConcatIs
    <2>2. Len(z) = m + n /\ \A k \in 1 .. m + n : z[k] = IF k <= m THEN a[k] ELSE b[k - m]
      BY <1>1, <2>1
    <2>3. DOMAIN z = 1 .. m + n
      BY <2>1, <2>2
    <2>4. (\A k \in 1 .. m : z[k] = a[k]) /\ \A k \in 1 .. n : z[m + k] = b[k]
      BY ONLY <1>3, <2>2
    <2> QED BY <2>3, <2>4
  <1>5. /\ \A k \in 1 .. Len(s) : args[k] = s[k]
        /\ \A k \in 1 .. Len(t) : args[Len(s) + k] = t[k]
    BY <1>1, ArgsConcat DEF Formed
  <1>6. /\ \A k \in 0 .. m : ArgOf(z, k) = ArgOf(a, k)
        /\ \A k \in 0 .. n : ArgOf(z, m + k) = Len(s) + ArgOf(b, k)
    BY <1>1, <1>2, ArgOfConcat
  <1>7. \A k \in 1 .. m : ItemText(z, args, k) = ItemText(a, s, k)
    <2>1. SUFFICES ASSUME NEW k \in 1 .. m PROVE ItemText(z, args, k) = ItemText(a, s, k)
      OBVIOUS
    <2>2. ASSUME TakesArg(a[k]) PROVE args[ArgOf(z, k)] = s[ArgOf(a, k)]
      <3>1. ArgOf(a, k) \in 1 .. Len(s)
        BY <1>1, <2>2, ArgInRange
      <3>2. k \in 0 .. m
        BY <1>3
      <3> QED BY <1>5, <1>6, <3>1, <3>2, Zenon
    <2>3. z[k] = a[k]
      BY <1>4
    <2> QED BY <2>2, <2>3, ItemTextSame
  <1>8. \A k \in 1 .. n : ItemText(z, args, m + k) = ItemText(b, t, k)
    <2>1. SUFFICES ASSUME NEW k \in 1 .. n PROVE ItemText(z, args, m + k) = ItemText(b, t, k)
      OBVIOUS
    <2>2. ASSUME TakesArg(b[k]) PROVE args[ArgOf(z, m + k)] = t[ArgOf(b, k)]
      <3>1. ArgOf(b, k) \in 1 .. Len(t)
        BY <1>1, <2>2, ArgInRange
      <3>2. k \in 0 .. n
        BY <1>3
      <3> QED BY <1>5, <1>6, <3>1, <3>2, Zenon
    <2>3. z[m + k] = b[k]
      BY <1>4
    <2> QED BY <2>2, <2>3, ItemTextSame
  <1>9. PICK x, y : x = TextSeq(a, s) /\ y = TextSeq(b, t)
    BY Zenon
  <1>10. x \in Seq(Seq(Nat)) /\ y \in Seq(Seq(Nat)) /\ Len(x) = m /\ Len(y) = n
         /\ (\A k \in 1 .. m : x[k] = ItemText(a, s, k)) /\ \A k \in 1 .. n : y[k] = ItemText(b, t, k)
    BY <1>1, <1>9, CTextIs
  <1>11. x \o y \in Seq(Seq(Nat)) /\ DOMAIN (x \o y) = 1 .. m + n
         /\ (\A k \in 1 .. m : (x \o y)[k] = x[k]) /\ \A k \in 1 .. n : (x \o y)[m + k] = y[k]
    <2>1. PICK w : w = x \o y
      OBVIOUS
    <2>2. /\ w \in Seq(Seq(Nat)) /\ Len(w) = Len(x) + Len(y)
          /\ \A k \in 1 .. Len(x) + Len(y) : w[k] = IF k <= Len(x) THEN x[k] ELSE y[k - Len(x)]
      BY <1>10, <2>1, ConcatIs
    <2>3. Len(w) = m + n /\ \A k \in 1 .. m + n : w[k] = IF k <= m THEN x[k] ELSE y[k - m]
      BY <1>10, <2>2
    <2>4. DOMAIN w = 1 .. m + n
      BY <2>2, <2>3
    <2>5. (\A k \in 1 .. m : w[k] = x[k]) /\ \A k \in 1 .. n : w[m + k] = y[k]
      BY ONLY <1>3, <2>3
    <2> QED BY <2>1, <2>2, <2>4, <2>5
  <1>12. \A k \in 1 .. m + n : (x \o y)[k] = ItemText(z, args, k)
    <2>1. SUFFICES ASSUME NEW k \in 1 .. m + n PROVE (x \o y)[k] = ItemText(z, args, k)
      OBVIOUS
    <2>2. CASE k <= m
      <3>1. k \in 1 .. m
        BY <1>3, <2>2
      <3> QED BY <1>7, <1>10, <1>11, <3>1, Zenon
    <2>3. CASE ~(k <= m)
      <3>1. PICK j : j = k - m
        OBVIOUS
      <3>2. j \in 1 .. n /\ k = m + j
        BY <1>3, <2>3, <3>1
      <3> QED BY <1>8, <1>10, <1>11, <3>2, Zenon
    <2> QED BY <2>2, <2>3
  <1>13. TextSeq(z, args) = x \o y
    <2>1. TextSeq(z, args) = [k \in 1 .. m + n |-> ItemText(z, args, k)]
      BY <1>4, Zenon DEF TextSeq
    <2>2. PICK w : w = x \o y
      OBVIOUS
    <2>3. w = [k \in 1 .. m + n |-> w[k]]
      <3>1. w \in Seq(Seq(Nat)) /\ DOMAIN w = 1 .. m + n
        BY <1>11, <2>2
      <3> QED BY <3>1
    <2>4. \A k \in 1 .. m + n : w[k] = ItemText(z, args, k)
      BY <1>12, <2>2
    <2> QED BY <2>1, <2>2, <2>3, <2>4, Zenon
  <1>14. CText(z, args) = FlattenSeq(TextSeq(z, args))
    BY Zenon DEF CText, TextSeq, ItemText
  <1>15. CText(a, s) = FlattenSeq(x) /\ CText(b, t) = FlattenSeq(y)
    BY <1>9, CTextIs
  <1>16. FlattenSeq(x \o y) = FlattenSeq(x) \o FlattenSeq(y)
    BY <1>10, FlattenConcat
  <1> QED BY <1>1, <1>13, <1>14, <1>15, <1>16, Zenon

----------------------------------------------------------------------------
(* Requests and the text they carry *)

\* A request for a byte carries one character.
Request == {r \in [byte : BOOLEAN, text : Seq(Nat)] : r.byte => Len(r.text) = 1}

\* The requests for a byte.
Byte == {r \in Request : r.byte}

\* The texts of requests, not yet put together.
Texts(reqs) == [k \in DOMAIN reqs |-> reqs[k].text]

\* They are as many as the requests.
LEMMA TextsTyped ==
    ASSUME NEW reqs \in Seq(Request)
    PROVE  /\ Texts(reqs) \in Seq(Seq(Nat)) /\ Len(Texts(reqs)) = Len(reqs)
           /\ \A k \in 1 .. Len(reqs) : Texts(reqs)[k] = reqs[k].text
  <1>1. DOMAIN reqs = 1 .. Len(reqs) /\ Len(reqs) \in Nat
    OBVIOUS
  <1>2. \A k \in 1 .. Len(reqs) : reqs[k].text \in Seq(Nat)
    BY ElementOfSeq DEF Request
  <1>3. Texts(reqs) = [k \in 1 .. Len(reqs) |-> reqs[k].text]
    BY <1>1 DEF Texts
  <1> QED BY <1>1, <1>2, <1>3

\* No request, no text.
LEMMA TextNone == TextOf(<<>>) = <<>>
  <1>1. <<>> \in Seq(Request)
    BY EmptySeq
  <1>2. Texts(<<>>) \in Seq(Seq(Nat)) /\ Len(Texts(<<>>)) = 0
    BY <1>1, TextsTyped
  <1>3. FlattenSeq(Texts(<<>>)) = <<>>
    BY <1>2, FlattenIs
  <1> QED BY <1>3, Zenon DEF TextOf, Texts

\* The text of requests is a string: that of the first, then that of the others.
LEMMA TextCons ==
    ASSUME NEW reqs \in Seq(Request)
    PROVE  /\ TextOf(reqs) \in Seq(Nat)
           /\ reqs # <<>> => /\ Head(reqs) \in Request /\ Tail(reqs) \in Seq(Request)
                             /\ TextOf(reqs) = Head(reqs).text \o TextOf(Tail(reqs))
  <1>1. PICK s : s = Texts(reqs)
    OBVIOUS
  <1>2. s \in Seq(Seq(Nat)) /\ Len(s) = Len(reqs) /\ \A k \in 1 .. Len(reqs) : s[k] = reqs[k].text
    BY <1>1, TextsTyped
  <1>3. TextOf(reqs) = FlattenSeq(s)
    BY <1>1, Zenon DEF TextOf, Texts
  <1>4. TextOf(reqs) \in Seq(Nat)
    BY <1>2, <1>3, FlattenIs
  <1>5. ASSUME reqs # <<>>
        PROVE  /\ Head(reqs) \in Request /\ Tail(reqs) \in Seq(Request)
               /\ TextOf(reqs) = Head(reqs).text \o TextOf(Tail(reqs))
    <2>1. PICK t, rest : t = Tail(s) /\ rest = Tail(reqs)
      OBVIOUS
    <2>2. Len(reqs) \in Nat \ {0}
      BY <1>5, EmptySeq
    <2>3. s # <<>>
      BY <1>2, <2>2
    <2>4. /\ rest \in Seq(Request) /\ Len(rest) = Len(reqs) - 1
          /\ \A k \in 1 .. Len(rest) : rest[k] = reqs[k + 1]
      BY <1>5, <2>1, HeadTailProperties
    <2>5. /\ t \in Seq(Seq(Nat)) /\ Len(t) = Len(s) - 1
          /\ \A k \in 1 .. Len(t) : t[k] = s[k + 1]
      BY <1>2, <2>1, <2>3, HeadTailProperties
    <2>6. /\ Texts(rest) \in Seq(Seq(Nat)) /\ Len(Texts(rest)) = Len(rest)
          /\ \A k \in 1 .. Len(rest) : Texts(rest)[k] = rest[k].text
      BY <2>4, TextsTyped
    <2>7. \A k \in 1 .. Len(rest) : t[k] = Texts(rest)[k]
      <3>1. \A k \in 1 .. Len(rest) : k \in 1 .. Len(t) /\ k + 1 \in 1 .. Len(reqs)
        BY <1>2, <2>2, <2>4, <2>5
      <3> QED BY <1>2, <2>4, <2>5, <2>6, <3>1, Zenon
    <2>8. t = Texts(rest)
      <3>1. Len(t) = Len(Texts(rest)) /\ \A k \in 1 .. Len(t) : t[k] = Texts(rest)[k]
        BY <1>2, <2>4, <2>5, <2>6, <2>7
      <3> QED BY <2>5, <2>6, <3>1, SeqEqual, Zenon
    <2>9. TextOf(rest) = FlattenSeq(t)
      BY <2>8, Zenon DEF TextOf, Texts
    <2>10. FlattenSeq(s) = Head(s) \o FlattenSeq(t)
      BY <1>2, <2>1, <2>3, FlattenCons
    <2>11. Head(s) = Head(reqs).text /\ Head(reqs) \in Request
      <3>1. Head(s) = s[1] /\ Head(reqs) = reqs[1] /\ 1 \in 1 .. Len(reqs)
        BY <1>5, <2>2, <2>3
      <3> QED BY <1>2, <3>1, ElementOfSeq
    <2> QED BY <1>3, <2>1, <2>4, <2>9, <2>10, <2>11
  <1> QED BY <1>4, <1>5

\* kputc_npf makes a request for each character, and their text is what it was given.
LEMMA BytesText ==
    ASSUME NEW t \in Seq(Nat)
    PROVE  /\ kputc_npf(t) \in Seq(Byte) /\ kputc_npf(t) \in Seq(Request)
           /\ TextOf(kputc_npf(t)) = t
  <1>1. PICK n : n = Len(t)
    OBVIOUS
  <1>2. n \in Nat /\ DOMAIN t = 1 .. n /\ \A k \in 1 .. n : t[k] \in Nat
    BY <1>1
  <1>3. PICK r : r = kputc_npf(t)
    OBVIOUS
  <1>4. r = [k \in 1 .. n |-> [byte |-> TRUE, text |-> <<t[k]>>]]
    BY <1>2, <1>3 DEF kputc_npf
  <1>5. \A k \in 1 .. n : [byte |-> TRUE, text |-> <<t[k]>>] \in Byte
    <2>1. ASSUME NEW c \in Nat PROVE [byte |-> TRUE, text |-> <<c>>] \in Byte
      <3>1. <<c>> \in Seq(Nat) /\ Len(<<c>>) = 1
        OBVIOUS
      <3> QED BY <3>1 DEF Byte, Request
    <2> QED BY <1>2, <2>1
  <1>6. r \in Seq(Byte) /\ Len(r) = n /\ \A k \in 1 .. n : r[k] = [byte |-> TRUE, text |-> <<t[k]>>]
    BY <1>2, <1>4, <1>5
  <1>7. r \in Seq(Request)
    <2>1. Byte \subseteq Request
      BY DEF Byte
    <2> QED BY <1>6, <2>1, SeqMonotonic
  <1>8. Texts(r) \in Seq(Seq(Nat)) /\ Len(Texts(r)) = n /\ \A k \in 1 .. n : Texts(r)[k] = r[k].text
    BY <1>6, <1>7, TextsTyped
  <1>9. \A k \in 1 .. n : Texts(r)[k] = <<t[k]>>
    BY <1>6, <1>8
  <1>10. FlattenSeq(Texts(r)) = t
    BY <1>1, <1>8, <1>9, FlattenUnits
  <1>11. TextOf(r) = t
    BY <1>10, Zenon DEF TextOf, Texts
  <1> QED BY <1>3, <1>6, <1>7, <1>11

\* Two calls of it are one call with both texts.
LEMMA BytesConcat ==
    ASSUME NEW a \in Seq(Nat), NEW b \in Seq(Nat)
    PROVE  kputc_npf(a) \o kputc_npf(b) = kputc_npf(a \o b)
  <1> DEFINE R(c) == [byte |-> TRUE, text |-> <<c>>]
  <1>1. ASSUME NEW t \in Seq(Nat)
        PROVE  /\ kputc_npf(t) \in Seq(Byte) /\ Len(kputc_npf(t)) = Len(t)
               /\ \A k \in 1 .. Len(t) : kputc_npf(t)[k] = R(t[k])
    <2>1. kputc_npf(t) \in Seq(Byte)
      BY BytesText
    <2>2. kputc_npf(t) = [k \in 1 .. Len(t) |-> R(t[k])]
      BY DEF kputc_npf
    <2> HIDE DEF R
    <2> QED BY <2>1, <2>2
  <1> HIDE DEF R
  <1>2. PICK x, y, z : x = kputc_npf(a) /\ y = kputc_npf(b) /\ z = kputc_npf(a \o b)
    OBVIOUS
  <1>3. PICK c : c = a \o b
    OBVIOUS
  <1>4. /\ c \in Seq(Nat) /\ Len(c) = Len(a) + Len(b)
        /\ \A k \in 1 .. Len(a) + Len(b) : c[k] = IF k <= Len(a) THEN a[k] ELSE b[k - Len(a)]
    BY ONLY <1>3, a \in Seq(Nat), b \in Seq(Nat), ConcatIs
  <1>5. x \in Seq(Byte) /\ Len(x) = Len(a) /\ \A k \in 1 .. Len(a) : x[k] = R(a[k])
    BY <1>1, <1>2
  <1>6. y \in Seq(Byte) /\ Len(y) = Len(b) /\ \A k \in 1 .. Len(b) : y[k] = R(b[k])
    BY <1>1, <1>2
  <1>7. z \in Seq(Byte) /\ Len(z) = Len(c) /\ \A k \in 1 .. Len(c) : z[k] = R(c[k])
    BY <1>1, <1>2, <1>3, <1>4
  <1>8. PICK w : w = x \o y
    OBVIOUS
  <1>9. /\ w \in Seq(Byte) /\ Len(w) = Len(x) + Len(y)
        /\ \A k \in 1 .. Len(x) + Len(y) : w[k] = IF k <= Len(x) THEN x[k] ELSE y[k - Len(x)]
    <2>1. x \in Seq(Byte) /\ y \in Seq(Byte)
      BY <1>5, <1>6
    <2> QED BY ONLY <1>8, <2>1, ConcatIs
  <1>10. Len(a) \in Nat /\ Len(b) \in Nat
    OBVIOUS
  <1>11. ASSUME NEW k \in 1 .. Len(w) PROVE w[k] = z[k]
    <2>1. k \in 1 .. Len(a) + Len(b) /\ k \in 1 .. Len(c) /\ k \in 1 .. Len(x) + Len(y)
      BY <1>4, <1>5, <1>6, <1>9, <1>10
    <2>2. CASE k <= Len(a)
      <3>1. k \in 1 .. Len(a)
        BY <1>10, <2>1, <2>2
      <3> QED BY <1>4, <1>5, <1>7, <1>9, <2>1, <2>2, <3>1
    <2>3. CASE ~(k <= Len(a))
      <3>1. k - Len(a) \in 1 .. Len(b)
        BY <1>10, <2>1, <2>3
      <3> QED BY <1>4, <1>5, <1>6, <1>7, <1>9, <2>1, <2>3, <3>1
    <2> QED BY <2>2, <2>3
  <1>12. Len(w) = Len(z)
    BY <1>4, <1>5, <1>6, <1>7, <1>9, <1>10
  <1>13. w = z
    BY <1>7, <1>9, <1>11, <1>12, SeqEqual
  <1> QED BY <1>2, <1>8, <1>13

\* knputs makes one request, with the whole string.
LEMMA StringText ==
    ASSUME NEW t \in Seq(Nat)
    PROVE  knputs(t) \in Seq(Request) /\ TextOf(knputs(t)) = t
  <1>1. PICK r : r = [byte |-> FALSE, text |-> t]
    OBVIOUS
  <1>2. r \in Request /\ r.text = t
    BY <1>1 DEF Request
  <1>3. PICK s : s = <<r>>
    OBVIOUS
  <1>4. s \in Seq(Request) /\ s # <<>> /\ Head(s) = r /\ Tail(s) = <<>>
    BY <1>2, <1>3
  <1>5. TextOf(s) = t \o <<>>
    BY <1>2, <1>4, TextCons, TextNone
  <1>6. t \o <<>> = t
    BY ConcatEmptySeq
  <1> QED BY <1>1, <1>3, <1>4, <1>5, <1>6 DEF knputs

\* kputs prints the characters in front of the 0 that ends a string of C.
LEMMA CStringText ==
    ASSUME NEW s \in Seq(Nat), s # <<>>, s[Len(s)] = 0, \A k \in 1 .. Len(s) - 1 : s[k] # 0
    PROVE  /\ Front(s) \in Seq(Nat)
           /\ kputs(s) \in Seq(Request) /\ TextOf(kputs(s)) = Front(s)
  <1>1. Len(s) \in Nat \ {0} /\ DOMAIN s = 1 .. Len(s)
    BY EmptySeq
  <1> DEFINE Ends(k) == s[k] = 0 /\ \A m \in 1 .. k - 1 : s[m] # 0
  <1>2. Len(s) \in DOMAIN s /\ Ends(Len(s))
    BY <1>1
  <1>3. \A k \in DOMAIN s : Ends(k) => k = Len(s)
    BY <1>1
  <1> HIDE DEF Ends
  <1>4. (CHOOSE k \in DOMAIN s : Ends(k)) = Len(s)
    BY <1>2, <1>3
  <1>5. strlen(s) = Len(s) - 1
    BY <1>4, Zenon DEF strlen, Ends
  <1>6. kputs(s) = knputs(Front(s))
    BY <1>5, Zenon DEF kputs, Front
  <1>7. Front(s) \in Seq(Nat)
    BY <1>1, SubSeqProperties DEF Front
  <1> QED BY <1>6, <1>7, StringText

\* What is put last is a suffix.
LEMMA SuffixIs ==
    ASSUME NEW u \in Seq(Nat), NEW s \in Seq(Nat)
    PROVE  IsSuffix(s, u \o s)
  <1>1. PICK t : t = u \o s
    OBVIOUS
  <1>2. /\ t \in Seq(Nat) /\ Len(t) = Len(u) + Len(s)
        /\ \A k \in 1 .. Len(u) + Len(s) : t[k] = IF k <= Len(u) THEN u[k] ELSE s[k - Len(u)]
    BY ONLY <1>1, u \in Seq(Nat), s \in Seq(Nat), ConcatIs
  <1>3. ASSUME NEW x \in Seq(Nat)
        PROVE  /\ Reverse(x) \in Seq(Nat) /\ Len(Reverse(x)) = Len(x)
               /\ \A k \in 1 .. Len(x) : Reverse(x)[k] = x[Len(x) - k + 1]
    <2>1. \A k \in 1 .. Len(x) : x[Len(x) - k + 1] \in Nat
      OBVIOUS
    <2> QED BY <2>1 DEF Reverse
  <1>4. PICK rs, rt : rs = Reverse(s) /\ rt = Reverse(t)
    OBVIOUS
  <1>5. rs \in Seq(Nat) /\ Len(rs) = Len(s) /\ \A k \in 1 .. Len(s) : rs[k] = s[Len(s) - k + 1]
    BY <1>3, <1>4
  <1>6. rt \in Seq(Nat) /\ Len(rt) = Len(t) /\ \A k \in 1 .. Len(t) : rt[k] = t[Len(t) - k + 1]
    BY <1>2, <1>3, <1>4
  <1>7. Len(s) \in Nat /\ Len(u) \in Nat
    OBVIOUS
  <1>8. ASSUME NEW k \in 1 .. Len(s) PROVE rs[k] = rt[k] /\ rt[k] \in Nat /\ rs[k] \in Nat
    <2>1. PICK j : j = Len(t) - k + 1
      OBVIOUS
    <2>2. /\ k \in 1 .. Len(t) /\ j \in 1 .. Len(u) + Len(s)
          /\ ~(j <= Len(u)) /\ j - Len(u) = Len(s) - k + 1
      BY <1>2, <1>7, <2>1
    <2>3. rt[k] = s[Len(s) - k + 1]
      BY <1>2, <1>6, <2>1, <2>2
    <2>4. PICK i : i = Len(s) - k + 1
      OBVIOUS
    <2>5. i \in 1 .. Len(s)
      BY <1>7, <2>4
    <2>6. s[i] \in Nat
      BY <2>5
    <2>7. rt[k] = s[i] /\ rs[k] = s[i]
      BY <1>5, <2>3, <2>4
    <2> QED BY <2>6, <2>7
  <1>9. PICK a, b : a = SubSeq(rs, 1, Len(rs)) /\ b = SubSeq(rt, 1, Len(rs))
    OBVIOUS
  <1>10. a \in Seq(Nat) /\ Len(a) = Len(s) /\ \A k \in 1 .. Len(s) : a[k] = rs[k]
    <2>1. a = rs
      BY <1>5, <1>9, SubSeqFull
    <2> QED BY <1>5, <2>1
  <1>11. b \in Seq(Nat) /\ Len(b) = Len(s) /\ \A k \in 1 .. Len(s) : b[k] = rt[k]
    <2>1. Len(rs) \in Int /\ 1 \in Int /\ \A k \in 1 .. Len(rs) : rt[k] \in Nat
      BY <1>5, <1>7, <1>8
    <2>2. /\ b \in Seq(Nat) /\ Len(b) = IF 1 <= Len(rs) THEN Len(rs) - 1 + 1 ELSE 0
          /\ \A k \in 1 .. Len(rs) - 1 + 1 : b[k] = rt[1 + k - 1]
      BY <1>9, <2>1, SubSeqProperties
    <2>3. \A k \in 1 .. Len(s) : k \in 1 .. Len(rs) - 1 + 1 /\ 1 + k - 1 = k
      BY <1>5, <1>7
    <2> QED BY <1>5, <1>7, <2>2, <2>3
  <1>12. a = b
    BY <1>8, <1>10, <1>11, SeqEqual
  <1>13. Len(rs) <= Len(rt)
    BY <1>2, <1>5, <1>6, <1>7
  <1> QED BY <1>1, <1>4, <1>9, <1>12, <1>13 DEF IsSuffix, IsPrefix

----------------------------------------------------------------------------
(* The zeros in front of an offset *)

\* The function that _log16 defines by recursion.
IsLog(g) == g = [m \in Nat |-> IF m = 0 THEN 0 ELSE g[m \div 16] + 1]

\* There is one ...
LEMMA LogExists ==
    ASSUME PowerLaw
    PROVE  \E g : IsLog(g)
  <1> DEFINE g == [m \in Nat |-> IF m = 0 THEN 0 ELSE Count(16, m)]
             h == [m \in Nat |-> IF m = 0 THEN 0 ELSE g[m \div 16] + 1]
  <1>1. ASSUME NEW m \in Nat PROVE g[m] = h[m]
    <2>1. CASE m = 0
      BY <2>1
    <2>2. CASE m # 0
      <3>1. PICK d : d = m \div 16
        OBVIOUS
      <3>2. d \in Nat /\ Count(16, m) \in Nat /\ (d = 0 => Count(16, m) = 1)
            /\ (d # 0 => Count(16, m) = Count(16, d) + 1)
        BY <3>1, Bases, CountIs
      <3>3. g[m] = Count(16, m) /\ g[d] = IF d = 0 THEN 0 ELSE Count(16, d)
        BY <2>2, <3>2
      <3>4. h[m] = g[d] + 1
        <4> HIDE DEF g
        <4> QED BY <2>2, <3>1
      <3> HIDE DEF g, h
      <3> QED BY <3>2, <3>3, <3>4
    <2> QED BY <2>1, <2>2
  <1>2. g = h
    <2>1. g = [m \in Nat |-> g[m]]
      BY Zenon
    <2>2. h = [m \in Nat |-> h[m]]
      <3> HIDE DEF g
      <3> QED BY Zenon
    <2> HIDE DEF g, h
    <2> QED BY <1>1, <2>1, <2>2, Zenon
  <1>3. IsLog(g)
    <2> HIDE DEF g
    <2> QED BY <1>2 DEF IsLog
  <1> QED BY <1>3

\* ... and it counts digits.
LEMMA LogDigits ==
    ASSUME PowerLaw, NEW g, IsLog(g)
    PROVE  g[0] = 0 /\ \A m \in Nat \ {0} : g[m] = Count(16, m)
  <1>1. \A m \in Nat : g[m] = IF m = 0 THEN 0 ELSE g[m \div 16] + 1
    BY DEF IsLog
  <1>2. g[0] = 0
    BY <1>1
  <1> DEFINE B == {m \in Nat \ {0} : g[m] # Count(16, m)}
  <1>3. ASSUME B # {} PROVE FALSE
    <2>1. PICK m \in B : \A k \in B : m <= k
      <3>1. B \subseteq Nat
        OBVIOUS
      <3> QED BY <1>3, <3>1, Least
    <2>2. m \in Nat \ {0} /\ g[m] # Count(16, m)
      BY <2>1
    <2>3. PICK d : d = m \div 16
      OBVIOUS
    <2>4. g[m] = g[d] + 1
      BY <1>1, <2>2, <2>3
    <2>5. d \in Nat /\ (d = 0 => Count(16, m) = 1) /\ (d # 0 => Count(16, m) = Count(16, d) + 1)
      BY <2>2, <2>3, Bases, CountIs
    <2>6. CASE d = 0
      BY <1>2, <2>2, <2>4, <2>5, <2>6
    <2>7. CASE d # 0
      <3>1. ~(m <= d)
        BY <2>2, <2>3, <2>5
      <3>2. g[d] = Count(16, d)
        BY <2>1, <2>5, <2>7, <3>1
      <3> QED BY <2>2, <2>4, <2>5, <2>7, <3>2
    <2> QED BY <2>6, <2>7
  <1> QED BY <1>2, <1>3

\* _log16 counts the digits of a number, none for 0.
LEMMA LogIs ==
    ASSUME PowerLaw
    PROVE  _log16(0) = 0 /\ \A m \in Nat \ {0} : _log16(m) = Count(16, m)
  <1> DEFINE G == CHOOSE g : IsLog(g)
  <1>1. IsLog(G)
    BY LogExists
  <1>2. \A m : _log16(m) = G[m]
    BY Zenon DEF _log16, IsLog
  <1> HIDE DEF G
  <1> QED BY <1>1, <1>2, LogDigits

\* A smaller number has no more digits.
LEMMA CountGrows ==
    ASSUME PowerLaw, NEW m \in Nat, NEW v \in Nat, m <= v
    PROVE  Count(16, m) <= Count(16, v)
  <1>1. PICK a, b : a = Count(16, m) /\ b = Count(16, v)
    BY Zenon
  <1>2. a \in Nat \ {0} /\ b \in Nat \ {0}
    BY <1>1, Bases, CountIs
  <1>3. CASE m = 0
    <2>1. a = 1
      BY <1>1, <1>3, Bases, CountIs
    <2> QED BY <1>1, <1>2, <2>1
  <1>4. CASE m # 0
    <2>1. Digits(16, m, a) /\ Digits(16, v, b)
      <3>1. v # 0
        BY <1>4
      <3> QED BY <1>1, <1>4, <3>1, Bases, CountIs
    <2>2. PICK x, y : x = Pow(16, a - 1) /\ y = Pow(16, b)
      BY Zenon
    <2>3. x <= m /\ v < y
      BY <2>1, <2>2 DEF Digits
    <2>4. a - 1 \in Nat /\ x \in Int /\ y \in Int
      BY <1>2, <2>2, Bases, PowIs
    <2>5. ~(y <= x)
      BY <2>3, <2>4
    <2>6. ~(b <= a - 1)
      BY <1>2, <2>2, <2>4, <2>5, Bases, PowGrows
    <2> QED BY <1>1, <1>2, <2>6
  <1> QED BY <1>3, <1>4

\* What is below the modulus stays as it is.
LEMMA ModSmall ==
    ASSUME NEW x \in Nat, NEW y \in Int, x < y
    PROVE  x % y = x
  <1>1. y \in Nat \ {0} /\ y * 0 <= x /\ x < y * 0 + y
    OBVIOUS
  <1>2. x \div y = 0
    BY <1>1, DivUnique
  <1>3. x = y * (x \div y) + (x % y) /\ x % y \in Int
    BY <1>1
  <1>4. PICK q, r : q = x \div y /\ r = x % y
    OBVIOUS
  <1>5. q = 0 /\ r \in Int /\ x = y * q + r
    BY <1>2, <1>3, <1>4
  <1>6. r = x
    BY <1>5
  <1> QED BY <1>4, <1>6

\* A size_t has at most as many digits as a long has bits, which an unsigned int
\* counts.
LEMMA SizeFits ==
    ASSUME PowerLaw, NEW v \in Nat, v < 2^LONG_BITS
    PROVE  Count(16, v) <= LONG_BITS /\ Count(16, v) < 2^INT_BITS
  <1>1. v < Pow(2, LONG_BITS)
    BY DEF Pow
  <1>2. Count(16, v) <= LONG_BITS
    BY <1>1, Bases, CountFits
  <1>3. PICK n, e : n = Count(16, v) /\ e = 2^INT_BITS
    BY Zenon
  <1>4. n \in Nat /\ LONG_BITS \in Nat
    BY <1>3, Bases, CountIs, BitsAssumption
  <1>5. e \in Int /\ LONG_BITS < e
    <2>1. Pow(2, INT_BITS) \in Nat
      BY WidthIs
    <2> QED BY <1>3, <2>1, WidthAssumption DEF Pow
  <1>6. n < e
    BY <1>2, <1>3, <1>4, <1>5
  <1> QED BY <1>2, <1>3, <1>6

\* The zeros in front of an offset fill its column: num_zeros_two does not wrap.
LEMMA ZerosFill ==
    ASSUME PowerLaw, NEW size \in Nat, NEW i \in Nat, i < (size + 15) \div 16, size < 2^LONG_BITS
    PROVE  /\ hex_zeros(size, i) \in Nat
           /\ hex_zeros(size, i) = Len(Numeral(size, 16, FALSE)) - Len(Numeral(i * 16, 16, FALSE))
  <1>1. size \in Nat \ {0} /\ i * 16 \in Nat /\ i * 16 < size
    OBVIOUS
  <1>2. PICK m : m = i * 16
    OBVIOUS
  <1>3. m \in Nat /\ m <= size
    BY <1>1, <1>2
  <1>4. PICK a, o, b, e : a = Count(16, size) /\ o = Count(16, m) /\ b = _log16(i) /\ e = 2^INT_BITS
    BY Zenon
  <1>5. a <= LONG_BITS /\ a < e /\ a \in Nat /\ LONG_BITS \in Nat /\ e \in Int
    <2>1. a <= LONG_BITS /\ a < e
      BY <1>4, SizeFits
    <2>2. a \in Nat /\ LONG_BITS \in Nat
      BY <1>4, Bases, CountIs, BitsAssumption
    <2>3. Pow(2, INT_BITS) \in Nat
      BY WidthIs
    <2>4. e \in Int
      BY <1>4, <2>3 DEF Pow
    <2> QED BY <2>1, <2>2, <2>4
  <1>6. o \in Nat \ {0} /\ o <= a
    BY <1>3, <1>4, Bases, CountIs, CountGrows
  <1>7. b = o - 1
    <2>1. CASE i = 0
      <3>1. m = 0
        BY <1>2, <2>1
      <3>2. o = 1
        BY <1>4, <3>1, Bases, CountIs
      <3>3. b = 0
        BY <1>4, <2>1, LogIs
      <3> QED BY <3>2, <3>3
    <2>2. CASE i # 0
      <3>1. m \div 16 = i
        BY <1>2, <2>2
      <3>2. o = Count(16, i) + 1
        BY <1>3, <1>4, <2>2, <3>1, Bases, CountIs
      <3>3. b = Count(16, i) /\ Count(16, i) \in Nat
        BY <1>4, <2>2, Bases, LogIs, CountIs
      <3> QED BY <3>2, <3>3
    <2> QED BY <2>1, <2>2
  <1>8. _log16(size) = a
    BY <1>1, <1>4, LogIs
  <1>9. PICK x : x = a - b - 1
    OBVIOUS
  <1>10. x \in Nat /\ x < e /\ x = a - o
    BY <1>5, <1>6, <1>7, <1>9
  <1>11. hex_zeros(size, i) = x
    <2>1. hex_zeros(size, i) = (a - b - 1) % e
      BY <1>4, <1>8, Zenon DEF hex_zeros
    <2>2. x % e = x
      BY <1>5, <1>10, ModSmall
    <2> QED BY <1>9, <2>1, <2>2
  <1>12. Len(Numeral(m, 16, FALSE)) = o
    <2>1. o <= LONG_BITS
      BY <1>5, <1>6
    <2> QED BY <1>3, <1>4, <2>1, Bases, NumeralPrinted
  <1>13. Len(Numeral(size, 16, FALSE)) = a
    BY <1>4, <1>5, Bases, NumeralPrinted
  <1> QED BY <1>2, <1>10, <1>11, <1>12, <1>13

----------------------------------------------------------------------------
(* The formats that console.c prints with *)

\* The text of a format.
Printed(items, args) == npf_vpprintf(Spell(items), args)

\* A directive without flags, and a literal.
LEMMA DirIs ==
    ASSUME NEW c \in Conversions \ {Ch.PCT}
    PROVE  /\ Dir(c) \in Item /\ TakesArg(Dir(c)) /\ Dir(c).conv = c /\ Dir(c).long = FALSE
           /\ "lit" \notin DOMAIN Dir(c)
  <1>1. Dir(c).conv = c /\ Dir(c).long = FALSE /\ "lit" \notin DOMAIN Dir(c)
    BY DEF Dir
  <1>2. <<>> \in Seq({Ch.PLUS, Ch.SP})
    OBVIOUS
  <1>3. Dir(c) \in [flags : Seq({Ch.PLUS, Ch.SP}), long : BOOLEAN, conv : Conversions]
    BY <1>2 DEF Dir
  <1> QED BY <1>1, <1>3 DEF Item, TakesArg

\* The same for a literal.
LEMMA LitIs ==
    ASSUME NEW c \in Nat \ {Ch.PCT}
    PROVE  Lit(c) \in Item /\ ~TakesArg(Lit(c)) /\ "lit" \in DOMAIN Lit(c) /\ Lit(c).lit = c
  BY DEF Lit, Item, TakesArg

\* "%x" without an "l" prints an unsigned int.
LEMMA HexIs ==
    ASSUME NEW it, NEW arg, it.conv = Ch.x, it.long = FALSE
    PROVE  CItem(it, arg) = Numeral(arg % 2^INT_BITS, 16, FALSE)
  <1>1. /\ it.conv # Ch.c /\ it.conv # Ch.s /\ it.conv # Ch.o /\ it.conv # Ch.u /\ it.conv # Ch.p
        /\ it.conv \notin SignedConv /\ (it.conv = Ch.X) = FALSE
    BY DEF Ch, SignedConv
  <1>2. (IF it.long \/ it.conv = Ch.p THEN LONG_BITS ELSE INT_BITS) = INT_BITS
    BY <1>1
  <1> QED BY <1>1, <1>2, Zenon DEF CItem

\* The digits of a byte as "%x" prints them.
LEMMA ByteDigits ==
    ASSUME PowerLaw, NEW v \in 0 .. 255
    PROVE  /\ CItem(Dir(Ch.x), v) = Numeral(v, 16, FALSE) /\ Numeral(v, 16, FALSE) \in Seq(Nat)
           /\ Count(16, v) = (IF v < 16 THEN 1 ELSE 2) /\ Count(16, v) <= LONG_BITS
  <1>1. Ch.x \in Conversions \ {Ch.PCT} /\ Ch.x # Ch.p
    BY DEF Ch, Conversions, UnsignedConv
  <1>2. Dir(Ch.x).conv = Ch.x /\ Dir(Ch.x).long = FALSE
    BY <1>1, DirIs
  <1>3. CItem(Dir(Ch.x), v) = Numeral(v % 2^INT_BITS, 16, FALSE)
    BY <1>2, HexIs
  <1>4. PICK e, l : e = 2^INT_BITS /\ l = 2^LONG_BITS
    BY Zenon
  <1>5. e \in Int /\ l \in Int /\ 255 < e /\ e <= l
    <2>1. 2 \in Base
      BY DEF Base
    <2>2. PICK a, b : a = Pow(2, 4) /\ b = Pow(2, 8)
      BY Zenon
    <2>3. b = 256
      <3>1. Pow(2, 1) = 2
        BY <2>1, PowIs
      <3>2. \A k \in Nat : Pow(2, k + 1) = 2 * Pow(2, k)
        BY <2>1, PowIs
      <3>3. Pow(2, 1 + 1) = 4
        BY <3>1, <3>2
      <3>4. Pow(2, 2 + 1) = 8
        BY <3>2, <3>3
      <3>5. Pow(2, 3 + 1) = 16
        BY <3>2, <3>4
      <3>6. Pow(2, 4 + 1) = 32
        BY <3>2, <3>5
      <3>7. Pow(2, 5 + 1) = 64
        BY <3>2, <3>6
      <3>8. Pow(2, 6 + 1) = 128
        BY <3>2, <3>7
      <3>9. Pow(2, 7 + 1) = 256
        BY <3>2, <3>8
      <3> QED BY <2>2, <3>9
    <2>4. Pow(2, 8) <= Pow(2, INT_BITS)
      <3>1. 8 \in Nat /\ INT_BITS \in Nat /\ 8 <= INT_BITS
        BY BitsAssumption, WidthAssumption
      <3> QED BY <2>1, <3>1, PowGrows
    <2>5. e = Pow(2, INT_BITS) /\ l = Pow(2, LONG_BITS)
      BY <1>4, Zenon DEF Pow
    <2>6. e \in Int /\ l \in Int /\ e <= l
      BY <2>5, WidthIs
    <2>7. 256 <= e
      BY <2>2, <2>3, <2>4, <2>5
    <2> QED BY <2>6, <2>7
  <1>6. v \in Nat /\ v < e /\ v < l
    BY <1>5
  <1>7. v % e = v
    BY <1>5, <1>6, ModSmall
  <1>8. Count(16, v) <= LONG_BITS
    <2>1. v < Pow(2, LONG_BITS)
      BY <1>4, <1>6, Zenon DEF Pow
    <2> QED BY <1>6, <2>1, Bases, CountFits
  <1>9. CItem(Dir(Ch.x), v) = Numeral(v, 16, FALSE)
    BY <1>3, <1>4, <1>7, Zenon
  <1>10. Numeral(v, 16, FALSE) \in Seq(Nat) /\ Len(Numeral(v, 16, FALSE)) = Count(16, v)
    BY <1>6, <1>8, Bases, NumeralPrinted
  <1>11. Count(16, v) = IF v < 16 THEN 1 ELSE 2
    <2>1. PICK d : d = v \div 16
      OBVIOUS
    <2>2. d \in Nat /\ d \div 16 = 0 /\ (d = 0 <=> v < 16)
      BY <2>1
    <2>3. (d = 0 => Count(16, v) = 1) /\ (d # 0 => Count(16, v) = Count(16, d) + 1)
      BY <1>6, <2>1, Bases, CountIs
    <2>4. Count(16, d) = 1
      BY <2>2, Bases, CountIs
    <2> QED BY <2>2, <2>3, <2>4
  <1> QED BY <1>8, <1>9, <1>10, <1>11

\* A byte has a high and a low digit, and the high one is left out when it is 0.
LEMMA ByteHalves ==
    ASSUME PowerLaw, NEW v \in 0 .. 255
    PROVE  /\ Numeral(0, 16, FALSE) = <<Ch.ZERO>>
           /\ Numeral(v \div 16, 16, FALSE) \in Seq(Nat) /\ Numeral(v % 16, 16, FALSE) \in Seq(Nat)
           /\ v < 16 => v \div 16 = 0 /\ v % 16 = v
           /\ ~(v < 16) => Numeral(v, 16, FALSE) = Numeral(v \div 16, 16, FALSE) \o Numeral(v % 16, 16, FALSE)
  <1>1. PICK t : t = Table(FALSE)
    OBVIOUS
  <1>2. \A d \in 0 .. 15 : t[d + 1] \in Nat
    <2>1. SUFFICES ASSUME NEW d \in 0 .. 15 PROVE t[d + 1] \in Nat
      OBVIOUS
    <2>2. PICK adj : adj = Adjust(FALSE)
      OBVIOUS
    <2>3. t[d + 1] = DigitChar(d, adj) /\ adj \in Nat
      BY <1>1, <2>2, TableIs
    <2>4. DigitChar(d, adj) = d + (IF d < 10 THEN 48 ELSE 65 - 10 + adj)
      BY DEF DigitChar, Ch
    <2> QED BY <2>3, <2>4
  <1>3. t[1] = Ch.ZERO
    <2>1. 0 \in 0 .. 15 /\ 0 + 1 = 1
      OBVIOUS
    <2>2. t[0 + 1] = DigitChar(0, Adjust(FALSE))
      BY <1>1, <2>1, TableIs
    <2>3. DigitChar(0, Adjust(FALSE)) = Ch.ZERO
      BY DEF DigitChar, Ch
    <2> QED BY <2>1, <2>2, <2>3
  <1>4. Pow(16, 0) = 1 /\ Pow(16, 1) = 16
    BY Bases, PowIs
  <1>5. ASSUME NEW u \in 0 .. 255
        PROVE  Numeral(u, 16, FALSE) =
                   [k \in 1 .. Count(16, u) |-> t[((u \div Pow(16, Count(16, u) - k)) % 16) + 1]]
    <2>1. Count(16, u) <= LONG_BITS
      BY ByteDigits
    <2>2. u \in Nat /\ 16 \in Base /\ FALSE \in BOOLEAN
      BY Bases
    <2>3. Numeral(u, 16, FALSE) =
              [k \in 1 .. Count(16, u) |-> Table(FALSE)[((u \div Pow(16, Count(16, u) - k)) % 16) + 1]]
      BY <2>1, <2>2, NumeralIs
    <2> QED BY <1>1, <2>3, Zenon
  <1>6. \A d \in 0 .. 15 : Numeral(d, 16, FALSE) = <<t[d + 1]>>
    <2>1. SUFFICES ASSUME NEW d \in 0 .. 15 PROVE Numeral(d, 16, FALSE) = <<t[d + 1]>>
      OBVIOUS
    <2>2. d \in 0 .. 255 /\ d < 16
      OBVIOUS
    <2>3. Count(16, d) = 1
      BY <2>2, ByteDigits
    <2>4. Numeral(d, 16, FALSE) = [k \in 1 .. 1 |-> t[((d \div Pow(16, 1 - k)) % 16) + 1]]
      BY <1>5, <2>2, <2>3, Zenon
    <2>5. PICK e : e = Pow(16, 1 - 1)
      OBVIOUS
    <2>6. e = 1
      BY <1>4, <2>5
    <2>7. (d \div e) % 16 = d
      BY <2>6
    <2>8. \A k \in 1 .. 1 : k = 1
      OBVIOUS
    <2>9. \A k \in 1 .. 1 : t[((d \div Pow(16, 1 - k)) % 16) + 1] = t[d + 1]
      BY <2>5, <2>7, <2>8, Zenon
    <2>10. PICK x : x = t[d + 1]
      OBVIOUS
    <2>11. Numeral(d, 16, FALSE) = [k \in 1 .. 1 |-> x]
      BY <2>4, <2>9, <2>10, Zenon
    <2>12. [k \in 1 .. 1 |-> x] = <<x>>
      OBVIOUS
    <2> QED BY <2>10, <2>11, <2>12
  <1>7. PICK h, l : h = v \div 16 /\ l = v % 16
    OBVIOUS
  <1>8. h \in 0 .. 15 /\ l \in 0 .. 15 /\ (v < 16 => h = 0 /\ l = v)
    BY <1>7
  <1>9. Numeral(h, 16, FALSE) = <<t[h + 1]>> /\ Numeral(l, 16, FALSE) = <<t[l + 1]>>
    BY <1>6, <1>8
  <1>10. PICK x, y : x = t[h + 1] /\ y = t[l + 1]
    OBVIOUS
  <1>11. x \in Nat /\ y \in Nat
    BY <1>2, <1>8, <1>10
  <1>12. <<x>> \in Seq(Nat) /\ <<y>> \in Seq(Nat) /\ <<x>> \o <<y>> = <<x, y>>
    <2>1. PICK a, b, e : a = <<x>> /\ b = <<y>> /\ e = <<x>> \o <<y>>
      BY Zenon
    <2>2. a \in Seq(Nat) /\ b \in Seq(Nat) /\ Len(a) = 1 /\ Len(b) = 1 /\ a[1] = x /\ b[1] = y
      BY <1>11, <2>1
    <2>3. e = a \o b
      BY <2>1, Zenon
    <2>4. /\ e \in Seq(Nat) /\ Len(e) = Len(a) + Len(b)
          /\ \A k \in 1 .. Len(a) + Len(b) : e[k] = IF k <= Len(a) THEN a[k] ELSE b[k - Len(a)]
      <3>1. a \in Seq(Nat) /\ b \in Seq(Nat)
        BY <2>2
      <3> QED BY ONLY <2>3, <3>1, ConcatIs
    <2>5. Len(e) = 2 /\ e[1] = x /\ e[2] = y
      BY ONLY <2>2, <2>4
    <2>6. e = <<x, y>>
      <3>1. PICK w : w = <<x, y>>
        OBVIOUS
      <3>2. w \in Seq(Nat) /\ Len(w) = 2 /\ w[1] = x /\ w[2] = y
        BY <1>11, <3>1
      <3>3. \A k \in 1 .. 2 : k = 1 \/ k = 2
        OBVIOUS
      <3>4. /\ e \in Seq(Nat) /\ w \in Seq(Nat) /\ Len(e) = Len(w)
            /\ \A k \in 1 .. Len(e) : e[k] = w[k]
        <4>1. Len(e) = 2 /\ e[1] = w[1] /\ e[2] = w[2]
          BY <2>4, <2>5, <3>2
        <4> QED BY <2>4, <2>5, <3>2, <3>3, <4>1
      <3>5. e = w
        BY ONLY <3>4, SeqEqual
      <3> QED BY <3>1, <3>5, Zenon
    <2> QED BY <2>1, <2>2, <2>6, Zenon
  <1>13. ASSUME ~(v < 16) PROVE Numeral(v, 16, FALSE) = <<x, y>>
    <2>1. Count(16, v) = 2
      BY <1>13, ByteDigits
    <2>2. Numeral(v, 16, FALSE) = [k \in 1 .. 2 |-> t[((v \div Pow(16, 2 - k)) % 16) + 1]]
      BY <1>5, <2>1, Zenon
    <2>3. PICK g : g = Numeral(v, 16, FALSE)
      OBVIOUS
    <2>4. 1 \in 1 .. 2 /\ 2 \in 1 .. 2 /\ 2 - 1 = 1 /\ 2 - 2 = 0
      OBVIOUS
    <2>5. g[1] = t[((v \div 16) % 16) + 1] /\ g[2] = t[((v \div 1) % 16) + 1]
      <3>1. g[1] = t[((v \div Pow(16, 2 - 1)) % 16) + 1]
        BY <2>2, <2>3, <2>4, Zenon
      <3>2. g[2] = t[((v \div Pow(16, 2 - 2)) % 16) + 1]
        BY <2>2, <2>3, <2>4, Zenon
      <3>3. Pow(16, 2 - 1) = 16 /\ Pow(16, 2 - 2) = 1
        BY <1>4, <2>4, Zenon
      <3> QED BY <3>1, <3>2, <3>3, Zenon
    <2>6. (v \div 16) % 16 = h /\ (v \div 1) % 16 = l
      BY <1>7
    <2>7. g[1] = x /\ g[2] = y
      BY <1>10, <2>5, <2>6, Zenon
    <2>8. DOMAIN g = 1 .. 2 /\ g = [k \in 1 .. 2 |-> g[k]]
      BY <2>2, <2>3, Zenon
    <2>9. g = <<x, y>>
      BY ONLY <2>7, <2>8
    <2> QED BY <2>3, <2>9
  <1>14. Numeral(0, 16, FALSE) = <<Ch.ZERO>>
    <2>1. 0 \in 0 .. 15 /\ 0 + 1 = 1
      OBVIOUS
    <2> QED BY <1>3, <1>6, <2>1
  <1> QED BY <1>7, <1>8, <1>9, <1>10, <1>12, <1>13, <1>14, Zenon

\* A format whose first item is "%x", with one argument.
LEMMA OneArg ==
    ASSUME NEW items \in Seq(Item), items # <<>>, items[1] = Dir(Ch.x),
           \A k \in 2 .. Len(items) : ~TakesArg(items[k]), NEW v \in Nat
    PROVE  Formed(items, <<v>>) /\ ItemText(items, <<v>>, 1) = CItem(Dir(Ch.x), v)
  <1>1. Ch.x \in Conversions \ {Ch.PCT} /\ Ch.x # Ch.s
    BY DEF Ch, Conversions, UnsignedConv
  <1>2. TakesArg(items[1]) /\ Dir(Ch.x).conv = Ch.x
    BY <1>1, DirIs
  <1>3. ArgOf(items, 1) = 1
    <2>1. 0 + 1 = 1 /\ 0 \in Nat
      OBVIOUS
    <2>2. ArgOf(items, 0) = 0 /\ ArgOf(items, 0 + 1) = ArgOf(items, 0) + (IF TakesArg(items[0 + 1]) THEN 1 ELSE 0)
      BY <2>1, ArgOfIs
    <2> QED BY <1>2, <2>1, <2>2
  <1>4. PICK args : args = <<v>>
    OBVIOUS
  <1>5. Len(args) = 1 /\ args = [k \in 1 .. 1 |-> args[k]] /\ args[1] = v
    BY <1>4
  <1>6. ArgFits(items[1], args[1])
    BY <1>1, <1>2, <1>5 DEF ArgFits
  <1>7. \A k \in 1 .. Len(items) : TakesArg(items[k]) => k = 1
    <2>1. Len(items) \in Nat
      OBVIOUS
    <2>2. \A k \in 1 .. Len(items) : k = 1 \/ k \in 2 .. Len(items)
      BY <2>1
    <2> QED BY <2>2, Zenon
  <1>8. Formed(items, args)
    <2>1. Len(args) \in Nat /\ args = [k \in 1 .. Len(args) |-> args[k]] /\ 1 <= Len(args)
      BY <1>5
    <2>2. \A k \in 1 .. Len(items) : TakesArg(items[k]) =>
             ArgOf(items, k) <= Len(args) /\ ArgFits(items[k], args[ArgOf(items, k)])
      BY <1>3, <1>6, <1>7, <2>1, Zenon
    <2> QED BY <2>1, <2>2, Zenon DEF Formed
  <1>9. ItemText(items, args, 1) = CItem(items[1], args[1])
    BY <1>2, <1>3, Zenon DEF ItemText, TakesArg
  <1> QED BY <1>4, <1>5, <1>8, <1>9, Zenon

\* What khexdump prints of a digit 0.
LEMMA ZeroText ==
    ASSUME PowerLaw
    PROVE  Printed(<<Dir(Ch.x)>>, <<0>>) = Numeral(0, 16, FALSE)
  <1>1. PICK items : items = <<Dir(Ch.x)>>
    OBVIOUS
  <1>2. Dir(Ch.x) \in Item
    <2>1. Ch.x \in Conversions \ {Ch.PCT}
      BY DEF Ch, Conversions, UnsignedConv
    <2> QED BY <2>1, DirIs
  <1>3. items \in Seq(Item) /\ items # <<>> /\ items[1] = Dir(Ch.x) /\ Len(items) = 1
    BY <1>1, <1>2
  <1>4. Formed(items, <<0>>) /\ ItemText(items, <<0>>, 1) = CItem(Dir(Ch.x), 0)
    <2>1. \A k \in 2 .. Len(items) : ~TakesArg(items[k])
      BY <1>3
    <2> QED BY <1>3, <2>1, OneArg
  <1>5. PICK t, d : t = TextSeq(items, <<0>>) /\ d = CItem(Dir(Ch.x), 0)
    BY Zenon
  <1>6. d \in Seq(Nat) /\ d = Numeral(0, 16, FALSE)
    <2>1. 0 \in 0 .. 255 /\ 0 < 16
      OBVIOUS
    <2> QED BY <1>5, <2>1, ByteDigits
  <1>7. t \in Seq(Seq(Nat)) /\ Len(t) = 1 /\ t[1] = d
    <2>1. /\ t \in Seq(Seq(Nat)) /\ Len(t) = Len(items)
          /\ \A k \in 1 .. Len(items) : t[k] = ItemText(items, <<0>>, k)
      BY <1>4, <1>5, CTextIs
    <2>2. 1 \in 1 .. Len(items)
      BY <1>3
    <2> QED BY <1>3, <1>4, <1>5, <2>1, <2>2
  <1>8. FlattenSeq(t) = d
    <2>1. PICK F : IsFlat(t, Len(t), F) /\ FlattenSeq(t) = F[Len(t)]
      <3>1. t \in Seq(Seq(Nat)) /\ Len(t) # 0
        BY <1>7
      <3> QED BY <3>1, FlattenIs
    <2>2. 1 \in 1 .. Len(t)
      BY <1>7
    <2>3. F[1] = t[1]
      BY <2>1, <2>2, Zenon DEF IsFlat
    <2> QED BY <1>7, <2>1, <2>3
  <1>9. Printed(items, <<0>>) = FlattenSeq(t)
    BY <1>4, <1>5, CTextIs, NanoprintfAsC, Zenon DEF Printed
  <1> QED BY <1>1, <1>6, <1>8, <1>9

\* A byte is printed without a leading 0, with a blank after it.
LEMMA ByteText ==
    ASSUME PowerLaw, NEW v \in 0 .. 255
    PROVE  Printed(<<Dir(Ch.x), Lit(Ch.SP)>>, <<v>>) = Numeral(v, 16, FALSE) \o <<Ch.SP>>
  <1>1. PICK items : items = <<Dir(Ch.x), Lit(Ch.SP)>>
    OBVIOUS
  <1>2. Dir(Ch.x) \in Item /\ Lit(Ch.SP) \in Item /\ ~TakesArg(Lit(Ch.SP))
        /\ "lit" \in DOMAIN Lit(Ch.SP) /\ Lit(Ch.SP).lit = Ch.SP /\ Ch.SP \in Nat
    <2>1. Ch.x \in Conversions \ {Ch.PCT} /\ Ch.SP \in Nat \ {Ch.PCT}
      BY DEF Ch, Conversions, UnsignedConv
    <2> QED BY <2>1, DirIs, LitIs
  <1>3. items \in Seq(Item) /\ items # <<>> /\ items[1] = Dir(Ch.x) /\ items[2] = Lit(Ch.SP) /\ Len(items) = 2
    BY <1>1, <1>2
  <1>4. Formed(items, <<v>>) /\ ItemText(items, <<v>>, 1) = CItem(Dir(Ch.x), v)
    <2>1. \A k \in 2 .. Len(items) : k = 2
      BY <1>3
    <2>2. \A k \in 2 .. Len(items) : ~TakesArg(items[k])
      BY <1>2, <1>3, <2>1
    <2>3. v \in Nat
      OBVIOUS
    <2> QED BY <1>3, <2>2, <2>3, OneArg
  <1>5. ItemText(items, <<v>>, 2) = <<Ch.SP>>
    BY <1>2, <1>3, Zenon DEF ItemText
  <1>6. PICK t, d, z : t = TextSeq(items, <<v>>) /\ d = CItem(Dir(Ch.x), v) /\ z = <<Ch.SP>>
    BY Zenon
  <1>7. d = Numeral(v, 16, FALSE)
    BY <1>6, ByteDigits
  <1>8. t \in Seq(Seq(Nat)) /\ Len(t) = 2 /\ t[1] = d /\ t[2] = z
    <2>1. /\ t \in Seq(Seq(Nat)) /\ Len(t) = Len(items)
          /\ \A k \in 1 .. Len(items) : t[k] = ItemText(items, <<v>>, k)
      BY <1>4, <1>6, CTextIs
    <2>2. 1 \in 1 .. Len(items) /\ 2 \in 1 .. Len(items)
      BY <1>3
    <2> QED BY <1>3, <1>4, <1>5, <1>6, <2>1, <2>2
  <1>9. FlattenSeq(t) = d \o z
    <2>1. PICK F : IsFlat(t, Len(t), F) /\ FlattenSeq(t) = F[Len(t)]
      <3>1. t \in Seq(Seq(Nat)) /\ Len(t) # 0
        BY <1>8
      <3> QED BY <3>1, FlattenIs
    <2>2. 1 \in 1 .. Len(t) /\ 2 \in 1 .. Len(t) /\ 2 # 1 /\ 2 - 1 = 1
      BY <1>8
    <2>3. F[1] = t[1] /\ F[2] = F[2 - 1] \o t[2]
      BY <2>1, <2>2, Zenon DEF IsFlat
    <2> QED BY <1>8, <2>1, <2>2, <2>3, Zenon
  <1>10. Printed(items, <<v>>) = FlattenSeq(t)
    BY <1>4, <1>6, CTextIs, NanoprintfAsC, Zenon DEF Printed
  <1> QED BY <1>1, <1>6, <1>7, <1>9, <1>10, Zenon

\* "%llx    " is no directive that was compiled in ("ll" is not): it is put out as
\* it stands, its 8 characters and no number.
LEMMA OffsetText ==
    ASSUME NEW args
    PROVE  Printed(hex_offset, args) = <<Ch.PCT, Ch.l, Ch.l, Ch.x, Ch.SP, Ch.SP, Ch.SP, Ch.SP>>
  <1>1. PICK f : f = <<37, 108, 108, 120, 32, 32, 32, 32>>
    OBVIOUS
  <1>2. f \in Seq(Nat) /\ Len(f) = 8 /\ f[1] = 37 /\ f[2] = 108 /\ f[3] = 108
    BY <1>1
  <1>chars. \A k \in 1 .. 8 : f[k] \in Nat /\ (k # 1 => f[k] # 37)
    <2>1. \A k \in 1 .. 8 : k \in {1, 2, 3, 4, 5, 6, 7, 8}
      OBVIOUS
    <2> QED BY <1>1, <2>1
  <1>3. \A k \in 1 .. 8 : hex_offset[k] = [lit |-> f[k]]
    <2>1. hex_offset = <<[lit |-> 37], [lit |-> 108], [lit |-> 108], [lit |-> 120],
                         [lit |-> 32], [lit |-> 32], [lit |-> 32], [lit |-> 32]>>
      BY DEF hex_offset, Lit, Ch
    <2>2. \A k \in 1 .. 8 : k \in {1, 2, 3, 4, 5, 6, 7, 8}
      OBVIOUS
    <2> QED BY <1>1, <2>1, <2>2
  <1>4. DOMAIN hex_offset = 1 .. 8
    BY DEF hex_offset
  <1>5. Spell(hex_offset) = f
    <2>1. PICK s : s = SpelledSeq(hex_offset)
      OBVIOUS
    <2>2. \A k \in 1 .. 8 : Spelled(hex_offset[k]) = <<f[k]>>
      <3>1. SUFFICES ASSUME NEW k \in 1 .. 8 PROVE Spelled(hex_offset[k]) = <<f[k]>>
        OBVIOUS
      <3>2. PICK it : it = hex_offset[k]
        OBVIOUS
      <3>3. "lit" \in DOMAIN it /\ it.lit = f[k]
        BY <1>3, <3>2
      <3> QED BY <3>2, <3>3, Zenon DEF Spelled
    <2>3. s = [k \in 1 .. 8 |-> <<f[k]>>]
      BY <1>4, <2>1, <2>2, Zenon DEF SpelledSeq
    <2>4. \A k \in 1 .. 8 : <<f[k]>> \in Seq(Nat)
      <3>1. \A x \in Nat : <<x>> \in Seq(Nat)
        OBVIOUS
      <3> QED BY <1>chars, <3>1, Zenon
    <2>5. s \in Seq(Seq(Nat)) /\ Len(s) = 8 /\ \A k \in 1 .. 8 : s[k] = <<f[k]>>
      BY <2>3, <2>4
    <2>6. FlattenSeq(s) = f
      <3>1. Len(s) = Len(f) /\ \A k \in 1 .. Len(f) : s[k] = <<f[k]>>
        BY <1>2, <2>5
      <3>2. f \in Seq(Nat) /\ s \in Seq(Seq(Nat))
        BY <1>2, <2>5
      <3> QED BY <3>1, <3>2, FlattenUnits
    <2>7. Spell(hex_offset) = FlattenSeq(SpelledSeq(hex_offset))
      BY Zenon DEF Spell, SpelledSeq, Spelled
    <2> QED BY <2>1, <2>6, <2>7
  <1>6. npf_parse_format_spec(f, 1).len = 0
    <2>1. CharAt(f, 2) = 108 /\ CharAt(f, 3) = 108
      BY <1>2 DEF CharAt
    <2>2. FlagsEnd(f, 1, 2)
      <3>1. ~Flag(f, 2)
        BY <2>1 DEF Flag, Ch
      <3>2. 2 \in 1 + 1 .. Len(f) + 1 /\ \A m \in 1 + 1 .. 2 - 1 : FALSE
        BY <1>2
      <3> QED BY <3>1, <3>2, Zenon DEF FlagsEnd
    <2>3. 1 \in 1 .. Len(f)
      BY <1>2
    <2>4. CharAt(f, 2) = Ch.l /\ 108 \notin Conversions
      BY <2>1 DEF Ch, Conversions, SignedConv, UnsignedConv
    <2> DEFINE pos == IF CharAt(f, 2) = Ch.l THEN 2 + 1 ELSE 2
    <2>5. npf_parse_format_spec(f, 1) =
                 [len |-> IF CharAt(f, pos) \in Conversions THEN pos - 1 + 1 ELSE 0,
                  prepend |-> npf_prepend(SubSeq(f, 1 + 1, 2 - 1)),
                  long |-> pos # 2, conv |-> CharAt(f, pos)]
      <3>1. f \in Seq(Nat)
        BY <1>2
      <3> QED BY <2>2, <2>3, <3>1, ParseAt, Zenon
    <2>6. pos = 3
      BY <2>4
    <2>7. CharAt(f, pos) \notin Conversions
      BY <2>1, <2>4, <2>6
    <2> HIDE DEF pos
    <2> QED BY <2>5, <2>7
  <1>7. PICK out : /\ npf_vpprintf(f, args) = out[1][1]
                   /\ \A p \in 1 .. Len(f) + 1 : \A n \in Nat : out[p][n] = OutStep(f, args, out, p, n)
    <2>1. f \in Seq(Nat)
      BY <1>2
    <2> QED BY <2>1, OutIs
  <1> DEFINE Ends(t, p) == t \in Seq(Nat) /\ Len(t) = 9 - p /\ \A k \in 1 .. 9 - p : t[k] = f[p + k - 1]
             Good(p) == Ends(out[p][1], p)
  <1>8. Good(9)
    <2>0. Ends(<<>>, 9)
      BY EmptySeq
    <2>1. 9 \in 1 .. Len(f) + 1 /\ 9 > Len(f) /\ 1 \in Nat
      BY <1>2
    <2>2. out[9][1] = <<>>
      BY <1>7, <2>1, Zenon DEF OutStep
    <2> HIDE DEF Ends
    <2> QED BY <2>0, <2>2
  <1>9. \A p \in 1 .. 8 : Good(p + 1) => Good(p)
    <2>1. SUFFICES ASSUME NEW p \in 1 .. 8, Good(p + 1) PROVE Good(p)
      OBVIOUS
    <2>2. p \in 1 .. Len(f) + 1 /\ ~(p > Len(f)) /\ 1 \in Nat
      BY <1>2
    <2>3. f[p] # Ch.PCT \/ npf_parse_format_spec(f, p).len = 0
      <3>1. CASE p = 1
        BY <1>6, <3>1
      <3>2. CASE p # 1
        <4>1. f[p] # 37
          BY <1>chars, <3>2
        <4>2. Ch.PCT = 37
          BY DEF Ch
        <4> QED BY <4>1, <4>2
      <3> QED BY <3>1, <3>2
    <2>4. out[p][1] = <<f[p]>> \o out[p + 1][1]
      <3>1. out[p][1] = OutStep(f, args, out, p, 1)
        BY <1>7, <2>2, Zenon
      <3> QED BY <2>2, <2>3, <3>1, Zenon DEF OutStep
    <2>5. PICK a, b : a = <<f[p]>> /\ b = out[p + 1][1]
      BY Zenon
    <2>6. a \in Seq(Nat) /\ Len(a) = 1
      <3>1. f[p] \in Nat
        BY <1>chars
      <3> QED BY <2>5, <3>1
    <2>7. Ends(b, p + 1)
      <3> HIDE DEF Ends
      <3> QED BY <2>1, <2>5
    <2>8. b \in Seq(Nat) /\ Len(b) = 8 - p /\ \A k \in 1 .. 8 - p : b[k] = f[p + k]
      <3>1. 9 - (p + 1) = 8 - p /\ \A k \in 1 .. 8 - p : (p + 1) + k - 1 = p + k
        OBVIOUS
      <3> QED BY <2>7, <3>1
    <2>9. PICK c : c = a \o b
      OBVIOUS
    <2>10. /\ c \in Seq(Nat) /\ Len(c) = Len(a) + Len(b)
           /\ \A k \in 1 .. Len(a) + Len(b) : c[k] = IF k <= Len(a) THEN a[k] ELSE b[k - Len(a)]
      <3>1. a \in Seq(Nat) /\ b \in Seq(Nat)
        BY <2>6, <2>8
      <3> QED BY ONLY <2>9, <3>1, ConcatIs
    <2>11. Len(c) = 9 - p /\ \A k \in 1 .. 9 - p : c[k] = IF k <= 1 THEN a[k] ELSE b[k - 1]
      <3>1. Len(a) + Len(b) = 9 - p /\ Len(a) = 1
        BY <2>6, <2>8
      <3> QED BY <2>10, <3>1, Zenon
    <2>12. a[1] = f[p]
      BY <2>5
    <2>13. ASSUME NEW k \in 1 .. 9 - p PROVE c[k] = f[p + k - 1]
      <3>1. CASE k = 1
        <4>1. p + k - 1 = p /\ k <= 1
          BY <3>1
        <4> QED BY <2>11, <2>12, <3>1, <4>1
      <3>2. CASE k # 1
        <4>1. ~(k <= 1) /\ k - 1 \in 1 .. 8 - p /\ p + (k - 1) = p + k - 1
          BY <3>2
        <4> QED BY <2>8, <2>11, <4>1
      <3> QED BY <3>1, <3>2
    <2>14. Ends(c, p)
      BY <2>10, <2>11, <2>13
    <2>15. out[p][1] = c
      BY <2>4, <2>5, <2>9
    <2> HIDE DEF Ends
    <2> QED BY <2>14, <2>15
  <1>10. Good(1)
    <2> HIDE DEF Good
    <2>1. Good(7) /\ Good(8)
      <3>1. 8 + 1 = 9 /\ 7 + 1 = 8 /\ 8 \in 1 .. 8 /\ 7 \in 1 .. 8
        OBVIOUS
      <3> QED BY <1>8, <1>9, <3>1
    <2>2. Good(5) /\ Good(6)
      <3>1. 6 + 1 = 7 /\ 5 + 1 = 6 /\ 5 \in 1 .. 8 /\ 6 \in 1 .. 8
        OBVIOUS
      <3> QED BY <1>9, <2>1, <3>1
    <2>3. Good(3) /\ Good(4)
      <3>1. 4 + 1 = 5 /\ 3 + 1 = 4 /\ 3 \in 1 .. 8 /\ 4 \in 1 .. 8
        OBVIOUS
      <3> QED BY <1>9, <2>2, <3>1
    <2>4. 2 + 1 = 3 /\ 1 + 1 = 2 /\ 1 \in 1 .. 8 /\ 2 \in 1 .. 8
      OBVIOUS
    <2> QED BY <1>9, <2>3, <2>4
  <1>11. Printed(hex_offset, args) = out[1][1]
    BY <1>5, <1>7, Zenon DEF Printed
  <1>12. PICK t : t = out[1][1]
    OBVIOUS
  <1>13. Ends(t, 1)
    <2> HIDE DEF Ends
    <2> QED BY <1>10, <1>12
  <1>14. t \in Seq(Nat) /\ Len(t) = 8 /\ \A k \in 1 .. 8 : t[k] = f[k]
    <2>1. 9 - 1 = 8 /\ \A k \in 1 .. 8 : 1 + k - 1 = k
      OBVIOUS
    <2> QED BY <1>13, <2>1
  <1>15. t = f
    <2>1. t \in Seq(Nat) /\ f \in Seq(Nat) /\ Len(t) = Len(f) /\ \A k \in 1 .. Len(t) : t[k] = f[k]
      BY <1>2, <1>14
    <2> QED BY ONLY <2>1, SeqEqual
  <1>16. f = <<Ch.PCT, Ch.l, Ch.l, Ch.x, Ch.SP, Ch.SP, Ch.SP, Ch.SP>>
    BY <1>1 DEF Ch
  <1> QED BY <1>11, <1>12, <1>15, <1>16, Zenon

\* The items in front of a message of _log, each with its argument.
LEMMA WhereItems ==
    log_where \in Seq(Item) /\ Len(log_where) = 7 /\ ArgOf(log_where, 7) = 3 /\ Len(where_args) = 3
  <1>1. {Ch.s, Ch.i} \subseteq Conversions \ {Ch.PCT} /\ {58, 40, 41, Ch.SP} \subseteq Nat \ {Ch.PCT}
    BY DEF Ch, Conversions, SignedConv
  <1>2. PICK s, i, a, b, c, d : /\ s = Dir(Ch.s) /\ i = Dir(Ch.i) /\ a = Lit(58) /\ b = Lit(40)
                                /\ c = Lit(41) /\ d = Lit(Ch.SP)
    BY Zenon
  <1>3. s \in Item /\ i \in Item /\ TakesArg(s) /\ TakesArg(i)
    BY <1>1, <1>2, DirIs
  <1>4. /\ a \in Item /\ b \in Item /\ c \in Item /\ d \in Item
        /\ ~TakesArg(a) /\ ~TakesArg(b) /\ ~TakesArg(c) /\ ~TakesArg(d)
    BY <1>1, <1>2, LitIs
  <1>5. PICK w : w = log_where
    OBVIOUS
  <1>6. w = <<s, a, i, b, s, c, d>>
    BY <1>2, <1>5 DEF log_where
  <1>7. /\ w \in Seq(Item) /\ Len(w) = 7 /\ w[1] = s /\ w[2] = a /\ w[3] = i /\ w[4] = b
        /\ w[5] = s /\ w[6] = c /\ w[7] = d
    BY <1>3, <1>4, <1>6
  <1> DEFINE Next(k) == ArgOf(w, k + 1) = ArgOf(w, k) + (IF TakesArg(w[k + 1]) THEN 1 ELSE 0)
  <1>8. ArgOf(w, 0) = 0 /\ \A k \in Nat : Next(k)
    BY ArgOfIs
  <1>9. Next(0) /\ Next(1) /\ Next(2) /\ Next(3) /\ Next(4) /\ Next(5) /\ Next(6)
    <2> HIDE DEF Next
    <2> QED BY <1>8
  <1>10. ArgOf(w, 1) = 1 /\ ArgOf(w, 2) = 1
    <2>1. ArgOf(w, 0 + 1) = 0 + 1
      BY <1>3, <1>7, <1>8, <1>9
    <2>2. ArgOf(w, 1 + 1) = ArgOf(w, 1) + 0
      BY <1>4, <1>7, <1>9
    <2> QED BY <2>1, <2>2
  <1>11. ArgOf(w, 3) = 2 /\ ArgOf(w, 4) = 2
    <2>1. ArgOf(w, 2 + 1) = ArgOf(w, 2) + 1
      BY <1>3, <1>7, <1>9
    <2>2. ArgOf(w, 3 + 1) = ArgOf(w, 3) + 0
      BY <1>4, <1>7, <1>9
    <2> QED BY <1>10, <2>1, <2>2
  <1>12. ArgOf(w, 5) = 3 /\ ArgOf(w, 6) = 3 /\ ArgOf(w, 7) = 3
    <2>1. ArgOf(w, 4 + 1) = ArgOf(w, 4) + 1
      BY <1>3, <1>7, <1>9
    <2>2. ArgOf(w, 5 + 1) = ArgOf(w, 5) + 0
      BY <1>4, <1>7, <1>9
    <2>3. ArgOf(w, 6 + 1) = ArgOf(w, 6) + 0
      BY <1>4, <1>7, <1>9
    <2> QED BY <1>11, <2>1, <2>2, <2>3
  <1>13. Len(where_args) = 3
    BY DEF where_args
  <1> QED BY <1>5, <1>7, <1>12, <1>13

\* _log and _panic print the place and then the message, each with its own
\* arguments.
LEMMA WhereIs ==
    ASSUME Formed(log_where, where_args)
    PROVE  \A first \in {log_where, panic_where} :
               Formed(first, where_args) /\ ArgOf(first, Len(first)) = Len(where_args)
  <1>1. log_where \in Seq(Item) /\ Len(log_where) = 7 /\ ArgOf(log_where, 7) = 3 /\ Len(where_args) = 3
    BY WhereItems
  <1>2. PICK w, p, e : w = log_where /\ p = panic_where /\ e = <<Lit(PANIC)>>
    BY Zenon
  <1>3. Lit(PANIC) \in Item /\ ~TakesArg(Lit(PANIC))
    <2>1. PANIC \in Nat \ {Ch.PCT}
      BY DEF PANIC, Ch
    <2> QED BY <2>1, LitIs
  <1>4. e \in Seq(Item) /\ Len(e) = 1 /\ e[1] = Lit(PANIC)
    BY <1>2, <1>3
  <1>5. p = w \o e
    <2>1. p = Append(w, Lit(PANIC))
      BY <1>2 DEF panic_where
    <2> QED BY <1>1, <1>2, <1>3, <2>1, AppendIsConcat
  <1>6. w \in Seq(Item) /\ Len(w) = 7
    BY <1>1, <1>2
  <1>7. p \in Seq(Item) /\ Len(p) = 8 /\ (\A k \in 1 .. 7 : p[k] = w[k]) /\ p[8] = Lit(PANIC)
    <2>1. /\ p \in Seq(Item) /\ Len(p) = Len(w) + Len(e)
          /\ \A k \in 1 .. Len(w) + Len(e) : p[k] = IF k <= Len(w) THEN w[k] ELSE e[k - Len(w)]
      BY <1>4, <1>5, <1>6, ConcatIs
    <2>2. Len(p) = 8 /\ \A k \in 1 .. 8 : p[k] = IF k <= 7 THEN w[k] ELSE e[k - 7]
      BY <1>4, <1>6, <2>1
    <2>3. p[8] = e[1] /\ \A k \in 1 .. 7 : p[k] = w[k]
      BY ONLY <2>2
    <2> QED BY <1>4, <2>1, <2>2, <2>3
  <1>8. \A k \in 0 .. 7 : ArgOf(p, k) = ArgOf(w, k)
    BY <1>4, <1>5, <1>6, ArgOfConcat
  <1>9. ArgOf(p, 8) = 3
    <2>1. ArgOf(p, 7 + 1) = ArgOf(p, 7) + (IF TakesArg(p[7 + 1]) THEN 1 ELSE 0)
      BY ArgOfIs
    <2>2. ArgOf(p, 7) = 3
      BY <1>1, <1>2, <1>8
    <2> QED BY <1>3, <1>7, <2>1, <2>2
  <1>10. PICK args : args = where_args
    OBVIOUS
  <1>11. \A k \in 1 .. 7 : TakesArg(w[k]) => ArgOf(w, k) <= Len(args) /\ ArgFits(w[k], args[ArgOf(w, k)])
    BY <1>1, <1>2, <1>10, Zenon DEF Formed
  <1>12. Formed(p, args)
    <2>1. \A k \in 1 .. 8 : TakesArg(p[k]) => ArgOf(p, k) <= Len(args) /\ ArgFits(p[k], args[ArgOf(p, k)])
      <3>1. SUFFICES ASSUME NEW k \in 1 .. 8, TakesArg(p[k])
                     PROVE  ArgOf(p, k) <= Len(args) /\ ArgFits(p[k], args[ArgOf(p, k)])
        OBVIOUS
      <3>2. k # 8
        BY <1>3, <1>7, <3>1
      <3>3. k \in 1 .. 7 /\ k \in 0 .. 7
        BY <3>2
      <3>4. p[k] = w[k] /\ ArgOf(p, k) = ArgOf(w, k)
        BY <1>7, <1>8, <3>3
      <3> QED BY <1>11, <3>1, <3>3, <3>4, Zenon
    <2>2. Len(args) \in Nat /\ args = [k \in 1 .. Len(args) |-> args[k]]
      BY <1>10, Zenon DEF Formed
    <2> QED BY <1>7, <2>1, <2>2, Zenon DEF Formed
  <1>13. ArgOf(p, Len(p)) = 3 /\ ArgOf(w, Len(w)) = 3
    BY <1>1, <1>2, <1>7, <1>9
  <1> QED BY <1>1, <1>2, <1>10, <1>12, <1>13

----------------------------------------------------------------------------
(* The text of a line *)

\* Requests that print a text.
Prints(reqs, text) == reqs \in Seq(Request) /\ text \in Seq(Nat) /\ TextOf(reqs) = text

\* Two lists of requests print their texts one after the other.
LEMMA PrintsConcat ==
    ASSUME NEW a, NEW b, NEW s, NEW t, Prints(a, s), Prints(b, t)
    PROVE  Prints(a \o b, s \o t)
  <1>1. /\ a \in Seq(Request) /\ b \in Seq(Request) /\ s \in Seq(Nat) /\ t \in Seq(Nat)
        /\ TextOf(a) = s /\ TextOf(b) = t
    BY DEF Prints
  <1>2. PICK c, x, y, z : c = a \o b /\ x = Texts(a) /\ y = Texts(b) /\ z = Texts(a \o b)
    BY Zenon
  <1>3. /\ c \in Seq(Request) /\ Len(c) = Len(a) + Len(b)
        /\ \A k \in 1 .. Len(a) + Len(b) : c[k] = IF k <= Len(a) THEN a[k] ELSE b[k - Len(a)]
    <2>1. a \in Seq(Request) /\ b \in Seq(Request)
      BY <1>1
    <2> QED BY ONLY <1>2, <2>1, ConcatIs
  <1>4. x \in Seq(Seq(Nat)) /\ Len(x) = Len(a) /\ \A k \in 1 .. Len(a) : x[k] = a[k].text
    BY <1>1, <1>2, TextsTyped
  <1>5. y \in Seq(Seq(Nat)) /\ Len(y) = Len(b) /\ \A k \in 1 .. Len(b) : y[k] = b[k].text
    BY <1>1, <1>2, TextsTyped
  <1>6. z \in Seq(Seq(Nat)) /\ Len(z) = Len(c) /\ \A k \in 1 .. Len(c) : z[k] = c[k].text
    BY <1>2, <1>3, TextsTyped
  <1>7. PICK w : w = x \o y
    OBVIOUS
  <1>8. /\ w \in Seq(Seq(Nat)) /\ Len(w) = Len(x) + Len(y)
        /\ \A k \in 1 .. Len(x) + Len(y) : w[k] = IF k <= Len(x) THEN x[k] ELSE y[k - Len(x)]
    <2>1. x \in Seq(Seq(Nat)) /\ y \in Seq(Seq(Nat))
      BY <1>4, <1>5
    <2> QED BY ONLY <1>7, <2>1, ConcatIs
  <1>9. PICK m, n : m = Len(a) /\ n = Len(b)
    OBVIOUS
  <1>10. m \in Nat /\ n \in Nat
    BY <1>1, <1>9
  <1>11. ASSUME NEW k \in 1 .. m + n PROVE w[k] = z[k]
    <2>1. w[k] = (IF k <= m THEN x[k] ELSE y[k - m]) /\ z[k] = c[k].text
      BY <1>3, <1>4, <1>5, <1>6, <1>8, <1>9, Zenon
    <2>2. c[k] = IF k <= m THEN a[k] ELSE b[k - m]
      BY <1>3, <1>9, Zenon
    <2>3. CASE k <= m
      <3>1. k \in 1 .. m
        BY <1>10, <2>3
      <3>2. x[k] = a[k].text
        BY <1>4, <1>9, <3>1, Zenon
      <3> QED BY <2>1, <2>2, <2>3, <3>2, Zenon
    <2>4. CASE ~(k <= m)
      <3>1. k - m \in 1 .. n
        BY <1>10, <2>4
      <3>2. y[k - m] = b[k - m].text
        BY <1>5, <1>9, <3>1, Zenon
      <3> QED BY <2>1, <2>2, <2>4, <3>2, Zenon
    <2> QED BY <2>3, <2>4
  <1>12. w = z
    <2>1. Len(w) = m + n /\ Len(z) = m + n
      BY <1>3, <1>4, <1>5, <1>6, <1>8, <1>9, Zenon
    <2>2. Len(w) = Len(z) /\ \A k \in 1 .. Len(w) : w[k] = z[k]
      BY <1>11, <2>1, Zenon
    <2>3. w \in Seq(Seq(Nat)) /\ z \in Seq(Seq(Nat))
      BY <1>6, <1>8
    <2> QED BY ONLY <2>2, <2>3, SeqEqual
  <1>13. FlattenSeq(x \o y) = FlattenSeq(x) \o FlattenSeq(y)
    BY <1>4, <1>5, FlattenConcat
  <1>14. TextOf(a) = FlattenSeq(x) /\ TextOf(b) = FlattenSeq(y) /\ TextOf(c) = FlattenSeq(z)
    BY <1>2, Zenon DEF TextOf, Texts
  <1>15. TextOf(c) = s \o t
    BY <1>1, <1>7, <1>12, <1>13, <1>14, Zenon
  <1>16. s \o t \in Seq(Nat)
    BY <1>1, ConcatProperties
  <1> QED BY <1>2, <1>3, <1>15, <1>16, Zenon DEF Prints

\* So do as many lists as there are.
LEMMA PrintsFlatten ==
    ASSUME NEW a \in Seq(Seq(Request)), NEW b \in Seq(Seq(Nat)), Len(a) = Len(b),
           \A i \in 1 .. Len(a) : Prints(a[i], b[i])
    PROVE  Prints(FlattenSeq(a), FlattenSeq(b))
  <1> DEFINE Each(s, t) == Len(s) = Len(t) /\ \A i \in 1 .. Len(s) : Prints(s[i], t[i])
             Wrong(s, t) == Each(s, t) /\ ~Prints(FlattenSeq(s), FlattenSeq(t))
             Bad(n) == \E s \in Seq(Seq(Request)) : \E t \in Seq(Seq(Nat)) : Len(s) = n /\ Wrong(s, t)
             B == {n \in Nat : Bad(n)}
  <1>1. ASSUME B # {} PROVE FALSE
    <2>1. PICK n \in B : \A l \in B : n <= l
      <3>1. B \subseteq Nat
        OBVIOUS
      <3> QED BY <1>1, <3>1, Least
    <2>2. PICK s \in Seq(Seq(Request)), t \in Seq(Seq(Nat)) : Len(s) = n /\ Wrong(s, t)
      BY <2>1
    <2>3. n \in Nat /\ Len(t) = n /\ \A i \in 1 .. n : Prints(s[i], t[i])
      BY <2>1, <2>2
    <2>4. ~Prints(FlattenSeq(s), FlattenSeq(t))
      BY <2>2
    <2>5. CASE n = 0
      <3>1. FlattenSeq(s) = <<>> /\ FlattenSeq(t) = <<>>
        BY <2>2, <2>3, <2>5, FlattenIs
      <3>2. Prints(<<>>, <<>>)
        <4>1. <<>> \in Seq(Request) /\ <<>> \in Seq(Nat)
          BY EmptySeq
        <4> QED BY <4>1, TextNone DEF Prints
      <3> QED BY <2>4, <3>1, <3>2
    <2>6. CASE n # 0
      <3>1. PICK u, v : u = Tail(s) /\ v = Tail(t)
        OBVIOUS
      <3>2. s # <<>> /\ t # <<>>
        BY <2>2, <2>3, <2>6
      <3>3. u \in Seq(Seq(Request)) /\ Len(u) = n - 1 /\ \A i \in 1 .. Len(u) : u[i] = s[i + 1]
        BY <2>2, <3>1, <3>2, HeadTailProperties
      <3>4. v \in Seq(Seq(Nat)) /\ Len(v) = n - 1 /\ \A i \in 1 .. Len(v) : v[i] = t[i + 1]
        BY <2>3, <3>1, <3>2, HeadTailProperties
      <3>5. n - 1 \in Nat /\ ~(n <= n - 1) /\ 1 \in 1 .. n /\ \A i \in 1 .. n - 1 : i + 1 \in 1 .. n
        BY <2>3, <2>6
      <3>6. Each(u, v)
        <4>1. ASSUME NEW i \in 1 .. Len(u) PROVE Prints(u[i], v[i])
          <5>1. u[i] = s[i + 1] /\ v[i] = t[i + 1] /\ i + 1 \in 1 .. n
            BY <3>3, <3>4, <3>5
          <5> QED BY <2>3, <5>1, Zenon
        <4> QED BY <3>3, <3>4, <4>1
      <3>7. PICK m : m = n - 1
        OBVIOUS
      <3>8. Prints(FlattenSeq(u), FlattenSeq(v))
        <4>1. ~Bad(m)
          <5> HIDE DEF Bad
          <5> QED BY <2>1, <3>5, <3>7
        <4>2. Len(u) = m
          BY <3>3, <3>7
        <4>3. ~Wrong(u, v)
          <5> HIDE DEF Wrong
          <5> QED BY <3>3, <3>4, <4>1, <4>2
        <4> HIDE DEF Each
        <4> QED BY <3>6, <4>3
      <3>9. Head(s) = s[1] /\ Head(t) = t[1] /\ Prints(s[1], t[1])
        BY <2>3, <3>2, <3>5
      <3>10. FlattenSeq(s) = Head(s) \o FlattenSeq(u)
        BY <3>1, <3>2, FlattenCons
      <3>11. FlattenSeq(t) = Head(t) \o FlattenSeq(v)
        BY <3>1, <3>2, FlattenCons
      <3>12. Prints(s[1] \o FlattenSeq(u), t[1] \o FlattenSeq(v))
        BY <3>8, <3>9, PrintsConcat
      <3> QED BY <2>4, <3>9, <3>10, <3>11, <3>12, Zenon
    <2> QED BY <2>5, <2>6
  <1>2. Each(a, b)
    OBVIOUS
  <1>3. Len(a) \in Nat
    OBVIOUS
  <1>4. ~Bad(Len(a))
    <2> HIDE DEF Bad
    <2> QED BY <1>1, <1>3
  <1>5. ~Wrong(a, b)
    <2> HIDE DEF Wrong
    <2> QED BY <1>4
  <1> HIDE DEF Each
  <1> QED BY <1>2, <1>5

\* The blanks of a missing byte, and the strings around the characters.
LEMMA StringsText ==
    /\ Prints(kputs(<<Ch.SP, Ch.SP, Ch.SP, 0>>), <<Ch.SP, Ch.SP, Ch.SP>>)
    /\ Prints(kputs(<<Ch.SP, Ch.SP, Ch.SP, Ch.SP, Ch.BAR, 0>>), <<Ch.SP, Ch.SP, Ch.SP, Ch.SP, Ch.BAR>>)
    /\ Prints(kputs(<<Ch.BAR, Ch.LF, 0>>), <<Ch.BAR, Ch.LF>>)
  <1>1. PICK x, y, z : x = Ch.SP /\ y = Ch.BAR /\ z = Ch.LF
    OBVIOUS
  <1>2. x \in Nat \ {0} /\ y \in Nat \ {0} /\ z \in Nat \ {0}
    BY <1>1 DEF Ch
  <1>3. ASSUME NEW t \in Seq(Nat), NEW n \in Nat, NEW s \in Seq(Nat), Len(t) = n, Len(s) = n + 1, s[n + 1] = 0,
               \A k \in 1 .. n : s[k] = t[k] /\ t[k] # 0
        PROVE  Prints(kputs(s), t)
    <2>1. s # <<>> /\ Len(s) - 1 = n
      BY <1>3
    <2>2. \A k \in 1 .. Len(s) - 1 : s[k] # 0
      BY <1>3, <2>1
    <2>3. kputs(s) \in Seq(Request) /\ TextOf(kputs(s)) = Front(s)
      BY <1>3, <2>1, <2>2, CStringText
    <2>4. PICK f : f = SubSeq(s, 1, n)
      OBVIOUS
    <2>5. Front(s) = f
      BY <2>1, <2>4 DEF Front
    <2>6. f \in Seq(Nat) /\ Len(f) = n /\ \A k \in 1 .. n : f[k] = s[k]
      <3>1. 1 \in Int /\ n \in Int /\ \A k \in 1 .. n : s[k] \in Nat
        BY <1>3
      <3>2. f \in Seq(Nat) /\ Len(f) = IF 1 <= n THEN n - 1 + 1 ELSE 0
        BY <2>4, <3>1, SubSeqProperties
      <3>3. Len(f) = n
        BY <3>2
      <3>4. \A k \in 1 .. n - 1 + 1 : f[k] = s[1 + k - 1]
        BY <2>4, <3>1, SubSeqProperties
      <3>5. n - 1 + 1 = n /\ \A k \in 1 .. n : 1 + k - 1 = k
        OBVIOUS
      <3> QED BY <3>2, <3>3, <3>4, <3>5
    <2>7. f = t
      <3>1. f \in Seq(Nat) /\ t \in Seq(Nat) /\ Len(f) = Len(t) /\ \A k \in 1 .. Len(f) : f[k] = t[k]
        BY <1>3, <2>6
      <3> QED BY ONLY <3>1, SeqEqual
    <2> QED BY <2>3, <2>5, <2>7 DEF Prints
  <1>4. Prints(kputs(<<x, x, x, 0>>), <<x, x, x>>)
    <2>1. PICK s, t : s = <<x, x, x, 0>> /\ t = <<x, x, x>>
      OBVIOUS
    <2>2. /\ s \in Seq(Nat) /\ Len(s) = 3 + 1 /\ s[3 + 1] = 0 /\ t \in Seq(Nat) /\ Len(t) = 3
          /\ s[1] = t[1] /\ s[2] = t[2] /\ s[3] = t[3] /\ t[1] # 0 /\ t[2] # 0 /\ t[3] # 0
      BY <1>2, <2>1
    <2>3. \A k \in 1 .. 3 : k = 1 \/ k = 2 \/ k = 3
      OBVIOUS
    <2> QED BY <1>3, <2>1, <2>2, <2>3
  <1>5. Prints(kputs(<<x, x, x, x, y, 0>>), <<x, x, x, x, y>>)
    <2>1. PICK s, t : s = <<x, x, x, x, y, 0>> /\ t = <<x, x, x, x, y>>
      OBVIOUS
    <2>2. /\ s \in Seq(Nat) /\ Len(s) = 5 + 1 /\ s[5 + 1] = 0 /\ t \in Seq(Nat) /\ Len(t) = 5
          /\ s[1] = t[1] /\ s[2] = t[2] /\ s[3] = t[3] /\ s[4] = t[4] /\ s[5] = t[5]
          /\ t[1] # 0 /\ t[2] # 0 /\ t[3] # 0 /\ t[4] # 0 /\ t[5] # 0
      BY <1>2, <2>1
    <2>3. \A k \in 1 .. 5 : k = 1 \/ k = 2 \/ k = 3 \/ k = 4 \/ k = 5
      OBVIOUS
    <2>4. Len(s) = 5 + 1 /\ Len(t) = 5 /\ s[5 + 1] = 0 /\ \A k \in 1 .. 5 : s[k] = t[k] /\ t[k] # 0
      BY ONLY <2>2, <2>3
    <2>5. Prints(kputs(s), t)
      BY <1>3, <2>2, <2>4
    <2> QED BY <2>1, <2>5, Zenon
  <1>6. Prints(kputs(<<y, z, 0>>), <<y, z>>)
    <2>1. PICK s, t : s = <<y, z, 0>> /\ t = <<y, z>>
      OBVIOUS
    <2>2. /\ s \in Seq(Nat) /\ Len(s) = 2 + 1 /\ s[2 + 1] = 0 /\ t \in Seq(Nat) /\ Len(t) = 2
          /\ s[1] = t[1] /\ s[2] = t[2] /\ t[1] # 0 /\ t[2] # 0
      BY <1>2, <2>1
    <2>3. \A k \in 1 .. 2 : k = 1 \/ k = 2
      OBVIOUS
    <2> QED BY <1>3, <2>1, <2>2, <2>3
  <1> QED BY <1>1, <1>4, <1>5, <1>6

\* The data of a hexdump.
LEMMA DataFits ==
    ASSUME PowerLaw, NEW c, CallFormed(c), c.op = "khexdump"
    PROVE  /\ c.data \in Seq(Nat) /\ Len(c.data) \in Nat /\ Len(c.data) < 2^LONG_BITS
           /\ \A k \in 1 .. Len(c.data) : c.data[k] \in 0 .. 255
  <1>1. c.data \in Seq(0 .. 255) /\ Len(c.data) + 15 < 2^LONG_BITS
    BY DEF CallFormed
  <1>2. c.data \in Seq(Nat) /\ \A k \in 1 .. Len(c.data) : c.data[k] \in 0 .. 255
    <2>1. 0 .. 255 \subseteq Nat
      OBVIOUS
    <2> QED BY <1>1, <2>1, SeqMonotonic, ElementOfSeq
  <1>3. Len(c.data) \in Nat /\ Len(c.data) < 2^LONG_BITS
    <2>1. PICK n, e : n = Len(c.data) /\ e = 2^LONG_BITS
      BY Zenon
    <2>2. e \in Int
      <3>1. e = Pow(2, LONG_BITS)
        BY <2>1, Zenon DEF Pow
      <3> QED BY <3>1, WidthIs
    <2>3. n \in Nat
      BY <1>2, <2>1
    <2>4. n + 15 < e
      BY <1>1, <2>1
    <2>5. n < e
      BY <2>2, <2>3, <2>4
    <2> QED BY <2>1, <2>3, <2>5
  <1> QED BY <1>2, <1>3

\* What the directives of khexdump print: a digit 0, a byte with its 0 in front
\* if it needs one, and the offset.
LEMMA PartsText ==
    ASSUME PowerLaw
    PROVE  /\ Prints(kprintf(<<Dir(Ch.x)>>, <<0>>), <<Ch.ZERO>>)
           /\ \A v \in 0 .. 255 :
                Prints((IF v < 16 THEN kprintf(<<Dir(Ch.x)>>, <<0>>) ELSE <<>>)
                         \o kprintf(<<Dir(Ch.x), Lit(Ch.SP)>>, <<v>>),
                       Numeral(v \div 16, 16, FALSE) \o Numeral(v % 16, 16, FALSE) \o <<Ch.SP>>)
           /\ \A i : Prints(kprintf(hex_offset, <<i * 16>>),
                            <<Ch.PCT, Ch.l, Ch.l, Ch.x, Ch.SP, Ch.SP, Ch.SP, Ch.SP>>)
  <1>1. ASSUME NEW items, NEW args, NEW t, Printed(items, args) = t, t \in Seq(Nat)
        PROVE  Prints(kprintf(items, args), t)
    <2>1. kprintf(items, args) = kputc_npf(t)
      BY <1>1, Zenon DEF kprintf, Printed
    <2> QED BY <1>1, <2>1, BytesText DEF Prints
  <1>2. Ch.ZERO \in Nat /\ Ch.SP \in Nat
    BY DEF Ch
  <1>3. PICK b : b = <<Ch.SP>>
    OBVIOUS
  <1>4. b \in Seq(Nat)
    BY <1>2, <1>3
  <1>5. Numeral(0, 16, FALSE) = <<Ch.ZERO>>
    <2>1. 0 \in 0 .. 255
      OBVIOUS
    <2> QED BY <2>1, ByteHalves
  <1>6. Prints(kprintf(<<Dir(Ch.x)>>, <<0>>), <<Ch.ZERO>>)
    <2>1. <<Ch.ZERO>> \in Seq(Nat)
      BY <1>2
    <2> QED BY <1>1, <1>5, <2>1, ZeroText
  <1>7. ASSUME NEW v \in 0 .. 255
        PROVE  Prints((IF v < 16 THEN kprintf(<<Dir(Ch.x)>>, <<0>>) ELSE <<>>)
                         \o kprintf(<<Dir(Ch.x), Lit(Ch.SP)>>, <<v>>),
                      Numeral(v \div 16, 16, FALSE) \o Numeral(v % 16, 16, FALSE) \o <<Ch.SP>>)
    <2>1. PICK n, h, l, value : /\ n = Numeral(v, 16, FALSE) /\ h = Numeral(v \div 16, 16, FALSE)
                                /\ l = Numeral(v % 16, 16, FALSE)
                                /\ value = kprintf(<<Dir(Ch.x), Lit(Ch.SP)>>, <<v>>)
      BY Zenon
    <2>2. n \in Seq(Nat) /\ h \in Seq(Nat) /\ l \in Seq(Nat)
      BY <2>1, ByteDigits, ByteHalves
    <2>3. Prints(value, n \o b)
      <3>1. n \o b \in Seq(Nat)
        BY <1>4, <2>2, ConcatProperties
      <3>2. Printed(<<Dir(Ch.x), Lit(Ch.SP)>>, <<v>>) = n \o b
        BY <1>3, <2>1, ByteText
      <3> QED BY <1>1, <2>1, <3>1, <3>2
    <2>4. CASE v < 16
      <3>1. h = <<Ch.ZERO>> /\ l = n
        <4>1. v \div 16 = 0 /\ v % 16 = v
          BY <2>4
        <4> QED BY <1>5, <2>1, <4>1, Zenon
      <3>2. Prints(kprintf(<<Dir(Ch.x)>>, <<0>>) \o value, h \o (l \o b))
        BY <1>6, <2>3, <3>1, PrintsConcat
      <3>3. h \o (l \o b) = h \o l \o b
        <4>1. Cat(Cat(h, l), b) = Cat(h, Cat(l, b))
          BY <1>4, <2>2, CatGroups
        <4> QED BY <4>1, Zenon DEF Cat
      <3> QED BY <1>3, <2>1, <2>4, <3>2, <3>3, Zenon
    <2>5. CASE ~(v < 16)
      <3>1. n = h \o l
        BY <2>1, <2>5, ByteHalves
      <3>2. value \in Seq(Request)
        BY <2>3 DEF Prints
      <3>3. <<>> \o value = value
        BY <3>2, ConcatEmptySeq
      <3> QED BY <1>3, <2>1, <2>3, <2>5, <3>1, <3>3, Zenon
    <2> QED BY <2>4, <2>5
  <1>8. ASSUME NEW i
        PROVE  Prints(kprintf(hex_offset, <<i * 16>>), <<Ch.PCT, Ch.l, Ch.l, Ch.x, Ch.SP, Ch.SP, Ch.SP, Ch.SP>>)
    <2>1. PICK t : t = <<Ch.PCT, Ch.l, Ch.l, Ch.x, Ch.SP, Ch.SP, Ch.SP, Ch.SP>>
      OBVIOUS
    <2>2. t \in Seq(Nat)
      BY <2>1 DEF Ch
    <2>3. Printed(hex_offset, <<i * 16>>) = t
      BY <2>1, OffsetText, Zenon
    <2> QED BY <1>1, <2>1, <2>2, <2>3
  <1> QED BY <1>6, <1>7, <1>8, Zenon

\* The same element n times.
LEMMA RepeatIs ==
    \A S : \A x \in S : \A n \in Nat :
        /\ [j \in 1 .. n |-> x] \in Seq(S) /\ Len([j \in 1 .. n |-> x]) = n
        /\ \A j \in 1 .. n : [k \in 1 .. n |-> x][j] = x
  OBVIOUS

\* Line i of a hexdump prints the text that it should.
LEMMA LineText ==
    ASSUME PowerLaw, NEW c, CallFormed(c), c.op = "khexdump", NEW i \in 0 .. (Len(c.data) + 15) \div 16 - 1
    PROVE  Prints(khexdump_line(c.data, i), HexText(c.data, i))
  <1>1. PICK data, size, z : data = c.data /\ size = Len(c.data) /\ z = hex_zeros(Len(c.data), i)
    BY Zenon
  <1>2. /\ data \in Seq(Nat) /\ size = Len(data) /\ size \in Nat /\ size < 2^LONG_BITS
        /\ \A k \in 1 .. size : data[k] \in 0 .. 255
    BY <1>1, DataFits, Zenon
  <1>3. i \in Nat /\ z \in Nat /\ z = Len(Numeral(size, 16, FALSE)) - Len(Numeral(i * 16, 16, FALSE))
    <2>1. i \in 0 .. (size + 15) \div 16 - 1
      BY <1>1
    <2>2. i \in Nat /\ i < (size + 15) \div 16
      BY <1>2, <2>1
    <2>3. z \in Nat /\ z = Len(Numeral(size, 16, FALSE)) - Len(Numeral(i * 16, 16, FALSE))
      BY <1>1, <1>2, <2>2, ZerosFill
    <2> QED BY <2>2, <2>3
  <1> DEFINE Zero == kprintf(<<Dir(Ch.x)>>, <<0>>)
             Blank == kputs(<<Ch.SP, Ch.SP, Ch.SP, 0>>)
             Value(d) == (IF d < 16 THEN Zero ELSE <<>>) \o kprintf(<<Dir(Ch.x), Lit(Ch.SP)>>, <<d>>)
             Hex(index) == IF index >= size THEN Blank ELSE Value(data[index + 1])
             Char(index) == IF index < size /\ 32 <= data[index + 1] /\ data[index + 1] < 127
                            THEN data[index + 1] ELSE Ch.DOT
             Zeros == [j \in 1 .. z |-> Zero]
             Hexes == [j \in 1 .. 16 |-> Hex(i * 16 + j - 1)]
             Chars == [j \in 1 .. 16 |-> Char(i * 16 + j - 1)]
             Offset == kprintf(hex_offset, <<i * 16>>)
             Bar == kputs(<<Ch.SP, Ch.SP, Ch.SP, Ch.SP, Ch.BAR, 0>>)
             End == kputs(<<Ch.BAR, Ch.LF, 0>>)
             Gap == <<Ch.SP, Ch.SP, Ch.SP>>
             Digit(d) == Numeral(d \div 16, 16, FALSE) \o Numeral(d % 16, 16, FALSE) \o <<Ch.SP>>
             HexIn(k) == IF k > size THEN Gap ELSE Digit(data[k])
             CharIn(k) == IF k <= size /\ data[k] \in 32 .. 126 THEN data[k] ELSE Ch.DOT
             ZerosIn == [j \in 1 .. z |-> Ch.ZERO]
             OffsetIn == <<Ch.PCT, Ch.l, Ch.l, Ch.x, Ch.SP, Ch.SP, Ch.SP, Ch.SP>>
             HexesIn == [j \in 1 .. 16 |-> HexIn(i * 16 + j)]
             CharsIn == [j \in 1 .. 16 |-> CharIn(i * 16 + j)]
             BarIn == <<Ch.SP, Ch.SP, Ch.SP, Ch.SP, Ch.BAR>>
             EndIn == <<Ch.BAR, Ch.LF>>
  <1>4. khexdump_line(c.data, i) =
            FlattenSeq(Zeros) \o Offset \o FlattenSeq(Hexes) \o Bar \o kputc_npf(Chars) \o End
    BY <1>1, Zenon DEF khexdump_line
  <1>5. HexText(c.data, i) = ZerosIn \o OffsetIn \o FlattenSeq(HexesIn) \o BarIn \o CharsIn \o EndIn
    BY <1>1, <1>3, Zenon DEF HexText
  <1>6. Prints(Zero, <<Ch.ZERO>>) /\ Prints(Offset, OffsetIn)
    BY PartsText, Zenon
  <1>7. Prints(Blank, Gap) /\ Prints(Bar, BarIn) /\ Prints(End, EndIn)
    BY StringsText, Zenon
  <1>8. \A d \in 0 .. 255 : Prints(Value(d), Digit(d))
    BY PartsText, Zenon
  <1> HIDE DEF Zero, Blank, Value, Offset, Bar, End, Gap, Digit, OffsetIn, BarIn, EndIn
  <1>9. Prints(FlattenSeq(Zeros), ZerosIn)
    <2>1. Zero \in Seq(Request) /\ <<Ch.ZERO>> \in Seq(Nat)
      BY <1>6 DEF Prints
    <2> DEFINE o == <<Ch.ZERO>>
               u == [j \in 1 .. z |-> o]
    <2>2. Zeros \in Seq(Seq(Request)) /\ Len(Zeros) = z /\ \A j \in 1 .. z : Zeros[j] = Zero
      <3>1. Zero \in Seq(Request) /\ z \in Nat
        BY <1>3, <2>1
      <3> QED BY ONLY <3>1, RepeatIs, Zenon
    <2>3. o = <<Ch.ZERO>> /\ o \in Seq(Nat)
      BY <2>1
    <2> HIDE DEF o
    <2>4. u \in Seq(Seq(Nat)) /\ Len(u) = z /\ \A j \in 1 .. z : u[j] = o
      <3>1. o \in Seq(Nat) /\ z \in Nat
        BY <1>3, <2>3
      <3> QED BY ONLY <3>1, RepeatIs, Zenon
    <2>5. ZerosIn \in Seq(Nat) /\ Len(ZerosIn) = z /\ \A j \in 1 .. z : ZerosIn[j] = Ch.ZERO
      <3>1. Ch.ZERO \in Nat
        BY DEF Ch
      <3>2. Ch.ZERO \in Nat /\ z \in Nat
        BY <1>3, <3>1
      <3> QED BY ONLY <3>2, RepeatIs, Zenon
    <2> HIDE DEF Zeros, ZerosIn, u
    <2>6. FlattenSeq(u) = ZerosIn
      <3>1. Len(u) = Len(ZerosIn) /\ \A j \in 1 .. Len(ZerosIn) : u[j] = <<ZerosIn[j]>>
        BY <2>3, <2>4, <2>5, Zenon
      <3>2. u \in Seq(Seq(Nat)) /\ ZerosIn \in Seq(Nat)
        BY <2>4, <2>5
      <3> QED BY <3>1, <3>2, FlattenUnits
    <2>7. Prints(FlattenSeq(Zeros), FlattenSeq(u))
      <3>1. Len(Zeros) = Len(u) /\ \A j \in 1 .. Len(Zeros) : Prints(Zeros[j], u[j])
        BY <1>6, <2>2, <2>3, <2>4, Zenon
      <3>2. Zeros \in Seq(Seq(Request)) /\ u \in Seq(Seq(Nat))
        BY <2>2, <2>4
      <3> QED BY <3>1, <3>2, PrintsFlatten
    <2> QED BY <2>6, <2>7
  <1>10. \A j \in 1 .. 16 : /\ i * 16 + j - 1 \in Nat /\ i * 16 + j \in Nat \ {0} /\ (i * 16 + j - 1) + 1 = i * 16 + j
                            /\ (i * 16 + j - 1 >= size <=> i * 16 + j > size)
                            /\ (i * 16 + j - 1 < size <=> i * 16 + j <= size)
    BY <1>2, <1>3
  <1>11. ASSUME NEW j \in 1 .. 16 PROVE Prints(Hex(i * 16 + j - 1), HexIn(i * 16 + j))
    <2>1. PICK p, k : p = i * 16 + j - 1 /\ k = i * 16 + j
      OBVIOUS
    <2>2. k \in Nat \ {0} /\ p + 1 = k /\ (p >= size <=> k > size)
      BY <1>10, <2>1
    <2>3. CASE k > size
      BY <1>7, <2>1, <2>2, <2>3, Zenon
    <2>4. CASE ~(k > size)
      <3>1. k \in 1 .. size
        BY <1>2, <2>2, <2>4
      <3>2. data[k] \in 0 .. 255
        BY <1>2, <3>1
      <3>3. Prints(Value(data[k]), Digit(data[k]))
        BY <1>8, <3>2
      <3> QED BY <2>1, <2>2, <2>4, <3>3, Zenon
    <2> QED BY <2>3, <2>4
  <1>12. Prints(FlattenSeq(Hexes), FlattenSeq(HexesIn))
    <2>1. \A j \in 1 .. 16 : Hexes[j] = Hex(i * 16 + j - 1) /\ HexesIn[j] = HexIn(i * 16 + j)
      BY Zenon
    <2>2. \A j \in 1 .. 16 : Hex(i * 16 + j - 1) \in Seq(Request) /\ HexIn(i * 16 + j) \in Seq(Nat)
      BY <1>11, Zenon DEF Prints
    <2>3. Hexes \in Seq(Seq(Request)) /\ Len(Hexes) = 16
      <3> HIDE DEF Hex
      <3> QED BY <2>2
    <2>4. HexesIn \in Seq(Seq(Nat)) /\ Len(HexesIn) = 16
      <3> HIDE DEF HexIn
      <3> QED BY <2>2
    <2> HIDE DEF Hexes, HexesIn, Hex, HexIn
    <2>5. Len(Hexes) = Len(HexesIn) /\ \A j \in 1 .. Len(Hexes) : Prints(Hexes[j], HexesIn[j])
      BY <1>11, <2>1, <2>3, <2>4, Zenon
    <2> QED BY <2>3, <2>4, <2>5, PrintsFlatten
  <1>13. ASSUME NEW j \in 1 .. 16
         PROVE  Char(i * 16 + j - 1) = CharIn(i * 16 + j) /\ CharIn(i * 16 + j) \in Nat
    <2>1. PICK p, k : p = i * 16 + j - 1 /\ k = i * 16 + j
      OBVIOUS
    <2>2. k \in Nat \ {0} /\ p + 1 = k /\ (p < size <=> k <= size)
      BY <1>10, <2>1
    <2>3. PICK d : d = data[k]
      OBVIOUS
    <2>4. Char(p) = IF k <= size /\ 32 <= d /\ d < 127 THEN d ELSE Ch.DOT
      BY <2>2, <2>3, Zenon
    <2>5. CharIn(k) = IF k <= size /\ d \in 32 .. 126 THEN d ELSE Ch.DOT
      BY <2>3, Zenon
    <2>6. Ch.DOT \in Nat
      BY DEF Ch
    <2>7. k <= size => d \in 0 .. 255
      <3>1. k <= size => k \in 1 .. size
        BY <1>2, <2>2
      <3> QED BY <1>2, <2>3, <3>1
    <2> HIDE DEF Char, CharIn
    <2>8. Char(p) = CharIn(k) /\ CharIn(k) \in Nat
      <3>1. CASE k <= size
        <4>1. d \in 0 .. 255
          BY <2>7, <3>1
        <4>2. d \in Nat /\ (d \in 32 .. 126 <=> 32 <= d /\ d < 127)
          BY ONLY <4>1
        <4> QED BY <2>4, <2>5, <2>6, <3>1, <4>2, Zenon
      <3>2. CASE ~(k <= size)
        BY <2>4, <2>5, <2>6, <3>2, Zenon
      <3> QED BY <3>1, <3>2
    <2> QED BY <2>1, <2>8
  <1>14. Prints(kputc_npf(Chars), CharsIn)
    <2> HIDE DEF Char, CharIn
    <2>1. Chars = CharsIn
      BY <1>13, Zenon
    <2>2. CharsIn \in Seq(Nat)
      BY <1>13
    <2> HIDE DEF Chars, CharsIn
    <2> QED BY <2>1, <2>2, BytesText DEF Prints
  <1> HIDE DEF Zeros, Hexes, Chars, ZerosIn, HexesIn, CharsIn
  <1>15. Prints(FlattenSeq(Zeros) \o Offset, ZerosIn \o OffsetIn)
    BY <1>6, <1>9, PrintsConcat
  <1>16. Prints(FlattenSeq(Zeros) \o Offset \o FlattenSeq(Hexes), ZerosIn \o OffsetIn \o FlattenSeq(HexesIn))
    BY <1>12, <1>15, PrintsConcat
  <1>17. Prints(FlattenSeq(Zeros) \o Offset \o FlattenSeq(Hexes) \o Bar,
                ZerosIn \o OffsetIn \o FlattenSeq(HexesIn) \o BarIn)
    BY <1>7, <1>16, PrintsConcat
  <1>18. Prints(FlattenSeq(Zeros) \o Offset \o FlattenSeq(Hexes) \o Bar \o kputc_npf(Chars),
                ZerosIn \o OffsetIn \o FlattenSeq(HexesIn) \o BarIn \o CharsIn)
    BY <1>14, <1>17, PrintsConcat
  <1>19. Prints(FlattenSeq(Zeros) \o Offset \o FlattenSeq(Hexes) \o Bar \o kputc_npf(Chars) \o End,
                ZerosIn \o OffsetIn \o FlattenSeq(HexesIn) \o BarIn \o CharsIn \o EndIn)
    BY <1>7, <1>18, PrintsConcat
  <1> QED BY <1>4, <1>5, <1>19, Zenon

----------------------------------------------------------------------------
(* The requests of a call *)

\* The calls of all worlds.
CallsOf(w) == {w.calls[k] : k \in 1 .. Len(w.calls)}
Made == UNION {CallsOf(w) : w \in Worlds}

\* The calls of a world are some of them.
LEMMA CallsMade ==
    ASSUME CallsFormed, NEW w \in Worlds
    PROVE  /\ w.calls \in Seq(Made) /\ DOMAIN w.calls = 1 .. Len(w.calls)
           /\ \A k \in 1 .. Len(w.calls) : CallFormed(w.calls[k])
  <1>1. PICK s, n : s = w.calls /\ n = Len(w.calls)
    OBVIOUS
  <1>2. n \in Nat /\ s = [k \in 1 .. n |-> s[k]] /\ \A k \in 1 .. n : CallFormed(s[k])
    BY <1>1, Zenon DEF CallsFormed
  <1>3. \A k \in 1 .. n : s[k] \in Made
    <2>1. \A k \in 1 .. n : s[k] \in CallsOf(w)
      BY <1>1 DEF CallsOf
    <2>2. CallsOf(w) \subseteq Made
      BY Zenon DEF Made
    <2> QED BY <2>1, <2>2, Zenon
  <1>4. [k \in 1 .. n |-> s[k]] \in Seq(Made)
    BY <1>2, <1>3
  <1>5. DOMAIN s = 1 .. n
    BY <1>2
  <1> QED BY <1>1, <1>2, <1>4, <1>5, Zenon

\* What is supposed of the calls, for one of them.
LEMMA MadeIs ==
    ASSUME CallsFormed
    PROVE  /\ \A w \in Worlds : w.calls \in Seq(Made)
           /\ \A c \in Made \union {report} : CallFormed(c)
  <1>1. \A w \in Worlds : w.calls \in Seq(Made) /\ \A k \in 1 .. Len(w.calls) : CallFormed(w.calls[k])
    BY CallsMade
  <1>2. CallFormed(report)
    BY Zenon DEF CallsFormed
  <1>3. \A c \in Made : CallFormed(c)
    BY <1>1, Zenon DEF Made, CallsOf
  <1> QED BY <1>1, <1>2, <1>3, Zenon

\* kprintf, kputx, kputs and kputc print what C says.
LEMMA SimplePrints ==
    ASSUME PowerLaw, NEW c, CallFormed(c)
    PROVE  /\ c.op = "kputc" => Prints(kputc_npf(<<c.c>>), Expected(c))
           /\ c.op = "kputs" => Prints(kputs(c.s), Expected(c))
           /\ c.op = "kputx" => Prints(kputx(c.data), Expected(c))
           /\ c.op = "kprintf" => Prints(kprintf(c.items, c.args), Expected(c))
  <1>1. ASSUME c.op = "kputc" PROVE Prints(kputc_npf(<<c.c>>), Expected(c))
    <2>1. c.c \in Nat
      BY <1>1 DEF CallFormed
    <2>2. <<c.c>> \in Seq(Nat)
      BY <2>1
    <2>3. Expected(c) = <<c.c>>
      BY <1>1 DEF Expected
    <2> QED BY <2>2, <2>3, BytesText DEF Prints
  <1>2. ASSUME c.op = "kputs" PROVE Prints(kputs(c.s), Expected(c))
    <2>1. /\ c.s \in Seq(Nat) /\ c.s # <<>> /\ c.s[Len(c.s)] = 0
          /\ \A k \in 1 .. Len(c.s) - 1 : c.s[k] # 0
      BY <1>2 DEF CallFormed
    <2>2. Expected(c) = Front(c.s)
      BY <1>2 DEF Expected
    <2> QED BY <2>1, <2>2, CStringText DEF Prints
  <1>3. ASSUME c.op = "kputx" PROVE Prints(kputx(c.data), Expected(c))
    <2>1. PICK d : d = c.data
      OBVIOUS
    <2>2. d \in Seq(Nat) /\ \A k \in DOMAIN d : d[k] # 127
      BY <1>3, <2>1 DEF CallFormed
    <2> DEFINE seen == [k \in DOMAIN d |-> IF 32 <= d[k] /\ d[k] <= 127 THEN d[k] ELSE Ch.DOT]
               says == [k \in DOMAIN d |-> IF d[k] \in 32 .. 126 THEN d[k] ELSE Ch.DOT]
    <2>3. \A k \in DOMAIN d : d[k] \in Nat /\ d[k] # 127
      BY <2>2
    <2>4. \A k \in DOMAIN d : seen[k] = says[k]
      BY <2>3
    <2>5. seen = says
      BY <2>4
    <2>6. Ch.DOT \in Nat
      BY DEF Ch
    <2>7. says \in Seq(Nat)
      <3>1. DOMAIN d = 1 .. Len(d) /\ Len(d) \in Nat
        BY <2>2
      <3>2. \A k \in DOMAIN d : (IF d[k] \in 32 .. 126 THEN d[k] ELSE Ch.DOT) \in Nat
        BY <2>3, <2>6
      <3> QED BY <3>1, <3>2
    <2>8. Expected(c) = says
      BY <1>3, <2>1 DEF Expected
    <2>9. kputx(c.data) = kputc_npf(seen)
      BY <2>1 DEF kputx
    <2> HIDE DEF seen, says
    <2> QED BY <2>5, <2>7, <2>8, <2>9, BytesText DEF Prints
  <1>4. ASSUME c.op = "kprintf" PROVE Prints(kprintf(c.items, c.args), Expected(c))
    <2>1. Formed(c.items, c.args)
      BY <1>4 DEF CallFormed
    <2>2. Printed(c.items, c.args) \in Seq(Nat) /\ Printed(c.items, c.args) = CText(c.items, c.args)
      BY <2>1, NanoprintfAsC DEF Printed
    <2>3. Expected(c) = CText(c.items, c.args)
      BY <1>4 DEF Expected
    <2>4. kprintf(c.items, c.args) = kputc_npf(Printed(c.items, c.args))
      BY DEF kprintf, Printed
    <2> QED BY <2>2, <2>3, <2>4, BytesText DEF Prints
  <1> QED BY <1>1, <1>2, <1>3, <1>4

\* So do _log and _panic, character by character.
LEMMA MessagePrints ==
    ASSUME PowerLaw, CallsFormed, NEW c, CallFormed(c)
    PROVE  /\ c.op = "log" => Prints(_log(c.items, c.args), Expected(c))
           /\ c.op = "panic" => /\ Prints(_panic(c.items, c.args), Expected(c))
                                /\ _panic(c.items, c.args) \in Seq(Byte)
  <1> DEFINE Message(first) == kprintf(first, where_args) \o kprintf(c.items, c.args) \o kputc_npf(<<Ch.LF>>)
             Whole(first) == CText(first \o c.items, where_args \o c.args) \o <<Ch.LF>>
             Right(first) == Printed(first, where_args) \o Printed(c.items, c.args)
                               = CText(first \o c.items, where_args \o c.args)
  <1>1. ASSUME NEW first, Printed(first, where_args) \in Seq(Nat), Right(first),
               Printed(c.items, c.args) \in Seq(Nat)
        PROVE  Prints(Message(first), Whole(first)) /\ Message(first) \in Seq(Byte)
    <2>1. PICK a, b, z : a = Printed(first, where_args) /\ b = Printed(c.items, c.args) /\ z = <<Ch.LF>>
      OBVIOUS
    <2>2. a \in Seq(Nat) /\ b \in Seq(Nat)
      BY <1>1, <2>1
    <2>3. z \in Seq(Nat)
      <3>1. Ch.LF \in Nat
        BY DEF Ch
      <3> QED BY <2>1, <3>1
    <2>4. PICK ab : ab = a \o b
      OBVIOUS
    <2>5. ab \in Seq(Nat)
      BY <2>2, <2>4, ConcatProperties
    <2>6. PICK abz : abz = ab \o z
      OBVIOUS
    <2>7. abz \in Seq(Nat)
      BY <2>3, <2>5, <2>6, ConcatProperties
    <2>8. Message(first) = kputc_npf(a) \o kputc_npf(b) \o kputc_npf(z)
      BY <2>1, Zenon DEF kprintf, Printed
    <2>9. kputc_npf(a) \o kputc_npf(b) = kputc_npf(ab)
      BY <2>2, <2>4, BytesConcat
    <2>10. kputc_npf(ab) \o kputc_npf(z) = kputc_npf(abz)
      BY <2>3, <2>5, <2>6, BytesConcat
    <2>11. Message(first) = kputc_npf(abz)
      BY <2>8, <2>9, <2>10, Zenon
    <2>12. Whole(first) = abz
      BY <1>1, <2>1, <2>4, <2>6, Zenon
    <2> HIDE DEF Message, Whole
    <2> QED BY <2>7, <2>11, <2>12, BytesText DEF Prints
  <1>2. ASSUME c.op \in {"log", "panic"}, NEW first \in {log_where, panic_where}
        PROVE  Printed(first, where_args) \in Seq(Nat) /\ Printed(c.items, c.args) \in Seq(Nat) /\ Right(first)
    <2>1. Formed(c.items, c.args)
      BY <1>2 DEF CallFormed
    <2>2. Formed(log_where, where_args)
      BY Zenon DEF CallsFormed
    <2>3. Formed(first, where_args) /\ ArgOf(first, Len(first)) = Len(where_args)
      BY <1>2, <2>2, WhereIs
    <2>4. Printed(c.items, c.args) = CText(c.items, c.args) /\ Printed(c.items, c.args) \in Seq(Nat)
      BY <2>1, NanoprintfAsC DEF Printed
    <2>5. Printed(first, where_args) = CText(first, where_args) /\ Printed(first, where_args) \in Seq(Nat)
      BY <2>3, NanoprintfAsC DEF Printed
    <2>6. CText(first \o c.items, where_args \o c.args) = CText(first, where_args) \o CText(c.items, c.args)
      BY <2>1, <2>3, CTextConcat
    <2> QED BY <2>4, <2>5, <2>6, Zenon
  <1>3. ASSUME c.op = "log" PROVE Prints(_log(c.items, c.args), Expected(c))
    <2>1. Expected(c) = Whole(log_where)
      BY <1>3 DEF Expected
    <2>2. _log(c.items, c.args) = Message(log_where)
      BY Zenon DEF _log
    <2>3. Prints(Message(log_where), Whole(log_where))
      <3> HIDE DEF Message, Whole, Right
      <3> QED BY <1>1, <1>2, <1>3
    <2> HIDE DEF Message, Whole, Right
    <2> QED BY <2>1, <2>2, <2>3
  <1>4. ASSUME c.op = "panic"
        PROVE  Prints(_panic(c.items, c.args), Expected(c)) /\ _panic(c.items, c.args) \in Seq(Byte)
    <2>1. Expected(c) = Whole(panic_where)
      BY <1>4 DEF Expected
    <2>2. _panic(c.items, c.args) = Message(panic_where)
      BY Zenon DEF _panic
    <2>3. Prints(Message(panic_where), Whole(panic_where)) /\ Message(panic_where) \in Seq(Byte)
      <3> HIDE DEF Message, Whole, Right
      <3> QED BY <1>1, <1>2, <1>4
    <2> HIDE DEF Message, Whole, Right
    <2> QED BY <2>1, <2>2, <2>3
  <1> QED BY <1>3, <1>4

----------------------------------------------------------------------------
(* The inductive invariant *)

\* A panic makes requests for bytes only, and what is shown with what is still to
\* be written ends in the whole of it.
PanicGoesOn ==
    call.op = "panic" =>
        /\ todo \in Seq(Byte) /\ Expected(call) \in Seq(Nat)
        /\ \E u \in Seq(Nat) : screen \o TextOf(todo) = u \o Expected(call)

\* The kernel halts at the end of a panic.
HaltsInPanic == at = "halt" => call.op = "panic" /\ todo = <<>>

ConsoleInv ==
    /\ calls \in Seq(Made) /\ row \in Nat
    /\ todo \in Seq(Request) /\ screen \in Seq(Nat) /\ lost \in BOOLEAN
    /\ ScreenAsCalled
    /\ PanicGoesOn
    /\ HaltsInPanic

\* It holds at the start.
LEMMA InvInit ==
    ASSUME PowerLaw, CallsFormed, ConsoleInit
    PROVE  ConsoleInv
  <1>1. calls \in Seq(Made) /\ row = 0 /\ todo = <<>> /\ screen = <<>> /\ said = <<>>
        /\ lost = FALSE /\ at = "run" /\ call.op = "none"
    BY MadeIs DEF ConsoleInit
  <1>2. todo \in Seq(Request) /\ screen \in Seq(Nat)
    BY <1>1, EmptySeq
  <1>3. ScreenAsCalled
    <2>1. screen \o TextOf(todo) = <<>> \o <<>>
      BY <1>1, TextNone
    <2>2. <<>> \o <<>> = <<>>
      BY <1>1, <1>2, ConcatEmptySeq
    <2> QED BY <1>1, <2>1, <2>2 DEF ScreenAsCalled
  <1> QED BY <1>1, <1>2, <1>3 DEF ConsoleInv, PanicGoesOn, HaltsInPanic

\* A call that is begun makes the requests that print its text.
LEMMA BeginStep ==
    ASSUME ConsoleInv, Returned, NEW c, NEW reqs, NEW text, Prints(reqs, text), Begin(c, reqs, text),
           c.op = "panic" => reqs \in Seq(Byte) /\ text = Expected(c),
           calls' \in Seq(Made), row' \in Nat
    PROVE  ConsoleInv'
  <1>1. /\ call' = c /\ todo' = reqs /\ said' = said \o text
        /\ at' = "run" /\ screen' = screen /\ lost' = lost /\ todo = <<>>
    BY DEF Begin, Returned
  <1>2. reqs \in Seq(Request) /\ text \in Seq(Nat) /\ TextOf(reqs) = text
    BY DEF Prints
  <1>3. screen \in Seq(Nat) /\ lost \in BOOLEAN
    BY DEF ConsoleInv
  <1>4. ~lost => screen = said
    <2>1. screen \o TextOf(todo) = screen
      BY <1>1, <1>3, TextNone, ConcatEmptySeq
    <2> QED BY <2>1, Zenon DEF ConsoleInv, ScreenAsCalled
  <1>5. TextOf(todo') = text
    BY <1>1, <1>2
  <1>6. ScreenAsCalled'
    <2>1. ~lost' => screen' \o TextOf(todo') = said'
      BY <1>1, <1>4, <1>5, Zenon
    <2> QED BY <2>1 DEF ScreenAsCalled, TextOf
  <1>7. PanicGoesOn'
    <2>1. ASSUME call'.op = "panic"
          PROVE  /\ todo' \in Seq(Byte) /\ Expected(call') \in Seq(Nat)
                 /\ \E u \in Seq(Nat) : screen' \o TextOf(todo') = u \o Expected(call')
      <3>1. reqs \in Seq(Byte) /\ text = Expected(call')
        BY <1>1, <2>1
      <3>2. screen' \o TextOf(todo') = screen \o Expected(call')
        BY <1>1, <1>5, <3>1, Zenon
      <3> QED BY <1>1, <1>2, <1>3, <3>1, <3>2, Zenon
    <2> QED BY <2>1 DEF PanicGoesOn, Expected, TextOf
  <1>8. HaltsInPanic'
    BY <1>1 DEF HaltsInPanic
  <1> QED BY <1>1, <1>2, <1>3, <1>6, <1>7, <1>8 DEF ConsoleInv

\* Every function but khexdump: the requests print what is expected of the call.
LEMMA CallStep ==
    ASSUME PowerLaw, CallsFormed, ConsoleInv,
           \/ call_kputc \/ call_kputs \/ call_kputx \/ call_kprintf \/ call_log \/ call_panic
    PROVE  ConsoleInv'
  <1>1. PICK c : c = Head(calls)
    OBVIOUS
  <1>2. Returned /\ calls # <<>> /\ calls' = Tail(calls) /\ row' = row
    BY DEF call_kputc, call_kputs, call_kputx, call_kprintf, call_log, call_panic, Call
  <1>3. calls \in Seq(Made) /\ row \in Nat
    BY DEF ConsoleInv
  <1>4. c \in Made /\ calls' \in Seq(Made) /\ row' \in Nat
    BY <1>1, <1>2, <1>3, HeadTailProperties
  <1>5. CallFormed(c)
    BY <1>4, MadeIs
  <1>6. ASSUME NEW reqs, Begin(c, reqs, Expected(c)), Prints(reqs, Expected(c)),
               c.op = "panic" => reqs \in Seq(Byte)
        PROVE  ConsoleInv'
    BY <1>2, <1>4, <1>6, BeginStep
  <1>7. CASE call_kputc
    <2>1. c.op = "kputc" /\ Begin(c, kputc_npf(<<c.c>>), Expected(c))
      BY <1>1, <1>7, Zenon DEF call_kputc, Call
    <2> QED BY <1>5, <1>6, <2>1, SimplePrints
  <1>8. CASE call_kputs
    <2>1. c.op = "kputs" /\ Begin(c, kputs(c.s), Expected(c))
      BY <1>1, <1>8, Zenon DEF call_kputs, Call
    <2> QED BY <1>5, <1>6, <2>1, SimplePrints
  <1>9. CASE call_kputx
    <2>1. c.op = "kputx" /\ Begin(c, kputx(c.data), Expected(c))
      BY <1>1, <1>9, Zenon DEF call_kputx, Call
    <2> QED BY <1>5, <1>6, <2>1, SimplePrints
  <1>10. CASE call_kprintf
    <2>1. c.op = "kprintf" /\ Begin(c, kprintf(c.items, c.args), Expected(c))
      BY <1>1, <1>10, Zenon DEF call_kprintf, Call
    <2> QED BY <1>5, <1>6, <2>1, SimplePrints
  <1>11. CASE call_log
    <2>1. c.op = "log" /\ Begin(c, _log(c.items, c.args), Expected(c))
      BY <1>1, <1>11, Zenon DEF call_log, Call
    <2> QED BY <1>5, <1>6, <2>1, MessagePrints
  <1>12. CASE call_panic
    <2>1. c.op = "panic" /\ Begin(c, _panic(c.items, c.args), Expected(c))
      BY <1>1, <1>12, Zenon DEF call_panic, Call
    <2> QED BY <1>5, <1>6, <2>1, MessagePrints
  <1> QED BY <1>7, <1>8, <1>9, <1>10, <1>11, <1>12

\* A step of khexdump begins a line or ends the call.
LEMMA HexdumpStep ==
    ASSUME PowerLaw, CallsFormed, ConsoleInv, call_khexdump
    PROVE  ConsoleInv'
  <1>1. PICK c, line : c = Head(calls) /\ line = khexdump_line(c.data, row)
    OBVIOUS
  <1>2. Returned /\ calls # <<>> /\ c.op = "khexdump"
    BY <1>1 DEF call_khexdump
  <1>3. calls \in Seq(Made) /\ row \in Nat
    BY DEF ConsoleInv
  <1>4. c \in Made /\ Tail(calls) \in Seq(Made)
    BY <1>1, <1>2, <1>3, HeadTailProperties
  <1>5. CallFormed(c)
    BY <1>4, MadeIs
  <1>6. Len(c.data) \in Nat
    BY <1>2, <1>5, DataFits
  <1>7. CASE row < (Len(c.data) + 15) \div 16
    <2>1. Begin(c, line, HexText(c.data, row)) /\ row' = row + 1 /\ calls' = calls
      BY <1>1, <1>7, Zenon DEF call_khexdump
    <2>2. row \in 0 .. (Len(c.data) + 15) \div 16 - 1
      <3>1. PICK q : q = (Len(c.data) + 15) \div 16
        OBVIOUS
      <3>2. q \in Int
        BY <1>6, <3>1
      <3>3. row < q
        BY <1>7, <3>1
      <3>4. row \in 0 .. q - 1
        BY <1>3, <3>2, <3>3
      <3> QED BY <3>1, <3>4
    <2>3. Prints(khexdump_line(c.data, row), HexText(c.data, row))
      BY <1>2, <1>5, <2>2, LineText
    <2>4. Prints(line, HexText(c.data, row))
      BY <1>1, <2>3, Zenon
    <2>5. row' \in Nat /\ calls' \in Seq(Made)
      BY <1>3, <2>1
    <2>6. c.op # "panic"
      BY <1>2
    <2> QED BY <1>2, <2>1, <2>4, <2>5, <2>6, BeginStep
  <1>8. CASE ~(row < (Len(c.data) + 15) \div 16)
    <2>1. /\ calls' = Tail(calls) /\ row' = 0
          /\ UNCHANGED <<call, todo, at, ret, sie, irqs, shorts, screen, said, lost>>
      BY <1>1, <1>8, Zenon DEF call_khexdump
    <2> QED BY <1>4, <2>1 DEF ConsoleInv, ScreenAsCalled, PanicGoesOn, HaltsInPanic, Expected, TextOf
  <1> QED BY <1>7, <1>8

\* A request that took n characters, successfully or not.
LEMMA ResultStep ==
    ASSUME ConsoleInv, at = "run", todo # <<>>, NEW error \in Errors,
           NEW n \in 0 .. Len(Head(todo).text),
           error = "SBI_ERR_FAILED" => n = 0,
           error = "SBI_SUCCESS" /\ n < Len(Head(todo).text) => lost' /\ ~Head(todo).byte,
           lost' \in BOOLEAN, lost => lost',
           sbi_result(error, n)
    PROVE  ConsoleInv'
  <1>1. PICK r, rest, x : r = Head(todo) /\ rest = Tail(todo) /\ x = SubSeq(r.text, 1, n)
    OBVIOUS
  <1>2. /\ todo \in Seq(Request) /\ screen \in Seq(Nat)
        /\ ~lost => screen \o TextOf(todo) = said
    BY DEF ConsoleInv, ScreenAsCalled
  <1>3. /\ TextOf(todo) \in Seq(Nat) /\ r \in Request /\ rest \in Seq(Request)
        /\ TextOf(todo) = r.text \o TextOf(rest)
    BY <1>1, <1>2, TextCons
  <1>4. TextOf(rest) \in Seq(Nat)
    BY <1>3, TextCons
  <1>5. r.text \in Seq(Nat)
    BY <1>3 DEF Request
  <1>6. x \in Seq(Nat)
    BY <1>1, <1>5, SubSeqProperties
  <1>7. calls' = calls /\ row' = row /\ call' = call /\ said' = said /\ screen' = screen \o x
    BY <1>1 DEF sbi_result
  <1>8. screen' \in Seq(Nat)
    BY <1>2, <1>6, <1>7, ConcatProperties
  <1>9. CASE error = "SBI_ERR_FAILED"
    <2>1. at' = "spin" /\ todo' = todo
      BY <1>9 DEF sbi_result, spins
    <2>2. x = <<>>
      BY <1>1, <1>9, SubSeqEmpty
    <2>3. screen' = screen
      BY <1>2, <1>7, <2>2, ConcatEmptySeq
    <2>4. screen' \o TextOf(todo') = screen \o TextOf(todo)
      BY <2>1, <2>3, Zenon
    <2>5. ScreenAsCalled'
      BY <1>2, <1>7, <2>1, <2>3 DEF ScreenAsCalled, TextOf
    <2>6. PanicGoesOn'
      BY <1>7, <2>1, <2>3 DEF ConsoleInv, PanicGoesOn, Expected, TextOf
    <2>7. HaltsInPanic'
      BY <2>1 DEF HaltsInPanic
    <2> QED BY <1>7, <1>8, <2>1, <2>5, <2>6, <2>7 DEF ConsoleInv
  <1>10. CASE error = "SBI_SUCCESS"
    <2>1. at' = "run" /\ todo' = rest
      BY <1>1, <1>10 DEF sbi_result, spins
    <2>2. CASE n = Len(r.text)
      <3>1. x = r.text
        BY <1>1, <1>5, <2>2, SubSeqFull
      <3>2. screen' \o TextOf(todo') = screen \o TextOf(todo)
        <4>1. (screen \o r.text) \o TextOf(rest) = screen \o (r.text \o TextOf(rest))
          <5>1. Cat(Cat(screen, r.text), TextOf(rest)) = Cat(screen, Cat(r.text, TextOf(rest)))
            BY <1>2, <1>4, <1>5, CatGroups
          <5> QED BY <5>1, Zenon DEF Cat
        <4> QED BY <1>3, <1>7, <2>1, <3>1, <4>1, Zenon
      <3>3. ScreenAsCalled'
        <4>1. ~lost' => screen' \o TextOf(todo') = said'
          BY <1>2, <1>7, <3>2, Zenon
        <4> QED BY <4>1 DEF ScreenAsCalled, TextOf
      <3>4. PanicGoesOn'
        <4>1. ASSUME call.op = "panic"
              PROVE  /\ todo' \in Seq(Byte) /\ Expected(call) \in Seq(Nat)
                     /\ \E u \in Seq(Nat) : screen' \o TextOf(todo') = u \o Expected(call)
          <5>1. todo \in Seq(Byte) /\ Expected(call) \in Seq(Nat)
            BY <4>1, Zenon DEF ConsoleInv, PanicGoesOn
          <5>2. PICK u \in Seq(Nat) : screen \o TextOf(todo) = u \o Expected(call)
            BY <4>1, Zenon DEF ConsoleInv, PanicGoesOn
          <5>3. rest \in Seq(Byte)
            BY <1>1, <5>1, HeadTailProperties
          <5> QED BY <2>1, <3>2, <5>1, <5>2, <5>3, Zenon
        <4> QED BY <1>7, <4>1 DEF PanicGoesOn, Expected, TextOf
      <3>5. HaltsInPanic'
        BY <2>1 DEF HaltsInPanic
      <3> QED BY <1>3, <1>7, <1>8, <2>1, <3>3, <3>4, <3>5 DEF ConsoleInv
    <2>3. CASE n # Len(r.text)
      <3>1. lost' /\ ~r.byte
        <4>1. n < Len(r.text)
          BY <1>1, <1>5, <2>3
        <4> QED BY <1>1, <1>10, <4>1
      <3>2. call.op # "panic"
        <4>1. ASSUME todo \in Seq(Byte) PROVE r \in Byte
          BY <1>1, <4>1, HeadTailProperties
        <4>2. todo \notin Seq(Byte)
          BY <3>1, <4>1 DEF Byte
        <4> QED BY <4>2, Zenon DEF ConsoleInv, PanicGoesOn
      <3>3. ScreenAsCalled' /\ PanicGoesOn' /\ HaltsInPanic'
        BY <1>7, <2>1, <3>1, <3>2 DEF ScreenAsCalled, PanicGoesOn, HaltsInPanic
      <3> QED BY <1>3, <1>7, <1>8, <2>1, <3>1, <3>3 DEF ConsoleInv
    <2> QED BY <2>2, <2>3
  <1> QED BY <1>9, <1>10 DEF Errors

\* The two SBI calls are such requests: a byte is taken or refused, a string may
\* be cut short.
LEMMA RequestStep ==
    ASSUME ConsoleInv, sbi_request
    PROVE  ConsoleInv'
  <1>1. at = "run" /\ todo # <<>>
    BY DEF sbi_request, sbi_debug_console_write_byte, sbi_debug_console_write
  <1>2. todo \in Seq(Request) /\ lost \in BOOLEAN
    BY DEF ConsoleInv
  <1>3. PICK r : r = Head(todo)
    OBVIOUS
  <1>4. r \in Request
    BY <1>1, <1>2, <1>3, HeadTailProperties
  <1>5. r.text \in Seq(Nat) /\ Len(r.text) \in Nat /\ (r.byte => Len(r.text) = 1)
    BY <1>4 DEF Request
  <1>6. ASSUME NEW error \in Errors, NEW n \in 0 .. Len(r.text),
               error = "SBI_ERR_FAILED" => n = 0,
               error = "SBI_SUCCESS" /\ n < Len(r.text) => lost' /\ ~r.byte,
               lost' \in BOOLEAN, lost => lost', sbi_result(error, n)
        PROVE  ConsoleInv'
    BY <1>1, <1>3, <1>6, ResultStep
  <1>7. "SBI_SUCCESS" \in Errors /\ "SBI_ERR_FAILED" \in Errors /\ "SBI_SUCCESS" # "SBI_ERR_FAILED"
    BY DEF Errors
  <1>8. CASE sbi_debug_console_write_byte
    <2>1. /\ r.byte /\ lost' = lost
          /\ \E error \in Errors : sbi_result(error, IF error = "SBI_SUCCESS" THEN 1 ELSE 0)
      BY <1>3, <1>8 DEF sbi_debug_console_write_byte
    <2>2. PICK error \in Errors : sbi_result(error, IF error = "SBI_SUCCESS" THEN 1 ELSE 0)
      BY <2>1
    <2>3. PICK n : n = IF error = "SBI_SUCCESS" THEN 1 ELSE 0
      OBVIOUS
    <2>4. /\ n \in 0 .. Len(r.text) /\ (error = "SBI_ERR_FAILED" => n = 0)
          /\ ~(error = "SBI_SUCCESS" /\ n < Len(r.text))
      <3>1. Len(r.text) = 1
        BY <1>5, <2>1
      <3>2. (error = "SBI_SUCCESS" /\ n = 1) \/ (error # "SBI_SUCCESS" /\ n = 0)
        BY <2>3
      <3> QED BY <1>7, <3>1, <3>2
    <2>5. sbi_result(error, n)
      BY <2>2, <2>3
    <2> QED BY <1>2, <1>6, <2>1, <2>4, <2>5
  <1>9. CASE sbi_debug_console_write
    <2>1. ~r.byte
      BY <1>3, <1>9 DEF sbi_debug_console_write
    <2>2. CASE sbi_result("SBI_SUCCESS", Len(r.text)) /\ lost' = lost
      <3>1. Len(r.text) \in 0 .. Len(r.text) /\ ~(Len(r.text) < Len(r.text))
        BY <1>5
      <3> QED BY <1>2, <1>6, <1>7, <2>2, <3>1
    <2>3. CASE (\E n \in 0 .. Len(r.text) - 1 : sbi_result("SBI_SUCCESS", n)) /\ lost' = TRUE
      <3>1. PICK n \in 0 .. Len(r.text) - 1 : sbi_result("SBI_SUCCESS", n)
        BY <2>3
      <3>2. n \in 0 .. Len(r.text)
        BY <1>5
      <3> QED BY <1>6, <1>7, <2>1, <2>3, <3>1, <3>2
    <2>4. CASE sbi_result("SBI_ERR_FAILED", 0) /\ lost' = lost
      <3>1. 0 \in 0 .. Len(r.text)
        BY <1>5
      <3> QED BY <1>2, <1>6, <1>7, <2>4, <3>1
    <2> QED BY <1>3, <1>9, <2>2, <2>3, <2>4, Zenon DEF sbi_debug_console_write
  <1> QED BY <1>8, <1>9 DEF sbi_request

\* The handler replaces what is left to be written by its report.
LEMMA HandlerStep ==
    ASSUME PowerLaw, CallsFormed, ConsoleInv, interrupt_handler
    PROVE  ConsoleInv'
  <1>1. PICK reqs : reqs = _panic(Report.items, Report.args)
    OBVIOUS
  <1>2. /\ at' = "run" /\ calls' = <<>> /\ row' = 0 /\ call' = report /\ todo' = reqs
        /\ said' = screen \o Expected(report) /\ screen' = screen /\ lost' = lost
    BY <1>1 DEF interrupt_handler
  <1>3. report.op = "panic" /\ report.items = Report.items /\ report.args = Report.args
    BY DEF report
  <1>4. CallFormed(report)
    BY MadeIs
  <1>5. /\ reqs \in Seq(Request) /\ reqs \in Seq(Byte)
        /\ Expected(report) \in Seq(Nat) /\ TextOf(reqs) = Expected(report)
    BY <1>1, <1>3, <1>4, MessagePrints DEF Prints
  <1>6. screen \in Seq(Nat) /\ lost \in BOOLEAN
    BY DEF ConsoleInv
  <1>7. screen' \o TextOf(todo') = screen \o Expected(report)
    BY <1>2, <1>5, Zenon
  <1>8. ScreenAsCalled'
    BY <1>2, <1>7 DEF ScreenAsCalled, TextOf
  <1>9. PanicGoesOn'
    <2>1. /\ todo' \in Seq(Byte) /\ Expected(call') \in Seq(Nat)
          /\ \E u \in Seq(Nat) : screen' \o TextOf(todo') = u \o Expected(call')
      BY <1>2, <1>5, <1>6, <1>7, Zenon
    <2> QED BY <2>1 DEF PanicGoesOn, Expected, TextOf
  <1>10. HaltsInPanic'
    BY <1>2 DEF HaltsInPanic
  <1>11. calls' \in Seq(Made) /\ row' \in Nat
    BY <1>2, EmptySeq
  <1> QED BY <1>2, <1>5, <1>6, <1>8, <1>9, <1>10, <1>11 DEF ConsoleInv

\* Every step keeps the invariant.
LEMMA InvStep ==
    ASSUME PowerLaw, CallsFormed, ConsoleInv, [ConsoleNext]_consoleVars
    PROVE  ConsoleInv'
  <1>1. CASE call_kputc \/ call_kputs \/ call_kputx \/ call_kprintf \/ call_log \/ call_panic
    BY <1>1, CallStep
  <1>2. CASE call_khexdump
    BY <1>2, HexdumpStep
  <1>3. CASE panic_halt
    <2>1. /\ call.op = "panic" /\ todo = <<>>
          /\ UNCHANGED <<calls, row, call, todo, screen, said, lost>>
      BY <1>3 DEF panic_halt
    <2>2. HaltsInPanic'
      BY <2>1 DEF HaltsInPanic
    <2>3. ScreenAsCalled' /\ PanicGoesOn'
      BY <2>1 DEF ConsoleInv, ScreenAsCalled, PanicGoesOn, Expected, TextOf
    <2> QED BY <2>1, <2>2, <2>3 DEF ConsoleInv
  <1>4. CASE sbi_request
    BY <1>4, RequestStep
  <1>5. CASE interrupt_handler
    BY <1>5, HandlerStep
  <1>6. CASE elsewhere \/ UNCHANGED consoleVars
    <2>1. UNCHANGED <<calls, row, call, todo, at, screen, said, lost>>
      BY <1>6 DEF elsewhere, consoleVars
    <2> QED BY <2>1 DEF ConsoleInv, ScreenAsCalled, PanicGoesOn, HaltsInPanic, Expected, TextOf
  <1> QED BY <1>1, <1>2, <1>3, <1>4, <1>5, <1>6 DEF ConsoleNext

----------------------------------------------------------------------------
(* What the screen shows *)

\* The invariant holds in every state.
LEMMA ConsoleInvariance == PowerLaw /\ CallsFormed => (ConsoleSpec => []ConsoleInv)
  <1> SUFFICES ASSUME PowerLaw, CallsFormed PROVE ConsoleSpec => []ConsoleInv
    OBVIOUS
  <1>1. ConsoleInit => ConsoleInv
    BY InvInit
  <1>2. ConsoleInv /\ [ConsoleNext]_consoleVars => ConsoleInv'
    BY InvStep
  <1> QED BY <1>1, <1>2, PTL DEF ConsoleSpec

\* Whatever is called, refused, cut short or interrupted: without a short write
\* the screen and what is still to be written are what the calls begun so far say,
\* in order (kputc, knputs and all that print through them).
THEOREM ScreenIsAsCalled == PowerLaw /\ CallsFormed => (ConsoleSpec => []ScreenAsCalled)
  <1>1. ConsoleInv => ScreenAsCalled
    BY DEF ConsoleInv
  <1> QED BY <1>1, ConsoleInvariance, PTL

\* A kernel that has halted shows the whole of the panic it halted with, short
\* writes or not (_panic, and interrupt_handler through it).
THEOREM PanicIsShown == PowerLaw /\ CallsFormed => (ConsoleSpec => []ReportComplete)
  <1>1. ASSUME ConsoleInv PROVE ReportComplete
    <2>1. ASSUME at = "halt" PROVE IsSuffix(Expected(call), screen)
      <3>1. call.op = "panic" /\ todo = <<>> /\ screen \in Seq(Nat)
        BY <1>1, <2>1 DEF ConsoleInv, HaltsInPanic
      <3>2. Expected(call) \in Seq(Nat)
        BY <1>1, <3>1, Zenon DEF ConsoleInv, PanicGoesOn
      <3>3. PICK u \in Seq(Nat) : screen \o TextOf(todo) = u \o Expected(call)
        BY <1>1, <3>1, Zenon DEF ConsoleInv, PanicGoesOn
      <3>4. screen \o TextOf(todo) = screen
        BY <3>1, TextNone, ConcatEmptySeq
      <3> QED BY <3>2, <3>3, <3>4, SuffixIs
    <2> QED BY <2>1 DEF ReportComplete
  <1> QED BY <1>1, ConsoleInvariance, PTL
=============================================================================
