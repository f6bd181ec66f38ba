--------------------------- MODULE FdtNameProofs ---------------------------
(***************************************************************************)
(* Proofs about node names and paths, for strings of every length and for  *)
(* every limit on the length of a name.  The loops of the code are         *)
(* positions (Until, Walk): each is shown to be the only position with its *)
(* property, and then found where the definition of a name says it is.     *)
(***************************************************************************)
EXTENDS FdtName, SequenceTheorems, WellFoundedInduction, TLAPS

----------------------------------------------------------------------------
(* Positions *)

\* A set of natural numbers has a least element.
LEMMA Least ==
    ASSUME NEW S, S \subseteq Nat, S # {}
    PROVE  \E m \in S : \A k \in S : m <= k
  <1>1. PICK m \in S : \A y \in S : ~(<<y, m>> \in OpToRel(<, Nat))
    BY NatLessThanWellFounded, WFMin
  <1>2. \A y \in S : ~(y < m)
    BY <1>1 DEF OpToRel
  <1> QED BY <1>2

\* The classes of characters do not overlap with the separators.
LEMMA Classes ==
    /\ "NUL" \notin Char /\ Alpha \subseteq NameChar
    /\ \A c \in NameChar : c \notin {"/", "@", "NUL"}
    /\ \A c \in Hex : c \notin {"/", "@", "NUL"}
  BY NameAssumption DEF Char, Alpha, NameChar, Hex

\* A string reads as NUL at its end and nowhere before.
LEMMA AtIs ==
    ASSUME NEW s \in Seq(Char), NEW i \in 1 .. Len(s) + 1
    PROVE  /\ i <= Len(s) => At(s, i) = s[i] /\ s[i] \in Char /\ At(s, i) # "NUL"
           /\ i = Len(s) + 1 => At(s, i) = "NUL"
           /\ At(s, i) = "NUL" <=> i = Len(s) + 1
  BY Classes DEF At

\* What Until returns: the first position that stops it.
LEMMA UntilIs ==
    ASSUME NEW s \in Seq(Char), NEW i \in 1 .. Len(s) + 1, NEW C
    PROVE  /\ Until(s, i, C) \in i .. Len(s) + 1
           /\ At(s, Until(s, i, C)) \in C \union {"NUL"}
           /\ \A k \in i .. Until(s, i, C) - 1 : At(s, k) \notin C
  <1> DEFINE S == {j \in i .. Len(s) + 1 : At(s, j) \in C \union {"NUL"}}
  <1>1. Len(s) \in Nat /\ At(s, Len(s) + 1) = "NUL"
    BY AtIs
  <1>2. S \subseteq Nat /\ Len(s) + 1 \in S
    BY <1>1
  <1>3. PICK m \in S : \A k \in S : m <= k
    BY <1>2, Least
  <1>4. \A k \in i .. m - 1 : At(s, k) \notin C
    BY <1>1, <1>3
  <1>5. \E j \in i .. Len(s) + 1 : At(s, j) \in C \union {"NUL"} /\ \A k \in i .. j - 1 : At(s, k) \notin C
    BY <1>3, <1>4
  <1> QED BY <1>5 DEF Until

\* It is the only one.
LEMMA UntilOnly ==
    ASSUME NEW s \in Seq(Char), NEW i \in 1 .. Len(s) + 1, NEW C,
           NEW j \in i .. Len(s) + 1, At(s, j) \in C \union {"NUL"},
           \A k \in i .. j - 1 : At(s, k) \notin C
    PROVE  Until(s, i, C) = j
  <1>1. PICK u : u = Until(s, i, C)
    OBVIOUS
  <1>2. u \in i .. Len(s) + 1 /\ At(s, u) \in C \union {"NUL"} /\ \A k \in i .. u - 1 : At(s, k) \notin C
    BY <1>1, UntilIs
  <1>3. Len(s) \in Nat /\ \A k \in 1 .. Len(s) : At(s, k) # "NUL"
    BY AtIs
  <1>4. ~(u < j)
    BY <1>2, <1>3
  <1>5. ~(j < u)
    BY <1>2, <1>3
  <1> QED BY <1>1, <1>2, <1>4, <1>5

----------------------------------------------------------------------------
(* fdt_name_iter *)

\* Where the part of a string that starts at i ends.
LEMMA PartEnds ==
    ASSUME NEW s \in Seq(Char), NEW i \in 1 .. Len(s) + 1, NEW e, e = Until(s, i, {"/"})
    PROVE  /\ e \in i .. Len(s) + 1 /\ At(s, e) \in {"/", "NUL"} /\ Len(s) \in Nat
           /\ \A k \in i .. e - 1 : At(s, k) = s[k] /\ s[k] # "/" /\ s[k] \in Char
           /\ At(s, e) = "/" <=> e <= Len(s)
  <1>1. /\ e \in i .. Len(s) + 1 /\ At(s, e) \in {"/", "NUL"}
        /\ \A k \in i .. e - 1 : At(s, k) \notin {"/"}
    BY UntilIs
  <1>2. Len(s) \in Nat /\ \A k \in i .. e - 1 : k \in 1 .. Len(s) + 1 /\ k <= Len(s)
    BY <1>1
  <1>3. \A k \in i .. e - 1 : At(s, k) = s[k] /\ s[k] # "/" /\ s[k] \in Char
    BY <1>1, <1>2, AtIs
  <1>4. At(s, e) = "/" <=> e <= Len(s)
    BY <1>1, <1>2, AtIs
  <1> QED BY <1>1, <1>2, <1>3, <1>4

\* The characters of that part.
LEMMA PartReads ==
    ASSUME NEW s \in Seq(Char), NEW i \in 1 .. Len(s) + 1, NEW e, e = Until(s, i, {"/"}),
           NEW t, t = Part(s, i)
    PROVE  /\ t \in Seq(Char) /\ Len(t) = e - i
           /\ \A k \in 1 .. e - i : t[k] = s[i + k - 1]
  <1>1. e \in i .. Len(s) + 1 /\ Len(s) \in Nat
    BY PartEnds
  <1>2. /\ SubSeq(s, i, e - 1) \in Seq(Char) /\ Len(SubSeq(s, i, e - 1)) = e - i
        /\ \A k \in 1 .. e - i : SubSeq(s, i, e - 1)[k] = s[i + k - 1]
    BY <1>1, SubSeqProperties
  <1>3. t = SubSeq(s, i, e - 1)
    BY DEF Part
  <1> QED BY <1>2, <1>3

\* Where the first part of a string ends, which is its beginning.
LEMMA FirstEnds ==
    ASSUME NEW s \in Seq(Char), NEW e, e = Until(s, 1, {"/"})
    PROVE  /\ e \in 1 .. Len(s) + 1 /\ At(s, e) \in {"/", "NUL"} /\ Len(s) \in Nat
           /\ \A k \in 1 .. e - 1 : At(s, k) = s[k] /\ s[k] # "/" /\ s[k] \in Char
           /\ At(s, e) = "/" <=> e <= Len(s)
  <1>1. 1 \in 1 .. Len(s) + 1
    OBVIOUS
  <1> QED BY <1>1, PartEnds

\* The characters of the first part.
LEMMA FirstPart ==
    ASSUME NEW s \in Seq(Char), NEW e, e = Until(s, 1, {"/"}), NEW t, t = Part(s, 1)
    PROVE  t \in Seq(Char) /\ Len(t) = e - 1 /\ \A k \in 1 .. e - 1 : t[k] = s[k]
  <1>1. 1 \in 1 .. Len(s) + 1
    OBVIOUS
  <1>2. t \in Seq(Char) /\ Len(t) = e - 1 /\ \A k \in 1 .. e - 1 : t[k] = s[1 + k - 1]
    BY <1>1, PartReads
  <1>3. e \in Int
    BY FirstEnds
  <1>4. \A k \in 1 .. e - 1 : 1 + k - 1 = k
    BY <1>3
  <1> QED BY <1>2, <1>4

\* A string starts with a name of k characters, "@" and any number of digits, even
\* none: e is where the part ends.
NameOf(s, k, e) ==
    /\ k \in 1 .. e - 1
    /\ s[1] \in Alpha /\ \A i \in 2 .. k : s[i] \in NameChar
    /\ \/ k = e - 1
       \/ /\ s[k + 1] = "@"
          /\ \A i \in k + 2 .. e - 1 : s[i] \in Hex

\* What fdt_name_iter takes: a name of at most MAX_NAME_LENGTH characters.
TakenAs(s, e) == \E k \in 1 .. MAX_NAME_LENGTH : NameOf(s, k, e)

\* The base of a name.
LEMMA BaseIs ==
    ASSUME NEW s \in Seq(Char), NEW k, NameOf(s, k, Len(s) + 1)
    PROVE  Until(s, 1, {"@"}) = k + 1 /\ Len(BaseOf(s)) = k /\ BaseOf(s) \in Seq(Char)
           /\ \A i \in 1 .. k : BaseOf(s)[i] = s[i]
  <1>1. Len(s) \in Nat /\ k \in 1 .. Len(s)
    BY DEF NameOf
  <1>2. PICK j : j = k + 1
    OBVIOUS
  <1>3. /\ j \in 1 .. Len(s) + 1 /\ 1 \in 1 .. Len(s) + 1 /\ j - 1 = k
        /\ \A i \in 1 .. k : i \in 1 .. Len(s) + 1 /\ i <= Len(s)
    BY <1>1, <1>2
  <1>4. \A i \in 1 .. k : s[i] \in NameChar
    BY <1>1, Classes DEF NameOf
  <1>5. \A i \in 1 .. j - 1 : At(s, i) \notin {"@"}
    BY <1>3, <1>4, AtIs, Classes
  <1>6. At(s, j) \in {"@"} \union {"NUL"}
    <2>1. CASE k = Len(s)
      <3>1. j = Len(s) + 1
        BY <1>2, <2>1
      <3> QED BY <1>3, <3>1, AtIs
    <2>2. CASE k # Len(s)
      <3>1. j <= Len(s) /\ s[j] = "@"
        BY <1>1, <1>2, <2>2 DEF NameOf
      <3> QED BY <1>3, <3>1, AtIs
    <2> QED BY <2>1, <2>2
  <1>7. Until(s, 1, {"@"}) = j
    BY <1>3, <1>5, <1>6, UntilOnly
  <1>8. BaseOf(s) = SubSeq(s, 1, k)
    BY <1>3, <1>7, Zenon DEF BaseOf
  <1>9. /\ SubSeq(s, 1, k) \in Seq(Char) /\ Len(SubSeq(s, 1, k)) = k
        /\ \A i \in 1 .. k : SubSeq(s, 1, k)[i] = s[1 + i - 1]
    BY <1>1, SubSeqProperties
  <1>10. \A i \in 1 .. k : 1 + i - 1 = i
    BY <1>1
  <1> QED BY <1>2, <1>7, <1>8, <1>9, <1>10

\* Two sequences of the same length with the same elements are equal.
LEMMA SameSeq ==
    ASSUME NEW S, NEW a \in Seq(S), NEW b \in Seq(S)
    PROVE  a = b <=> Len(a) = Len(b) /\ \A i \in 1 .. Len(a) : a[i] = b[i]
  BY SeqEqual

\* The names that the comment allows, and the two kinds on which code and comment
\* disagree, by their bases.
LEMMA MatchesIs ==
    ASSUME NEW s \in Seq(Char), NEW d, d = Len(s) + 1
    PROVE  /\ Matches(s) => \E k \in 1 .. MAX_NAME_LENGTH + 1 : NameOf(s, k, d)
           /\ Matches(s) /\ ~LongestName(s) => TakenAs(s, d)
           /\ TakenAs(s, d) => Matches(s) \/ NoDigits(s)
  <1>1. Len(s) \in Nat /\ MAX_NAME_LENGTH \in Nat \ {0} /\ d - 1 = Len(s)
    BY NameAssumption
  <1>0. \A k : NameOf(s, k, d) <=>
            /\ k \in 1 .. Len(s)
            /\ s[1] \in Alpha /\ \A i \in 2 .. k : s[i] \in NameChar
            /\ \/ k = Len(s)
               \/ s[k + 1] = "@" /\ \A i \in k + 2 .. Len(s) : s[i] \in Hex
    BY <1>1, Zenon DEF NameOf
  <1>2. ASSUME Matches(s)
        PROVE  \E k \in 1 .. MAX_NAME_LENGTH + 1 : NameOf(s, k, d)
    <2>1. PICK k \in 1 .. Len(s) :
            /\ k <= MAX_NAME_LENGTH + 1
            /\ s[1] \in Alpha /\ \A i \in 2 .. k : s[i] \in NameChar
            /\ \/ k = Len(s)
               \/ s[k + 1] = "@" /\ \A i \in k + 2 .. Len(s) : s[i] \in Hex
      BY <1>2, Zenon DEF Matches
    <2>2. NameOf(s, k, d)
      BY <1>0, <2>1, Zenon
    <2>3. k \in 1 .. Len(s) /\ k <= MAX_NAME_LENGTH + 1
      BY <2>1, Zenon
    <2>4. k \in 1 .. MAX_NAME_LENGTH + 1
      BY ONLY <1>1, <2>3
    <2> QED BY <2>2, <2>4
  <1>3. ASSUME Matches(s), ~LongestName(s) PROVE TakenAs(s, d)
    <2>1. PICK k \in 1 .. MAX_NAME_LENGTH + 1 : NameOf(s, k, d)
      BY <1>2, <1>3
    <2>2. Len(BaseOf(s)) = k
      BY <2>1, BaseIs
    <2>3. k # MAX_NAME_LENGTH + 1
      BY <1>3, <2>2 DEF LongestName
    <2>4. k \in 1 .. MAX_NAME_LENGTH
      BY <1>1, <2>3
    <2> QED BY <2>1, <2>4 DEF TakenAs
  <1>4. ASSUME TakenAs(s, d), ~Matches(s) PROVE NoDigits(s)
    <2>1. PICK k \in 1 .. MAX_NAME_LENGTH : NameOf(s, k, d)
      BY <1>4 DEF TakenAs
    <2>2. /\ k \in 1 .. Len(s) /\ k <= MAX_NAME_LENGTH + 1
          /\ s[1] \in Alpha /\ \A i \in 2 .. k : s[i] \in NameChar
      <3>1. k <= MAX_NAME_LENGTH + 1
        BY <1>1
      <3> QED BY <1>0, <2>1, <3>1, Zenon
    <2>3. \/ k = Len(s)
          \/ s[k + 1] = "@" /\ \A i \in k + 2 .. Len(s) : s[i] \in Hex
      BY <1>0, <2>1, Zenon
    <2>9. k # Len(s) /\ ~(k + 2 <= Len(s))
      BY <1>4, <2>2, <2>3, Zenon DEF Matches
    <2>4. Len(s) = k + 1 /\ s[k + 1] = "@"
      <3>1. s[k + 1] = "@"
        BY <2>3, <2>9, Zenon
      <3>2. k \in 1 .. Len(s)
        BY <2>2, Zenon
      <3>3. Len(s) = k + 1
        BY ONLY <1>1, <2>9, <3>2
      <3> QED BY <3>1, <3>3
    <2>5. PICK b : b = BaseOf(s)
      OBVIOUS
    <2>6. b \in Seq(Char) /\ Len(b) = k /\ \A i \in 1 .. k : b[i] = s[i]
      BY <2>1, <2>5, BaseIs
    <2>7. Matches(b)
      <3>1. b[1] = s[1] /\ \A i \in 2 .. k : b[i] = s[i]
        BY <2>2, <2>6
      <3>2. k \in 1 .. Len(b) /\ k = Len(b) /\ b[1] \in Alpha /\ \A i \in 2 .. k : b[i] \in NameChar
        BY <2>2, <2>6, <3>1
      <3> QED BY <2>2, <3>2 DEF Matches
    <2>8. s = Append(b, "@")
      <3>1. "@" \in Char
        BY DEF Char
      <3>2. /\ Append(b, "@") \in Seq(Char) /\ Len(Append(b, "@")) = k + 1
            /\ \A i \in 1 .. k : Append(b, "@")[i] = b[i]
            /\ Append(b, "@")[k + 1] = "@"
        BY <2>2, <2>6, <3>1
      <3>3. PICK a : a = Append(b, "@")
        OBVIOUS
      <3>4. \A i \in 1 .. k + 1 : i \in 1 .. k \/ i = k + 1
        BY <2>2
      <3>5. \A i \in 1 .. k + 1 : s[i] = a[i]
        BY <2>4, <2>6, <3>2, <3>3, <3>4
      <3>6. a \in Seq(Char) /\ Len(a) = k + 1
        BY <3>2, <3>3
      <3> QED BY <2>4, <3>3, <3>5, <3>6, SameSeq
    <2> QED BY <2>5, <2>7, <2>8 DEF NoDigits
  <1> QED BY <1>2, <1>3, <1>4

\* A string starts with a name when the part in front of it is one.
LEMMA PartNamed ==
    ASSUME NEW s \in Seq(Char), NEW e, e = Until(s, 1, {"/"}), NEW t, t = Part(s, 1),
           NEW k
    PROVE  NameOf(s, k, e) <=> NameOf(t, k, Len(t) + 1)
  <1>1. Len(s) \in Nat /\ e \in 1 .. Len(s) + 1
    BY FirstEnds
  <1>2. Len(t) = e - 1 /\ Len(t) + 1 = e
    BY <1>1, FirstPart
  <1>3. \A i \in 1 .. e - 1 : t[i] = s[i]
    BY FirstPart
  <1>4. ASSUME k \in 1 .. e - 1
        PROVE  /\ t[1] = s[1] /\ \A i \in 2 .. k : t[i] = s[i]
               /\ k = e - 1 \/ t[k + 1] = s[k + 1]
               /\ \A i \in k + 2 .. e - 1 : t[i] = s[i]
    BY <1>1, <1>3, <1>4
  <1> QED BY <1>2, <1>4 DEF NameOf

\* What the comment says of the part in front of a string, in terms of the string.
LEMMA PartMatches ==
    ASSUME NEW s \in Seq(Char), NEW e, e = Until(s, 1, {"/"}), NEW t, t = Part(s, 1)
    PROVE  /\ Matches(t) => \E k : NameOf(s, k, e)
           /\ Matches(t) /\ ~LongestName(t) => TakenAs(s, e)
           /\ TakenAs(s, e) => Matches(t) \/ NoDigits(t)
  <1>1. t \in Seq(Char)
    BY FirstPart
  <1>2. \A k : NameOf(s, k, e) <=> NameOf(t, k, Len(t) + 1)
    BY PartNamed
  <1>3. TakenAs(s, e) <=> TakenAs(t, Len(t) + 1)
    BY <1>2 DEF TakenAs
  <1> QED BY <1>1, <1>2, <1>3, MatchesIs

\* Where the loop over the base stops in a name of k characters, and where the
\* loop over the unit address does.
LEMMA NameStops ==
    ASSUME NEW s \in Seq(Char), NEW e, e = Until(s, 1, {"/"}), NEW k, NameOf(s, k, e)
    PROVE  /\ Until(s, 2, {"/", "@"}) = k + 1
           /\ Until(s, k + 1, {"/"}) = e
  <1>1. /\ e \in 1 .. Len(s) + 1 /\ At(s, e) \in {"/", "NUL"} /\ Len(s) \in Nat
        /\ \A i \in 1 .. e - 1 : At(s, i) = s[i] /\ s[i] # "/"
    BY FirstEnds
  <1>2. k \in Nat /\ 1 <= k /\ k + 1 <= e
    BY <1>1 DEF NameOf
  <1>3. At(s, k + 1) \in {"/", "@"} \union {"NUL"}
    BY <1>1, <1>2 DEF NameOf
  <1>4. \A i \in 2 .. k : At(s, i) \notin {"/", "@"}
    <2>1. ASSUME NEW i \in 2 .. k PROVE At(s, i) \in NameChar
      BY <1>1, <1>2 DEF NameOf
    <2> QED BY <2>1, Classes
  <1>5. 2 \in 1 .. Len(s) + 1 /\ k + 1 \in 2 .. Len(s) + 1 /\ k + 1 \in 1 .. Len(s) + 1
    BY <1>1, <1>2
  <1>6. Until(s, 2, {"/", "@"}) = k + 1
    <2>1. PICK j : j = k + 1
      OBVIOUS
    <2>2. /\ j \in 2 .. Len(s) + 1 /\ At(s, j) \in {"/", "@"} \union {"NUL"}
          /\ \A i \in 2 .. j - 1 : At(s, i) \notin {"/", "@"}
      BY <1>2, <1>3, <1>4, <1>5, <2>1
    <2>3. Until(s, 2, {"/", "@"}) = j
      BY <1>5, <2>2, UntilOnly
    <2> QED BY <2>1, <2>3
  <1>7. Until(s, k + 1, {"/"}) = e
    <2>1. e \in k + 1 .. Len(s) + 1 /\ \A i \in k + 1 .. e - 1 : At(s, i) \notin {"/"}
      BY <1>1, <1>2
    <2>2. At(s, e) \in {"/"} \union {"NUL"}
      BY <1>1
    <2>3. PICK j : j = k + 1
      OBVIOUS
    <2> QED BY <1>5, <2>1, <2>2, <2>3, UntilOnly
  <1> QED BY <1>6, <1>7

\* The conditions under which fdt_name_iter accepts, for the positions it found.
Accepted(s, base, end) ==
    /\ At(s, 1) \in Alpha
    /\ \A k \in 2 .. base - 1 : s[k] \in NameChar
    /\ At(s, base) \in {"NUL", "/", "@"}
    /\ \A k \in base + 1 .. end - 1 : s[k] \in Hex

\* fdt_name_iter accepts a name.
LEMMA AcceptsName ==
    ASSUME NEW s \in Seq(Char), NEW e, e = Until(s, 1, {"/"}), NEW k, NameOf(s, k, e)
    PROVE  Accepted(s, k + 1, e)
  <1>1. /\ e \in 1 .. Len(s) + 1 /\ At(s, e) \in {"/", "NUL"} /\ Len(s) \in Nat
        /\ \A i \in 1 .. e - 1 : At(s, i) = s[i]
    BY FirstEnds
  <1>2. k \in Nat /\ 1 <= k /\ k + 1 <= e
    BY <1>1 DEF NameOf
  <1>3. At(s, 1) \in Alpha
    BY <1>1, <1>2 DEF NameOf
  <1>4. \A i \in 2 .. (k + 1) - 1 : s[i] \in NameChar
    BY <1>2 DEF NameOf
  <1>5. At(s, k + 1) \in {"NUL", "/", "@"}
    BY <1>1, <1>2 DEF NameOf
  <1>6. \A i \in (k + 1) + 1 .. e - 1 : s[i] \in Hex
    BY <1>1, <1>2 DEF NameOf
  <1> QED BY <1>3, <1>4, <1>5, <1>6 DEF Accepted

\* What it accepts is a name.
LEMMA AcceptedIsName ==
    ASSUME NEW s \in Seq(Char), NEW e, e = Until(s, 1, {"/"}),
           NEW base \in 2 .. Len(s) + 1,
           NEW end, end = Until(s, base, {"/"}), Accepted(s, base, end)
    PROVE  end = e /\ NameOf(s, base - 1, e)
  <1>1. /\ end \in base .. Len(s) + 1 /\ At(s, end) \in {"/", "NUL"} /\ Len(s) \in Nat
        /\ \A i \in base .. end - 1 : At(s, i) = s[i] /\ s[i] # "/" /\ s[i] \in Char
    <2>1. base \in 1 .. Len(s) + 1
      OBVIOUS
    <2> QED BY <2>1, PartEnds
  <1>2. \A i \in 1 .. base - 1 : i \in 1 .. Len(s) + 1 /\ i <= Len(s)
    BY <1>1
  <1>3. \A i \in 1 .. base - 1 : At(s, i) = s[i]
    BY <1>2, AtIs
  <1>4. \A i \in 1 .. base - 1 : s[i] \in NameChar
    BY <1>1, <1>3, Classes DEF Accepted
  <1>5. \A i \in 1 .. base - 1 : At(s, i) \notin {"/"}
    BY <1>3, <1>4, Classes
  <1>6. end = e
    <2>1. \A i \in 1 .. end - 1 : At(s, i) \notin {"/"}
      BY <1>1, <1>5
    <2>2. /\ end \in 1 .. Len(s) + 1 /\ 1 \in 1 .. Len(s) + 1
          /\ At(s, end) \in {"/"} \union {"NUL"}
      BY <1>1
    <2> QED BY <2>1, <2>2, UntilOnly
  <1>7. base - 1 \in 1 .. e - 1
    BY <1>1, <1>6, NameAssumption
  <1>8. s[1] \in Alpha /\ \A i \in 2 .. base - 1 : s[i] \in NameChar
    BY <1>1, <1>3, <1>4 DEF Accepted
  <1>9. ASSUME base - 1 # e - 1
        PROVE  s[(base - 1) + 1] = "@" /\ \A i \in (base - 1) + 2 .. e - 1 : s[i] \in Hex
    <2>1. base \in base .. end - 1 /\ base \in 1 .. Len(s)
      BY <1>1, <1>6, <1>9
    <2>2. At(s, base) = s[base] /\ s[base] # "/" /\ s[base] # "NUL"
      BY <1>1, <2>1, Classes
    <2>3. s[base] = "@"
      BY <2>2 DEF Accepted
    <2>4. \A i \in base + 1 .. e - 1 : s[i] \in Hex
      BY <1>6 DEF Accepted
    <2> QED BY <1>1, <2>3, <2>4
  <1> QED BY <1>6, <1>7, <1>8, <1>9 DEF NameOf

\* The characters that fdt_name_iter takes from any string: a name in front of it
\* up to and including the slash that ends it, or none.
LEMMA IterTakes ==
    ASSUME NEW s \in Seq(Char), NEW e, e = Until(s, 1, {"/"})
    PROVE  /\ TakenAs(s, e) => fdt_name_iter(s) = IF e <= Len(s) THEN e ELSE e - 1
           /\ ~TakenAs(s, e) => fdt_name_iter(s) = 0
  <1>0. PICK stop, base, end :
          /\ stop = Until(s, 2, {"/", "@"})
          /\ base = IF stop > MAX_NAME_LENGTH + 1 THEN MAX_NAME_LENGTH + 1 ELSE stop
          /\ end = Until(s, base, {"/"})
    OBVIOUS
  <1>1. fdt_name_iter(s) = IF Accepted(s, base, end)
                           THEN IF At(s, end) = "/" THEN end ELSE end - 1
                           ELSE 0
    BY <1>0, Zenon DEF fdt_name_iter, NameInFront, Accepted
  <1>2. Len(s) \in Nat /\ 1 \in 1 .. Len(s) + 1 /\ MAX_NAME_LENGTH \in Nat \ {0}
    BY NameAssumption
  <1>3. e \in 1 .. Len(s) + 1 /\ (At(s, e) = "/" <=> e <= Len(s))
    BY FirstEnds
  <1>4. ASSUME NEW k \in 1 .. MAX_NAME_LENGTH, NameOf(s, k, e)
        PROVE  fdt_name_iter(s) = IF e <= Len(s) THEN e ELSE e - 1
    <2>1. stop = k + 1 /\ k \in 1 .. e - 1 /\ k <= MAX_NAME_LENGTH
      BY <1>0, <1>4, NameStops DEF NameOf
    <2>2. base = k + 1
      BY <1>0, <1>2, <1>3, <2>1
    <2>3. end = e
      BY <1>0, <1>4, <2>2, NameStops
    <2>4. Accepted(s, base, end)
      BY <1>4, <2>2, <2>3, AcceptsName
    <2> QED BY <1>1, <1>3, <2>3, <2>4
  <1>5. ASSUME Accepted(s, base, end) PROVE TakenAs(s, e)
    <2>1. At(s, 1) # "NUL"
      BY <1>5, Classes DEF Accepted
    <2>2. Len(s) >= 1
      BY <1>2, <2>1, AtIs
    <2>3. 2 \in 1 .. Len(s) + 1
      BY <1>2, <2>2
    <2>4. stop \in 2 .. Len(s) + 1
      BY <1>0, <2>3, UntilIs
    <2>5. base \in 2 .. Len(s) + 1 /\ base <= MAX_NAME_LENGTH + 1
      BY <1>0, <1>2, <2>4
    <2>6. NameOf(s, base - 1, e)
      BY <1>0, <1>5, <2>5, AcceptedIsName
    <2>7. base - 1 \in 1 .. MAX_NAME_LENGTH
      BY <1>2, <2>5
    <2> QED BY <2>6, <2>7 DEF TakenAs
  <1> QED BY <1>1, <1>4, <1>5 DEF TakenAs

----------------------------------------------------------------------------
(* The strings of the specification *)

NameTypeOK == path \in Seq(Char) /\ name \in Seq(Char \ {"/"})

\* The strings grow by characters only, a name never by a slash.
LEMMA NamesTyped == NameSpec => []NameTypeOK
  <1>1. NameInit => NameTypeOK
    BY DEF NameInit, NameTypeOK
  <1>2. NameTypeOK /\ [NameNext]_<<path, name>> => NameTypeOK'
    <2> SUFFICES ASSUME NameTypeOK, [NameNext]_<<path, name>> PROVE NameTypeOK'
      OBVIOUS
    <2>1. ASSUME NEW c \in Char, path' = Append(path, c), name' = name PROVE NameTypeOK'
      BY <2>1 DEF NameTypeOK
    <2>2. ASSUME NEW c \in Char \ {"/"}, name' = Append(name, c), path' = path PROVE NameTypeOK'
      BY <2>2 DEF NameTypeOK
    <2>3. CASE UNCHANGED <<path, name>>
      BY <2>3 DEF NameTypeOK
    <2> QED BY <2>1, <2>2, <2>3 DEF NameNext
  <1> QED BY <1>1, <1>2, PTL DEF NameSpec

\* The names of the comment are taken whole, but for the longest, and what is taken
\* is a whole part that is such a name or lacks the digits of its unit address: for
\* strings of every length and every MAX_NAME_LENGTH (fdt_name_iter).
THEOREM IterTakesWholeNames == NameSpec => []TakesWholeNames
  <1>1. NameTypeOK => TakesWholeNames
    <2> SUFFICES ASSUME path \in Seq(Char) PROVE TakesWholeNames
      BY DEF NameTypeOK
    <2>1. PICK s, e, t : s = path /\ e = Until(s, 1, {"/"}) /\ t = Part(s, 1)
      OBVIOUS
    <2>2. s \in Seq(Char) /\ Len(s) \in Nat /\ 1 \in 1 .. Len(s) + 1
      BY <2>1
    <2>3. e \in 1 .. Len(s) + 1 /\ Len(t) = e - 1
      BY <2>1, <2>2, FirstEnds, FirstPart
    <2>4. /\ Matches(t) /\ ~LongestName(t) => TakenAs(s, e)
          /\ TakenAs(s, e) => Matches(t) \/ NoDigits(t)
      BY <2>1, <2>2, PartMatches
    <2>5. /\ TakenAs(s, e) => fdt_name_iter(s) = IF e <= Len(s) THEN e ELSE e - 1
          /\ ~TakenAs(s, e) => fdt_name_iter(s) = 0
      BY <2>1, <2>2, IterTakes
    <2>6. Whole(s) = IF e <= Len(s) THEN e ELSE e - 1
      <3>1. Whole(s) = Len(t) + (IF Len(t) < Len(s) THEN 1 ELSE 0)
        BY <2>1, Zenon DEF Whole
      <3> QED BY <2>2, <2>3, <3>1
    <2> QED BY <2>1, <2>4, <2>5, <2>6, Zenon DEF TakesWholeNames
  <1> QED BY <1>1, NamesTyped, PTL

----------------------------------------------------------------------------
(* fdt_name_equal *)

\* Where one of the two loops of fdt_name_equal ends, started at i.
WalkEnd(n, m, i, stop) ==
    CHOOSE j \in i .. Len(n) + 1 :
        /\ At(n, j) \in stop \/ At(m, j) \in stop \/ At(n, j) # At(m, j)
        /\ \A k \in i .. j - 1 : /\ At(n, k) \notin stop /\ At(m, k) \notin stop
                                 /\ At(n, k) = At(m, k)

\* It ends at the only position where a name ends or the names differ, and up to
\* which they were the same.
LEMMA WalkIs ==
    ASSUME NEW n \in Seq(Char), NEW m, NEW i \in 1 .. Len(n) + 1, NEW stop, "NUL" \in stop
    PROVE  LET w == WalkEnd(n, m, i, stop)
           IN  /\ w \in i .. Len(n) + 1
               /\ At(n, w) \in stop \/ At(m, w) \in stop \/ At(n, w) # At(m, w)
               /\ \A k \in i .. w - 1 : /\ At(n, k) \notin stop /\ At(m, k) \notin stop
                                        /\ At(n, k) = At(m, k)
  <1> DEFINE Ends(j) == At(n, j) \in stop \/ At(m, j) \in stop \/ At(n, j) # At(m, j)
             S == {j \in i .. Len(n) + 1 : Ends(j)}
  <1>1. Len(n) \in Nat /\ At(n, Len(n) + 1) = "NUL"
    BY AtIs
  <1>2. S \subseteq Nat /\ Len(n) + 1 \in S
    BY <1>1
  <1>3. PICK j \in S : \A k \in S : j <= k
    BY <1>2, Least
  <1>4. \A k \in i .. j - 1 : ~Ends(k)
    <2> HIDE DEF Ends
    <2> QED BY <1>1, <1>3
  <1>5. \E w \in i .. Len(n) + 1 :
           /\ At(n, w) \in stop \/ At(m, w) \in stop \/ At(n, w) # At(m, w)
           /\ \A k \in i .. w - 1 : /\ At(n, k) \notin stop /\ At(m, k) \notin stop
                                    /\ At(n, k) = At(m, k)
    BY <1>3, <1>4
  <1> QED BY <1>5, Zenon DEF WalkEnd

\* The result in terms of the two ends.
LEMMA EqualIs ==
    ASSUME NEW n, NEW m, NEW base, base = WalkEnd(n, m, 1, {"NUL", "/", "@"}),
           NEW both, both = (At(n, base) = "@" /\ At(m, base) = "@"),
           NEW last, last = IF both THEN WalkEnd(n, m, base + 1, {"NUL", "/"}) ELSE base
    PROVE  fdt_name_equal(n, m) <=>
              /\ At(n, base) \in {"NUL", "/", "@"} \/ At(m, base) \in {"NUL", "/", "@"}
              /\ both => At(n, last) \in {"NUL", "/"} \/ At(m, last) \in {"NUL", "/"}
              /\ At(n, last) \in {"NUL", "/", "@"}
              /\ At(m, last) \in {"NUL", "/"}
  BY Zenon DEF fdt_name_equal, WalkEnd

\* A name in front of a string, character by character: the base ends at k + 1,
\* the name at e.
LEMMA NameReads ==
    ASSUME NEW s \in Seq(Char), NEW e, e = Until(s, 1, {"/"}), NEW k, NameOf(s, k, e)
    PROVE  /\ e \in 1 .. Len(s) + 1 /\ k \in Nat /\ 1 <= k /\ k + 1 <= e
           /\ \A i \in 1 .. k : At(s, i) \notin {"NUL", "/", "@"} /\ At(s, i) = s[i]
           /\ At(s, k + 1) = "@" \/ k + 1 = e
           /\ \A i \in k + 2 .. e - 1 : At(s, i) \notin {"NUL", "/", "@"} /\ At(s, i) = s[i]
           /\ \A i \in 1 .. e - 1 : At(s, i) = s[i] /\ s[i] # "/" /\ s[i] # "NUL"
           /\ At(s, e) \in {"NUL", "/"}
  <1>1. /\ e \in 1 .. Len(s) + 1 /\ At(s, e) \in {"/", "NUL"}
        /\ \A i \in 1 .. e - 1 : At(s, i) = s[i] /\ s[i] # "/" /\ s[i] \in Char
    BY FirstEnds
  <1>2. k \in Nat /\ 1 <= k /\ k + 1 <= e
    BY <1>1 DEF NameOf
  <1>3. \A i \in 1 .. k : s[i] \in NameChar
    BY <1>2, Classes DEF NameOf
  <1>4. \A i \in 1 .. k : At(s, i) \notin {"NUL", "/", "@"} /\ At(s, i) = s[i]
    <2>1. \A i \in 1 .. k : i \in 1 .. e - 1
      BY <1>1, <1>2
    <2> QED BY <1>1, <1>3, <2>1, Classes
  <1>5. At(s, k + 1) = "@" \/ k + 1 = e
    BY <1>1, <1>2 DEF NameOf
  <1>6. \A i \in k + 2 .. e - 1 : At(s, i) \notin {"NUL", "/", "@"} /\ At(s, i) = s[i]
    <2>1. \A i \in k + 2 .. e - 1 : i \in 1 .. e - 1 /\ k # e - 1
      BY <1>1, <1>2
    <2>2. \A i \in k + 2 .. e - 1 : s[i] \in Hex
      BY <2>1 DEF NameOf
    <2> QED BY <1>1, <2>1, <2>2, Classes
  <1>7. \A i \in 1 .. e - 1 : At(s, i) = s[i] /\ s[i] # "/" /\ s[i] # "NUL"
    BY <1>1, Classes
  <1> QED BY <1>1, <1>2, <1>4, <1>5, <1>6, <1>7

\* Two names, the first a string of its own: they are taken for equal when they
\* are the same, or the second is the base of the first.
LEMMA EqualFinds ==
    ASSUME NEW n \in Seq(Char), NEW d, d = Until(n, 1, {"/"}), d = Len(n) + 1,
           NEW kn, NameOf(n, kn, d),
           NEW m \in Seq(Char), NEW e, e = Until(m, 1, {"/"}), NEW km, NameOf(m, km, e)
    PROVE  fdt_name_equal(n, m) <=>
              \/ d = e /\ \A i \in 1 .. e - 1 : n[i] = m[i]
              \/ kn = e - 1 /\ \A i \in 1 .. e - 1 : n[i] = m[i]
  <1>0. PICK base, both, last :
          /\ base = WalkEnd(n, m, 1, {"NUL", "/", "@"})
          /\ both = (At(n, base) = "@" /\ At(m, base) = "@")
          /\ last = IF both THEN WalkEnd(n, m, base + 1, {"NUL", "/"}) ELSE base
    OBVIOUS
  <1> DEFINE Result == /\ At(n, base) \in {"NUL", "/", "@"} \/ At(m, base) \in {"NUL", "/", "@"}
                       /\ both => At(n, last) \in {"NUL", "/"} \/ At(m, last) \in {"NUL", "/"}
                       /\ At(n, last) \in {"NUL", "/", "@"}
                       /\ At(m, last) \in {"NUL", "/"}
  <1>1. fdt_name_equal(n, m) <=> Result
    BY <1>0, EqualIs
  <1>2. /\ d \in Nat /\ kn \in Nat /\ 1 <= kn /\ kn + 1 <= d /\ Len(n) \in Nat
        /\ \A i \in 1 .. kn : At(n, i) \notin {"NUL", "/", "@"} /\ At(n, i) = n[i]
        /\ At(n, kn + 1) = "@" \/ kn + 1 = d
        /\ \A i \in kn + 2 .. d - 1 : At(n, i) \notin {"NUL", "/", "@"} /\ At(n, i) = n[i]
        /\ \A i \in 1 .. d - 1 : At(n, i) = n[i] /\ n[i] # "/" /\ n[i] # "NUL"
        /\ At(n, d) = "NUL"
    <2>1. At(n, d) = "NUL"
      BY AtIs
    <2>2. kn \in Nat /\ 1 <= kn /\ kn + 1 <= d /\ (At(n, kn + 1) = "@" \/ kn + 1 = d)
      BY NameReads
    <2>3. \A i \in 1 .. kn : At(n, i) \notin {"NUL", "/", "@"} /\ At(n, i) = n[i]
      BY NameReads
    <2>4. \A i \in kn + 2 .. d - 1 : At(n, i) \notin {"NUL", "/", "@"} /\ At(n, i) = n[i]
      BY NameReads
    <2>5. \A i \in 1 .. d - 1 : At(n, i) = n[i] /\ n[i] # "/" /\ n[i] # "NUL"
      BY NameReads
    <2>6. Len(n) \in Nat /\ d \in Nat
      OBVIOUS
    <2> QED BY <2>1, <2>2, <2>3, <2>4, <2>5, <2>6, Zenon
  <1>3. /\ e \in Nat /\ km \in Nat /\ 1 <= km /\ km + 1 <= e
        /\ \A i \in 1 .. km : At(m, i) \notin {"NUL", "/", "@"}
        /\ At(m, km + 1) = "@" \/ km + 1 = e
        /\ \A i \in 1 .. e - 1 : At(m, i) = m[i] /\ m[i] # "/" /\ m[i] # "NUL"
        /\ At(m, e) \in {"NUL", "/"}
    BY NameReads
  <1>4. /\ base \in 1 .. d
        /\ At(n, base) \in {"NUL", "/", "@"} \/ At(m, base) \in {"NUL", "/", "@"} \/ At(n, base) # At(m, base)
        /\ \A k \in 1 .. base - 1 : /\ At(n, k) \notin {"NUL", "/", "@"} /\ At(m, k) \notin {"NUL", "/", "@"}
                                    /\ At(n, k) = At(m, k)
    <2>1. 1 \in 1 .. Len(n) + 1 /\ "NUL" \in {"NUL", "/", "@"}
      BY <1>2
    <2> QED BY <1>0, <2>1, WalkIs
  <1>5. base <= kn + 1 /\ base <= km + 1
    <2>1. At(n, kn + 1) \in {"NUL", "/", "@"} /\ At(m, km + 1) \in {"NUL", "/", "@"}
      BY <1>2, <1>3
    <2>2. kn + 1 \notin 1 .. base - 1 /\ km + 1 \notin 1 .. base - 1
      BY <1>4, <2>1
    <2> QED BY <1>2, <1>3, <1>4, <2>2
  <1>6. ASSUME both
        PROVE  /\ base = kn + 1 /\ base = km + 1 /\ base < d /\ base < e
               /\ last \in base + 1 .. d
               /\ \A k \in base + 1 .. last - 1 : /\ At(n, k) \notin {"NUL", "/"} /\ At(m, k) \notin {"NUL", "/"}
                                                  /\ At(n, k) = At(m, k)
               /\ At(n, last) \in {"NUL", "/"} \/ At(m, last) \in {"NUL", "/"} \/ At(n, last) # At(m, last)
    <2>1. At(n, base) = "@" /\ At(m, base) = "@"
      BY <1>0, <1>6
    <2>2. base \notin 1 .. kn /\ base \notin 1 .. km
      BY <1>2, <1>3, <2>1
    <2>3. base = kn + 1 /\ base = km + 1
      BY <1>2, <1>3, <1>4, <1>5, <2>2
    <2>4. base # d /\ base # e
      BY <1>2, <1>3, <2>1
    <2>5. base < d /\ base < e
      BY <1>2, <1>3, <2>3, <2>4
    <2>6. PICK j : j = base + 1
      OBVIOUS
    <2>7. j \in 1 .. Len(n) + 1 /\ "NUL" \in {"NUL", "/"} /\ last = WalkEnd(n, m, j, {"NUL", "/"})
      BY <1>0, <1>2, <1>4, <1>6, <2>5, <2>6
    <2>8. /\ last \in j .. Len(n) + 1
          /\ At(n, last) \in {"NUL", "/"} \/ At(m, last) \in {"NUL", "/"} \/ At(n, last) # At(m, last)
          /\ \A k \in j .. last - 1 : /\ At(n, k) \notin {"NUL", "/"} /\ At(m, k) \notin {"NUL", "/"}
                                      /\ At(n, k) = At(m, k)
      BY <2>7, WalkIs
    <2> QED BY <2>3, <2>5, <2>6, <2>8
  \* What the code takes for equal is.
  <1>7. ASSUME Result, ~both
        PROVE  kn = e - 1 /\ \A i \in 1 .. e - 1 : n[i] = m[i]
    <2>1. last = base /\ At(n, base) \in {"NUL", "/", "@"} /\ At(m, base) \in {"NUL", "/"}
      BY <1>0, <1>7
    <2>2. base \notin 1 .. kn /\ base \notin 1 .. e - 1
      <3>1. base \notin 1 .. kn
        BY <1>2, <2>1
      <3>2. \A i \in 1 .. e - 1 : At(m, i) \notin {"NUL", "/"}
        BY <1>3
      <3> QED BY <2>1, <3>1, <3>2
    <2>3. base = kn + 1 /\ base = e
      BY <1>2, <1>3, <1>4, <1>5, <2>2
    <2>4. \A i \in 1 .. e - 1 : n[i] = m[i]
      BY <1>2, <1>3, <1>4, <2>3
    <2> QED BY <1>2, <1>3, <2>3, <2>4
  <1>8. ASSUME Result, both
        PROVE  d = e /\ \A i \in 1 .. e - 1 : n[i] = m[i]
    <2>1. At(n, last) \in {"NUL", "/", "@"} /\ At(m, last) \in {"NUL", "/"}
      BY <1>8
    <2>2. last \notin 1 .. e - 1 /\ last \notin kn + 2 .. d - 1 /\ e \notin base + 1 .. last - 1
      <3>1. \A i \in 1 .. e - 1 : At(m, i) \notin {"NUL", "/"}
        BY <1>3
      <3>2. last \notin 1 .. e - 1
        BY <2>1, <3>1
      <3>3. last \notin kn + 2 .. d - 1
        BY <1>2, <2>1
      <3>4. e \notin base + 1 .. last - 1
        BY <1>3, <1>6, <1>8
      <3> QED BY <3>2, <3>3, <3>4
    <2>3. base = kn + 1 /\ base < e /\ last \in base + 1 .. d
      BY <1>6, <1>8
    <2>4. last = e /\ last = d
      BY <1>2, <1>3, <2>2, <2>3
    <2>5. ASSUME NEW i \in 1 .. e - 1 PROVE At(n, i) = At(m, i)
      <3>1. CASE i < base
        BY <1>3, <1>4, <3>1
      <3>2. CASE i = base
        BY <1>0, <1>8, <3>2
      <3>3. CASE i > base
        BY <1>2, <1>3, <1>6, <1>8, <2>3, <2>4, <3>3
      <3> QED BY <1>3, <1>4, <3>1, <3>2, <3>3
    <2> QED BY <1>2, <1>3, <2>4, <2>5
  \* What is equal, the code takes for equal.
  <1>9. ASSUME \A i \in 1 .. e - 1 : n[i] = m[i], kn <= e - 1, e <= d
        PROVE  base = kn + 1
    <2>1. \A i \in 1 .. kn : /\ At(n, i) = At(m, i) /\ At(n, i) \notin {"NUL", "/", "@"}
      <3>1. \A i \in 1 .. kn : i \in 1 .. e - 1
        BY <1>2, <1>3, <1>9
      <3> QED BY <1>2, <1>3, <1>9, <3>1
    <2>2. base \notin 1 .. kn
      BY <1>4, <2>1
    <2> QED BY <1>2, <1>4, <1>5, <2>2
  <1>10. ASSUME kn = e - 1, \A i \in 1 .. e - 1 : n[i] = m[i]
         PROVE  Result
    <2>1. base = e /\ base = kn + 1
      BY <1>2, <1>3, <1>9, <1>10
    <2>2. At(m, base) \in {"NUL", "/"} /\ At(n, base) \in {"NUL", "@"}
      BY <1>2, <1>3, <2>1
    <2>3. ~both /\ last = base
      BY <1>0, <2>2
    <2> QED BY <2>2, <2>3
  <1>11. ASSUME d = e, kn # e - 1, \A i \in 1 .. e - 1 : n[i] = m[i]
         PROVE  Result
    <2>1. base = kn + 1 /\ base < e
      BY <1>2, <1>3, <1>9, <1>11
    <2>2. At(n, base) = "@" /\ At(m, base) = "@"
      <3>1. At(n, base) = "@"
        BY <1>2, <1>11, <2>1
      <3>2. base \in 1 .. e - 1 /\ base \in 1 .. d - 1
        BY <1>3, <1>4, <1>11, <2>1
      <3> QED BY <1>2, <1>3, <1>11, <3>1, <3>2
    <2>3. both
      BY <1>0, <2>2
    <2>4. \A i \in base + 1 .. d - 1 : /\ At(n, i) = At(m, i)
                                       /\ At(n, i) \notin {"NUL", "/"}
      <3>1. \A i \in base + 1 .. d - 1 : i \in 1 .. e - 1 /\ i \in 1 .. d - 1
        BY <1>2, <1>4, <1>11
      <3>2. ASSUME NEW i \in base + 1 .. d - 1
            PROVE  At(n, i) = n[i] /\ At(m, i) = m[i] /\ n[i] = m[i] /\ n[i] # "/" /\ n[i] # "NUL"
        BY <1>2, <1>3, <1>11, <3>1, Zenon
      <3> QED BY <3>2
    <2>5. last \notin base + 1 .. d - 1
      BY <1>6, <2>3, <2>4
    <2>6. last = d
      BY <1>2, <1>6, <2>3, <2>5
    <2> QED BY <1>2, <1>3, <1>11, <2>2, <2>6
  <1> HIDE DEF Result
  <1> QED BY <1>1, <1>7, <1>8, <1>10, <1>11

\* Without a slash the whole string is its first part.
LEMMA WholePart ==
    ASSUME NEW s \in Seq(Char), \A i \in 1 .. Len(s) : s[i] # "/"
    PROVE  Until(s, 1, {"/"}) = Len(s) + 1 /\ Part(s, 1) = s
  <1>1. PICK e, t : e = Until(s, 1, {"/"}) /\ t = Part(s, 1)
    OBVIOUS
  <1>2. e \in 1 .. Len(s) + 1 /\ At(s, e) \in {"/", "NUL"} /\ Len(s) \in Nat
    BY <1>1, FirstEnds
  <1>3. t \in Seq(Char) /\ Len(t) = e - 1 /\ \A k \in 1 .. e - 1 : t[k] = s[k]
    BY <1>1, FirstPart
  <1>4. e <= Len(s) => At(s, e) = s[e] /\ s[e] # "NUL"
    BY <1>2, AtIs
  <1>5. e = Len(s) + 1
    BY <1>2, <1>4
  <1> QED BY <1>1, <1>2, <1>3, <1>5, SameSeq

\* A node is found by the name in front of a path when the two are the same, or
\* the path leaves out the unit address.
THEOREM EqualsByNameOrBase == NameSpec => []EqualNames
  <1>1. NameTypeOK => EqualNames
    <2> SUFFICES ASSUME NameTypeOK PROVE EqualNames
      OBVIOUS
    <2>0. PICK n, p : n = name /\ p = path
      OBVIOUS
    <2> DEFINE m == Part(p, 1)
               Base == BaseOf(n)
    <2>1. /\ n \in Seq(Char) /\ p \in Seq(Char) /\ Len(n) \in Nat /\ Len(p) \in Nat
          /\ \A i \in 1 .. Len(n) : n[i] # "/"
      <3>1. n \in Seq(Char \ {"/"}) /\ p \in Seq(Char)
        BY <2>0 DEF NameTypeOK
      <3> QED BY <3>1
    <2>2. SUFFICES ASSUME Matches(n), Matches(m)
                   PROVE  fdt_name_equal(n, p) <=> m = n \/ m = Base
      BY <2>0 DEF EqualNames
    <2>3. PICK d, e : d = Until(n, 1, {"/"}) /\ e = Until(p, 1, {"/"})
      OBVIOUS
    <2>4. d = Len(n) + 1 /\ Part(n, 1) = n
      BY <2>1, <2>3, WholePart
    <2>5. PICK kn : NameOf(n, kn, d)
      BY <2>1, <2>2, <2>3, <2>4, PartMatches
    <2>6. PICK km : NameOf(p, km, e)
      BY <2>1, <2>2, <2>3, PartMatches
    <2>7. e \in 1 .. Len(p) + 1 /\ m \in Seq(Char) /\ Len(m) = e - 1
      BY <2>1, <2>3, FirstEnds, FirstPart
    <2>8. \A k \in 1 .. e - 1 : m[k] = p[k]
      BY <2>1, <2>3, FirstPart
    <2>9. /\ kn \in Nat /\ 1 <= kn /\ kn + 1 <= d
          /\ \A i \in 1 .. kn : At(n, i) \notin {"NUL", "/", "@"}
          /\ At(n, kn + 1) = "@" \/ kn + 1 = d
      BY <2>1, <2>3, <2>5, NameReads
    <2>10. Base = SubSeq(n, 1, kn)
      <3>1. PICK j : j = kn + 1
        OBVIOUS
      <3>2. j \in 1 .. Len(n) + 1 /\ 1 \in 1 .. Len(n) + 1
        BY <2>1, <2>4, <2>9, <3>1
      <3>3. At(n, j) \in {"@"} \union {"NUL"} /\ \A i \in 1 .. j - 1 : At(n, i) \notin {"@"}
        <4>1. At(n, Len(n) + 1) = "NUL"
          BY <2>1, AtIs
        <4>2. j - 1 = kn
          BY <2>9, <3>1
        <4> QED BY <2>4, <2>9, <3>1, <4>1, <4>2
      <3>4. Until(n, 1, {"@"}) = j
        BY <2>1, <3>2, <3>3, UntilOnly
      <3>5. j - 1 = kn
        BY <2>9, <3>1
      <3> QED BY <3>4, <3>5, Zenon DEF BaseOf
    <2>11. Base \in Seq(Char) /\ Len(Base) = kn /\ \A i \in 1 .. kn : Base[i] = n[i]
      <3>1. /\ SubSeq(n, 1, kn) \in Seq(Char) /\ Len(SubSeq(n, 1, kn)) = kn
            /\ \A i \in 1 .. kn : SubSeq(n, 1, kn)[i] = n[1 + i - 1]
        BY <2>1, <2>4, <2>9, SubSeqProperties
      <3>2. \A i \in 1 .. kn : 1 + i - 1 = i
        BY <2>9
      <3> QED BY <2>10, <3>1, <3>2
    <2> HIDE DEF m, Base
    <2>12. m = n <=> d = e /\ \A i \in 1 .. e - 1 : n[i] = p[i]
      BY <2>1, <2>4, <2>7, <2>8, SameSeq
    <2>13. m = Base <=> kn = e - 1 /\ \A i \in 1 .. e - 1 : n[i] = p[i]
      BY <2>7, <2>8, <2>9, <2>11, SameSeq
    <2> QED BY <2>1, <2>3, <2>4, <2>5, <2>6, <2>12, <2>13, EqualFinds
  <1> QED BY <1>1, NamesTyped, PTL

----------------------------------------------------------------------------
(* fdt_validate_path *)

\* t is the rest of s from position j.
RestOf(s, j, t) ==
    /\ Len(t) = Len(s) - j + 1
    /\ \A k \in 1 .. Len(t) : t[k] = s[j + k - 1]
    /\ \A k \in 1 .. Len(t) + 1 : At(t, k) = At(s, j + k - 1)

\* The string that fdt_name_iter is given in the loop of fdt_validate_path.
LEMMA RestReads ==
    ASSUME NEW s \in Seq(Char), NEW j \in 1 .. Len(s), NEW t \in Seq(Char),
           Len(t) = Len(s) - j + 1, \A k \in 1 .. Len(s) - j + 1 : t[k] = s[j + k - 1]
    PROVE  RestOf(s, j, t)
  <1>1. PICK l, r : l = Len(s) /\ r = Len(t)
    OBVIOUS
  <1>2. l \in Nat /\ r = l - j + 1 /\ j \in 1 .. l /\ r \in Nat
    BY <1>1
  <1>3. \A k \in 1 .. r : t[k] = s[j + k - 1]
    BY <1>1, <1>2
  <1>4. ASSUME NEW k \in 1 .. r + 1, NEW i, i = j + k - 1 PROVE At(t, k) = At(s, i)
    <2>1. i \in 1 .. l + 1 /\ (k <= r => i <= l) /\ (k = r + 1 => i = l + 1)
      BY <1>2, <1>4
    <2>2. CASE k <= r
      <3>1. k \in 1 .. r
        BY <1>2, <2>2
      <3>2. t[k] = s[i]
        BY <1>3, <1>4, <3>1
      <3>3. At(t, k) = t[k]
        BY <1>1, <2>2, AtIs
      <3>4. At(s, i) = s[i]
        BY <1>1, <2>1, <2>2, AtIs
      <3> QED BY <3>2, <3>3, <3>4
    <2>3. CASE k = r + 1
      <3>1. At(t, k) = "NUL"
        BY <1>1, <2>3, AtIs
      <3>2. At(s, i) = "NUL"
        BY <1>1, <2>1, <2>3, AtIs
      <3> QED BY <3>1, <3>2
    <2> QED BY <1>2, <2>2, <2>3
  <1> QED BY <1>1, <1>2, <1>3, <1>4 DEF RestOf

\* The first part of the rest is the part of the string at j.
LEMMA RestPart ==
    ASSUME NEW s \in Seq(Char), NEW j \in 1 .. Len(s), NEW t \in Seq(Char), RestOf(s, j, t),
           NEW e, e = Until(s, j, {"/"})
    PROVE  Until(t, 1, {"/"}) = e - j + 1 /\ Part(t, 1) = Part(s, j)
  <1>1. Len(s) \in Nat /\ j \in 1 .. Len(s) /\ j \in 1 .. Len(s) + 1
    OBVIOUS
  <1>2. PICK d : d = e - j + 1
    OBVIOUS
  <1>3. e \in j .. Len(s) + 1
    BY <1>1, UntilIs
  <1>4. At(s, e) \in {"/"} \union {"NUL"} /\ \A k \in j .. e - 1 : At(s, k) \notin {"/"}
    BY <1>1, UntilIs
  <1>5. /\ Len(t) = Len(s) - j + 1
        /\ d \in 1 .. Len(t) + 1 /\ j + d - 1 = e /\ d - 1 = e - j /\ 1 \in 1 .. Len(t) + 1
    BY <1>1, <1>2, <1>3 DEF RestOf
  <1>6. At(t, d) \in {"/"} \union {"NUL"}
    <2>1. At(t, d) = At(s, e)
      BY <1>5, Zenon DEF RestOf
    <2> QED BY <1>4, <2>1
  <1>7. \A k \in 1 .. d - 1 : At(t, k) \notin {"/"}
    <2>1. \A k \in 1 .. d - 1 : k \in 1 .. Len(t) + 1 /\ j + k - 1 \in j .. e - 1
      BY <1>1, <1>3, <1>5
    <2>2. \A k \in 1 .. d - 1 : At(t, k) = At(s, j + k - 1)
      BY <2>1, Zenon DEF RestOf
    <2> QED BY <1>4, <2>1, <2>2
  <1>8. Until(t, 1, {"/"}) = d
    BY <1>5, <1>6, <1>7, UntilOnly
  <1>9. PICK x, y : x = Part(t, 1) /\ y = Part(s, j)
    OBVIOUS
  <1>10. x \in Seq(Char) /\ Len(x) = d - 1 /\ \A k \in 1 .. d - 1 : x[k] = t[k]
    BY <1>8, <1>9, FirstPart
  <1>11. y \in Seq(Char) /\ Len(y) = e - j /\ \A k \in 1 .. e - j : y[k] = s[j + k - 1]
    BY <1>1, <1>9, PartReads
  <1>12. \A k \in 1 .. d - 1 : k \in 1 .. Len(t)
    BY <1>5
  <1>13. \A k \in 1 .. d - 1 : t[k] = s[j + k - 1]
    BY <1>12, Zenon DEF RestOf
  <1>14. \A k \in 1 .. d - 1 : y[k] = s[j + k - 1]
    BY <1>5, <1>11
  <1>15. \A k \in 1 .. Len(x) : x[k] = y[k]
    BY <1>10, <1>13, <1>14
  <1>16. x = y
    <2>1. Len(x) = Len(y)
      BY <1>5, <1>10, <1>11
    <2>2. x \in Seq(Char) /\ y \in Seq(Char)
      BY <1>10, <1>11
    <2> QED BY <1>15, <2>1, <2>2, SameSeq, Zenon
  <1> QED BY <1>2, <1>8, <1>9, <1>16

\* The number of characters that the loop of fdt_validate_path advances by.
Advance(s, i) == fdt_name_iter(SubSeq(s, i, Len(s)))

\* It advances over a name and the slash after it, or not at all.
LEMMA Advances ==
    ASSUME NEW s \in Seq(Char), NEW i \in 1 .. Len(s), NEW e, e = Until(s, i, {"/"})
    PROVE  /\ Advance(s, i) # 0 =>
                 i < e /\ i + Advance(s, i) = IF e <= Len(s) THEN e + 1 ELSE Len(s) + 1
           /\ Matches(Part(s, i)) /\ ~LongestName(Part(s, i)) => Advance(s, i) # 0
           /\ Advance(s, i) # 0 => Matches(Part(s, i)) \/ NoDigits(Part(s, i))
  <1>0. /\ SubSeq(s, i, Len(s)) \in Seq(Char) /\ Len(s) \in Nat
        /\ Len(SubSeq(s, i, Len(s))) = Len(s) - i + 1
        /\ \A k \in 1 .. Len(s) - i + 1 : SubSeq(s, i, Len(s))[k] = s[i + k - 1]
    BY SubSeqProperties
  <1>1. PICK t, d : /\ fdt_name_iter(t) = Advance(s, i) /\ d = Until(t, 1, {"/"})
                    /\ t \in Seq(Char) /\ Len(t) = Len(s) - i + 1
                    /\ \A k \in 1 .. Len(s) - i + 1 : t[k] = s[i + k - 1]
    BY <1>0, Zenon DEF Advance
  <1>2. t \in Seq(Char) /\ Len(t) = Len(s) - i + 1 /\ Len(s) \in Nat /\ RestOf(s, i, t)
    BY <1>0, <1>1, RestReads
  <1>3. d = e - i + 1 /\ Part(t, 1) = Part(s, i)
    BY <1>1, <1>2, RestPart
  <1>4. i \in 1 .. Len(s) + 1
    BY <1>2
  <1>5. e \in i .. Len(s) + 1
    BY <1>4, UntilIs
  <1>6. /\ Matches(Part(s, i)) /\ ~LongestName(Part(s, i)) => TakenAs(t, d)
        /\ TakenAs(t, d) => Matches(Part(s, i)) \/ NoDigits(Part(s, i))
    BY <1>1, <1>2, <1>3, PartMatches
  <1>7. ASSUME TakenAs(t, d)
        PROVE  /\ i < e /\ Advance(s, i) # 0
               /\ i + Advance(s, i) = IF e <= Len(s) THEN e + 1 ELSE Len(s) + 1
    <2>1. PICK k : NameOf(t, k, d)
      BY <1>7 DEF TakenAs
    <2>2. k \in 1 .. d - 1
      BY <2>1 DEF NameOf
    <2>3. Advance(s, i) = IF d <= Len(t) THEN d ELSE d - 1
      BY <1>1, <1>2, <1>7, IterTakes
    <2>4. i \in 1 .. Len(s)
      OBVIOUS
    <2> QED BY ONLY <1>2, <1>3, <1>5, <2>2, <2>3, <2>4
  <1>8. ASSUME ~TakenAs(t, d) PROVE Advance(s, i) = 0
    BY <1>1, <1>2, <1>8, IterTakes
  <1> QED BY <1>6, <1>7, <1>8

\* The positions from i on where a part starts that is not taken.
Bad(s, i) == {j \in i .. Len(s) : (j = i \/ s[j - 1] = "/") /\ Advance(s, j) = 0}

\* One turn of the loop leaves none of them behind.
LEMMA TurnKeepsBad ==
    ASSUME NEW s \in Seq(Char), NEW i \in 1 .. Len(s), Advance(s, i) # 0,
           NEW n, n = i + Advance(s, i)
    PROVE  n \in i + 1 .. Len(s) + 1 /\ Bad(s, i) = Bad(s, n)
  <1>1. PICK e : e = Until(s, i, {"/"})
    OBVIOUS
  <1>2. Len(s) \in Nat /\ i \in 1 .. Len(s) + 1 /\ i \in 1 .. Len(s)
    OBVIOUS
  <1>3. i < e /\ n = IF e <= Len(s) THEN e + 1 ELSE Len(s) + 1
    BY <1>1, Advances
  <1>4. /\ e \in i .. Len(s) + 1 /\ (At(s, e) = "/" <=> e <= Len(s))
        /\ \A k \in i .. e - 1 : s[k] # "/"
    BY <1>1, <1>2, PartEnds
  <1>5. e <= Len(s) => s[e] = "/"
    BY <1>2, <1>4, AtIs
  <1>6. n \in i + 1 .. Len(s) + 1
    BY <1>2, <1>3, <1>4
  <1>7. ASSUME NEW j \in Bad(s, i) PROVE j \in Bad(s, n)
    <2>1. j \in i .. Len(s) /\ (j = i \/ s[j - 1] = "/") /\ Advance(s, j) = 0
      BY <1>7 DEF Bad
    <2>2. j # i /\ s[j - 1] = "/"
      BY <2>1
    <2>3. j - 1 \notin i .. e - 1
      BY <1>4, <2>2
    <2>4. j - 1 >= e
      BY <1>2, <1>4, <2>1, <2>2, <2>3
    <2>5. j \in n .. Len(s)
      BY <1>2, <1>3, <1>4, <2>1, <2>4
    <2> QED BY <2>1, <2>2, <2>5 DEF Bad
  <1>8. ASSUME NEW j \in Bad(s, n) PROVE j \in Bad(s, i)
    <2>1. j \in n .. Len(s) /\ (j = n \/ s[j - 1] = "/") /\ Advance(s, j) = 0
      BY <1>8 DEF Bad
    <2>2. j \in i .. Len(s)
      BY <1>2, <1>6, <2>1
    <2>3. s[j - 1] = "/"
      <3>1. CASE j = n
        <4>1. e <= Len(s) /\ j - 1 = e
          BY <1>2, <1>3, <1>4, <2>1, <3>1
        <4> QED BY <1>5, <4>1
      <3> QED BY <2>1, <3>1
    <2> QED BY <2>1, <2>2, <2>3 DEF Bad
  <1> QED BY <1>6, <1>7, <1>8

\* A function that the loop of fdt_validate_path computes.
IsLoop(s, g) ==
    g = [i \in 1 .. Len(s) + 1 |->
            LET length == fdt_name_iter(SubSeq(s, i, Len(s)))
            IN  IF i > Len(s) \/ length = 0 THEN i ELSE g[i + length]]

\* There is one: the loop ends, at the first part that is not a name.
LEMMA LoopEnds ==
    ASSUME NEW s \in Seq(Char)
    PROVE  \E g : IsLoop(s, g)
  <1> DEFINE First(S) == CHOOSE m \in S : \A k \in S : m <= k
             g == [i \in 1 .. Len(s) + 1 |-> IF Bad(s, i) = {} THEN Len(s) + 1 ELSE First(Bad(s, i))]
             h == [i \in 1 .. Len(s) + 1 |->
                     IF i > Len(s) \/ Advance(s, i) = 0 THEN i ELSE g[i + Advance(s, i)]]
  <1>1. Len(s) \in Nat
    OBVIOUS
  <1>2. ASSUME NEW i \in 1 .. Len(s) + 1 PROVE g[i] = h[i]
    <2>0. g[i] = IF Bad(s, i) = {} THEN Len(s) + 1 ELSE First(Bad(s, i))
      OBVIOUS
    <2>1. CASE i > Len(s)
      <3>1. i = Len(s) + 1
        BY <1>1, <2>1
      <3>2. Bad(s, i) = {}
        BY <1>1, <2>1 DEF Bad
      <3> QED BY <2>1, <3>1, <3>2
    <2>2. CASE i <= Len(s) /\ Advance(s, i) = 0
      <3>1. i \in Bad(s, i) /\ \A k \in Bad(s, i) : i <= k /\ k \in Int
        BY <1>1, <2>2 DEF Bad
      <3>2. First(Bad(s, i)) \in Bad(s, i) /\ \A k \in Bad(s, i) : First(Bad(s, i)) <= k
        <4>1. \E m \in Bad(s, i) : \A k \in Bad(s, i) : m <= k
          BY <3>1
        <4> QED BY <4>1
      <3> HIDE DEF First
      <3>3. First(Bad(s, i)) = i
        BY <3>1, <3>2
      <3>4. h[i] = i
        BY <2>2 DEF h
      <3> HIDE DEF g, h
      <3> QED BY <2>0, <3>1, <3>3, <3>4
    <2>3. CASE i <= Len(s) /\ Advance(s, i) # 0
      <3>1. PICK n : n = i + Advance(s, i)
        OBVIOUS
      <3>2. n \in i + 1 .. Len(s) + 1 /\ Bad(s, i) = Bad(s, n)
        BY <1>1, <2>3, <3>1, TurnKeepsBad
      <3>3. n \in 1 .. Len(s) + 1
        BY <1>1, <3>2
      <3>4. g[i] = g[n]
        BY <3>2, <3>3
      <3>5. h[i] = g[n]
        <4> HIDE DEF g
        <4> QED BY <1>1, <2>3, <3>1
      <3> QED BY <3>4, <3>5
    <2> QED BY <1>1, <2>1, <2>2, <2>3
  <1>3. g = h
    BY <1>2
  <1>4. IsLoop(s, g)
    <2> HIDE DEF g
    <2> QED BY <1>3 DEF IsLoop, Advance
  <1> QED BY <1>4

\* Every such function is past the end exactly when no part is bad.
LEMMA LoopPasses ==
    ASSUME NEW s \in Seq(Char), NEW g, IsLoop(s, g), NEW i \in 1 .. Len(s) + 1
    PROVE  g[i] > Len(s) <=> Bad(s, i) = {}
  <1> DEFINE Holds(j) == g[j] > Len(s) <=> Bad(s, j) = {}
             L == Len(s) + 1
             S == {d \in 0 .. L : L - d \in 1 .. L /\ ~Holds(L - d)}
  <1>1. L \in Nat /\ Len(s) \in Nat /\ i \in 1 .. L
    OBVIOUS
  <1>2. \A j \in 1 .. L : g[j] = IF j > Len(s) \/ Advance(s, j) = 0 THEN j ELSE g[j + Advance(s, j)]
    BY DEF IsLoop, Advance
  <1>3. ASSUME NEW j \in 1 .. L, \A k \in j + 1 .. L : Holds(k) PROVE Holds(j)
    <2>1. CASE j > Len(s)
      <3>1. Bad(s, j) = {}
        BY <1>1, <2>1 DEF Bad
      <3> QED BY <1>1, <1>2, <2>1, <3>1
    <2>2. CASE j <= Len(s) /\ Advance(s, j) = 0
      <3>1. j \in Bad(s, j)
        BY <1>1, <2>2 DEF Bad
      <3>2. g[j] = j
        BY <1>2, <2>2
      <3> QED BY <1>1, <2>2, <3>1, <3>2
    <2>3. CASE j <= Len(s) /\ Advance(s, j) # 0
      <3>1. PICK n : n = j + Advance(s, j)
        OBVIOUS
      <3>2. n \in j + 1 .. L /\ Bad(s, j) = Bad(s, n)
        BY <1>1, <2>3, <3>1, TurnKeepsBad
      <3>3. g[j] = g[n]
        BY <1>1, <1>2, <2>3, <3>1
      <3> QED BY <1>3, <3>2, <3>3
    <2> QED BY <1>1, <2>1, <2>2, <2>3
  <1> HIDE DEF Holds
  <1>4. S = {}
    <2>1. SUFFICES ASSUME S # {} PROVE FALSE
      OBVIOUS
    <2>2. PICK d \in S : \A c \in S : d <= c
      <3>1. S \subseteq Nat
        BY <1>1
      <3> HIDE DEF S
      <3> QED BY <2>1, <3>1, Least
    <2>3. d \in 0 .. L /\ L - d \in 1 .. L /\ ~Holds(L - d)
      BY <2>2
    <2>4. ASSUME NEW k \in (L - d) + 1 .. L PROVE Holds(k)
      <3>1. L - k \in 0 .. L /\ L - k < d /\ L - (L - k) = k /\ k \in 1 .. L
        BY <1>1, <2>3
      <3> QED BY <1>1, <2>2, <2>3, <3>1
    <2> QED BY <1>3, <2>3, <2>4
  <1>5. L - (L - i) = i /\ L - i \in 0 .. L
    BY <1>1
  <1>6. Holds(i)
    BY <1>1, <1>4, <1>5
  <1> QED BY <1>6 DEF Holds

\* The loop runs a function of this kind.
LEMMA ValidateLoops ==
    ASSUME NEW s \in Seq(Char)
    PROVE  \E g : IsLoop(s, g) /\ validate_from(s) = g[2]
  <1>1. PICK f : IsLoop(s, f)
    BY LoopEnds
  <1>2. PICK g : g = CHOOSE at : at = [i \in 1 .. Len(s) + 1 |->
                        LET length == fdt_name_iter(SubSeq(s, i, Len(s)))
                        IN  IF i > Len(s) \/ length = 0 THEN i ELSE at[i + length]]
    OBVIOUS
  <1>3. IsLoop(s, g)
    BY <1>1, <1>2, Zenon DEF IsLoop
  <1>4. validate_from(s) = g[2]
    BY <1>2, Zenon DEF validate_from
  <1> QED BY <1>3, <1>4

\* The parts that fdt_validate_path looks at.
PartsOf(s) == {Part(s, i + 1) : i \in Slash(s) \ {Len(s)}}

\* It accepts when fdt_name_iter takes each of them.
LEMMA ValidateIs ==
    ASSUME NEW s \in Seq(Char), Len(s) # 1, s # <<>>, s[1] = "/"
    PROVE  fdt_validate_path(s) <=> \A i \in Slash(s) \ {Len(s)} : Advance(s, i + 1) # 0
  <1>1. Len(s) \in Nat /\ Len(s) >= 1
    OBVIOUS
  <1>2. PICK g : IsLoop(s, g) /\ validate_from(s) = g[2]
    BY ValidateLoops
  <1>3. 2 \in 1 .. Len(s) + 1
    <2>1. \A l \in Nat : l >= 1 => 2 \in 1 .. l + 1
      OBVIOUS
    <2> QED BY <1>1, <2>1, Zenon
  <1>4. g[2] > Len(s) <=> Bad(s, 2) = {}
    BY <1>2, <1>3, LoopPasses
  <1>5. fdt_validate_path(s) <=> Bad(s, 2) = {}
    BY <1>2, <1>4 DEF fdt_validate_path
  <1>6. ASSUME Bad(s, 2) = {}, NEW i \in Slash(s) \ {Len(s)} PROVE Advance(s, i + 1) # 0
    <2>1. i \in 1 .. Len(s) /\ s[i] = "/" /\ i # Len(s)
      BY DEF Slash
    <2>2. i + 1 \in 2 .. Len(s) /\ (i + 1) - 1 = i
      BY <1>1, <2>1
    <2>3. i + 1 \notin Bad(s, 2)
      BY <1>6
    <2> QED BY <2>1, <2>2, <2>3 DEF Bad
  <1>7. ASSUME \A i \in Slash(s) \ {Len(s)} : Advance(s, i + 1) # 0, NEW j \in Bad(s, 2)
        PROVE  FALSE
    <2>1. j \in 2 .. Len(s) /\ (j = 2 \/ s[j - 1] = "/") /\ Advance(s, j) = 0
      BY <1>7 DEF Bad
    <2>2. j - 1 \in 1 .. Len(s) /\ j - 1 # Len(s) /\ (j - 1) + 1 = j
      BY <1>1, <2>1
    <2>3. s[j - 1] = "/"
      BY <2>1
    <2>4. j - 1 \in Slash(s) \ {Len(s)}
      BY <2>2, <2>3 DEF Slash
    <2> QED BY <1>7, <2>1, <2>2, <2>4
  <1> QED BY <1>5, <1>6, <1>7

\* fdt_validate_path accepts the paths whose parts are all names of the comment and
\* not of the longest kind, and accepts no other part than such names and those
\* without digits after the "@", whatever the length of the path.
THEOREM ValidatesPathOfNames == NameSpec => []PathOfNames
  <1>1. NameTypeOK => PathOfNames
    <2> SUFFICES ASSUME path \in Seq(Char) PROVE PathOfNames
      BY DEF NameTypeOK
    <2>1. PICK s : s = path
      OBVIOUS
    <2>2. s \in Seq(Char) /\ Len(s) \in Nat
      BY <2>1
    <2>3. fdt_validate_path(s) => s # <<>> /\ s[1] = "/"
      BY DEF fdt_validate_path
    <2>4. ASSUME s # <<>>, s[1] = "/"
          PROVE  /\ (\A p \in PartsOf(s) : Matches(p) /\ ~LongestName(p)) => fdt_validate_path(s)
                 /\ fdt_validate_path(s) => \A p \in PartsOf(s) : Matches(p) \/ NoDigits(p)
      <3>1. CASE Len(s) = 1
        <4>1. PartsOf(s) = {}
          BY <3>1 DEF PartsOf, Slash
        <4>2. fdt_validate_path(s)
          BY <2>4, <3>1 DEF fdt_validate_path
        <4> QED BY <4>1, <4>2
      <3>2. CASE Len(s) # 1
        <4>1. fdt_validate_path(s) <=> \A i \in Slash(s) \ {Len(s)} : Advance(s, i + 1) # 0
          BY <2>2, <2>4, <3>2, ValidateIs
        <4>2. \A i \in Slash(s) \ {Len(s)} : i + 1 \in 1 .. Len(s)
          BY <2>2 DEF Slash
        <4>3. \A i \in Slash(s) \ {Len(s)} :
                /\ Matches(Part(s, i + 1)) /\ ~LongestName(Part(s, i + 1)) => Advance(s, i + 1) # 0
                /\ Advance(s, i + 1) # 0 => Matches(Part(s, i + 1)) \/ NoDigits(Part(s, i + 1))
          BY <2>2, <4>2, Advances
        <4> QED BY <4>1, <4>3, Zenon DEF PartsOf
      <3> QED BY <3>1, <3>2
    <2> QED BY <2>1, <2>3, <2>4, Zenon DEF PathOfNames, PartsOf
  <1> QED BY <1>1, NamesTyped, PTL
=============================================================================
