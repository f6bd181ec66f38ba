------------------------------ MODULE FdtName ------------------------------
(***************************************************************************)
(* Node names and paths character by character (src/drivers/devicetree.c): *)
(* fdt_name_iter, fdt_validate_path and fdt_name_equal, against what their *)
(* comments say of them.  A string is a sequence of characters, one per    *)
(* class that the code tells apart, and reads as NUL at its end.           *)
(***************************************************************************)
EXTENDS Integers, Sequences

CONSTANTS
    MAX_NAME_LENGTH,    \* 31 in the code
    Letter, HexLetter, Digit, Punct, Other,     \* characters, by class
    MaxPath, MaxName    \* bounds on the lengths of the strings

\* The code tells these characters apart, and no string contains its end.
ASSUME NameAssumption ==
    /\ MAX_NAME_LENGTH \in Nat \ {0}
    /\ MaxPath \in Nat /\ MaxName \in Nat
    /\ {"/", "@", "NUL"} \intersect
          (Letter \union HexLetter \union Digit \union Punct \union Other) = {}

Char == Letter \union HexLetter \union Digit \union Punct \union Other \union {"/", "@"}

Alpha == Letter \union HexLetter
Hex == HexLetter \union Digit
NameChar == Alpha \union Digit \union Punct

VARIABLES path,     \* the path that is parsed
          name      \* the name of a node it is compared with

At(s, i) == IF i \in DOMAIN s THEN s[i] ELSE "NUL"

\* The first position from i on whose character is in C or where the string ends.
Until(s, i, C) ==
    CHOOSE j \in i .. Len(s) + 1 :
        /\ At(s, j) \in C \union {"NUL"}
        /\ \A k \in i .. j - 1 : At(s, k) \notin C

\* How many characters of s the name in front of it takes: 0 if it is not valid.
NameInFront(s, TakeSlash(_, _)) ==
    LET stop == Until(s, 2, {"/", "@"})
        base == IF stop > MAX_NAME_LENGTH + 1 THEN MAX_NAME_LENGTH + 1 ELSE stop
        end == Until(s, base, {"/"})
    IN  IF /\ At(s, 1) \in Alpha
           /\ \A k \in 2 .. base - 1 : s[k] \in NameChar
           /\ At(s, base) \in {"NUL", "/", "@"}
           /\ \A k \in base + 1 .. end - 1 : s[k] \in Hex
        THEN IF At(s, end) = "/" /\ TakeSlash(base, end) THEN end ELSE end - 1
        ELSE 0

\* Mutant: the slash after a unit address is not counted.
fdt_name_iter_no_slash(s) == NameInFront(s, LAMBDA base, end : end = base)

\* The length of the name in front of s with the slash after it.
fdt_name_iter(s) == NameInFront(s, LAMBDA base, end : TRUE)

\* Mutant: the slash, which the length counts, is skipped a second time.
validate_from_skips(s) ==
    LET at[i \in 1 .. Len(s) + 2] ==
            LET length == fdt_name_iter(SubSeq(s, i, Len(s)))
            IN  IF i > Len(s) \/ length = 0 THEN i ELSE at[i + length + 1]
    IN  at[2]

\* The loop of fdt_validate_path: where it stops when it starts at position i.
validate_from(s) ==
    LET at[i \in 1 .. Len(s) + 1] ==
            LET length == fdt_name_iter(SubSeq(s, i, Len(s)))
            IN  IF i > Len(s) \/ length = 0 THEN i ELSE at[i + length]
    IN  at[2]

fdt_validate_path(s) ==
    /\ s # <<>>
    /\ s[1] = "/"
    /\ Len(s) = 1 \/ validate_from(s) > Len(s)

\* The node name n and the name in front of the path m.
\* Mutant: a name that is a prefix of the other is taken for equal.
fdt_name_equal_prefix(n, m) ==
    LET differ(i, j) == At(n, i) # At(m, j)
        stop == {"/", "@", "NUL"}
        i == CHOOSE k \in 1 .. Len(n) + 1 :
                /\ At(n, k) \in stop \/ At(m, k) \in stop \/ differ(k, k)
                /\ \A l \in 1 .. k - 1 : ~(At(n, l) \in stop \/ At(m, l) \in stop \/ differ(l, l))
    IN  At(n, i) \in stop \/ At(m, i) \in stop

fdt_name_equal(n, m) ==
    LET Walk(i, stop) ==    \* where a loop over both names ends, started at i
            CHOOSE j \in i .. Len(n) + 1 :
                /\ At(n, j) \in stop \/ At(m, j) \in stop \/ At(n, j) # At(m, j)
                /\ \A k \in i .. j - 1 : /\ At(n, k) \notin stop /\ At(m, k) \notin stop
                                         /\ At(n, k) = At(m, k)
        Broke(j, stop) == At(n, j) \notin stop /\ At(m, j) \notin stop
        base == Walk(1, {"NUL", "/", "@"})
        both == At(n, base) = "@" /\ At(m, base) = "@"
        last == IF both THEN Walk(base + 1, {"NUL", "/"}) ELSE base
    IN  /\ ~Broke(base, {"NUL", "/", "@"})
        /\ both => ~Broke(last, {"NUL", "/"})
        /\ At(n, last) \in {"NUL", "/", "@"}
        /\ At(m, last) \in {"NUL", "/"}

----------------------------------------------------------------------------
(* Every pair of strings within the bounds *)

NameInit == path = <<>> /\ name = <<>>

NameNext ==
    \/ /\ Len(path) < MaxPath
       /\ \E c \in Char : path' = Append(path, c)
       /\ UNCHANGED name
    \/ /\ Len(name) < MaxName
       /\ \E c \in Char \ {"/"} : name' = Append(name, c)
       /\ UNCHANGED path
    \/ Len(path) = MaxPath /\ Len(name) = MaxName /\ UNCHANGED <<path, name>>

NameSpec == NameInit /\ [][NameNext]_<<path, name>>

----------------------------------------------------------------------------
(* Properties *)

\* The parts of a string between slashes, from the definition of a path, and
\* the characters of a name before its unit address.
Slash(s) == {i \in 1 .. Len(s) : s[i] = "/"}
Part(s, i) == SubSeq(s, i, Until(s, i, {"/"}) - 1)
BaseOf(s) == SubSeq(s, 1, Until(s, 1, {"@"}) - 1)

\* A valid name by the comment in front of fdt_name_iter:
\* [a-zA-Z][a-zA-Z0-9,._+\-]{,31}(@[0-9a-fA-F]+)?, where 31 is MAX_NAME_LENGTH.
Matches(s) ==
    \E k \in 1 .. Len(s) :
        /\ k <= MAX_NAME_LENGTH + 1
        /\ s[1] \in Alpha /\ \A i \in 2 .. k : s[i] \in NameChar
        /\ \/ k = Len(s)
           \/ /\ s[k + 1] = "@" /\ k + 2 <= Len(s)
              /\ \A i \in k + 2 .. Len(s) : s[i] \in Hex

\* What fdt_name_iter takes if it takes the first part: the slash is included.
Whole(s) == Len(Part(s, 1)) + (IF Len(Part(s, 1)) < Len(s) THEN 1 ELSE 0)

\* The comment in front of fdt_name_iter: it "returns the length of the name
\* within the path (+ 1 for the slash) and 0 if invalid".  The code does not do
\* this: see LongestName and NoDigits.
TakesOneName ==
    fdt_name_iter(path) = IF Matches(Part(path, 1)) THEN Whole(path) ELSE 0

\* The two ways in which the code and the comment disagree.  A valid name that
\* has the full MAX_NAME_LENGTH + 1 characters before the "@" is refused; and a
\* valid name followed by "@" and no digit is taken.
LongestName(s) == Len(BaseOf(s)) = MAX_NAME_LENGTH + 1
NoDigits(s) == s = Append(BaseOf(s), "@") /\ Matches(BaseOf(s))

\* Those are the only ones.  Every other valid name is taken with the slash after
\* it, and whatever fdt_name_iter takes is the whole first part, which is valid
\* or lacks the digits: it never stops inside a part, where fdt_node_path would
\* go on comparing, and never runs into the next one.
TakesWholeNames ==
    LET first == Part(path, 1)
        taken == fdt_name_iter(path)
    IN  /\ Matches(first) /\ ~LongestName(first) => taken = Whole(path)
        /\ taken # 0 => /\ taken = Whole(path)
                        /\ Matches(first) \/ NoDigits(first)

\* fdt_validate_path ("valid path names consist of valid node names separated by
\* forward slashes"), with the same two exceptions: a path of valid names is
\* accepted, with or without a slash at the end, unless one is a LongestName; and
\* of an accepted path every part, not only the first, is valid or lacks the
\* digits of its unit address.
PathOfNames ==
    LET rooted == path # <<>> /\ path[1] = "/"
        parts == {Part(path, i + 1) : i \in Slash(path) \ {Len(path)}}
    IN  /\ rooted /\ (\A p \in parts : Matches(p) /\ ~LongestName(p)) => fdt_validate_path(path)
        /\ fdt_validate_path(path) => rooted /\ \A p \in parts : Matches(p) \/ NoDigits(p)

\* Two names are equal when their characters before the "@" are, and the unit
\* addresses too if the path has one (devicetree.c: "the right one must have its
\* address considered since its the path").
EqualNames ==
    LET m == Part(path, 1)
    IN  Matches(name) /\ Matches(m) =>
            (fdt_name_equal(name, path) <=> m = name \/ m = BaseOf(name))
=============================================================================
