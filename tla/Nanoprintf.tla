----------------------------- MODULE Nanoprintf -----------------------------
(***************************************************************************)
(* include/nanoprintf.h as console.c configures it: every NANOPRINTF_USE_* *)
(* is 0, so widths, precisions, "-", "0", "#", "h", "ll", "j", "z", "t",   *)
(* floats, "b" and "n" are not compiled in.                                *)
(*                                                                         *)
(* A character is its code; a run of literal text is one symbol above 255. *)
(* A numeric argument is the LONG_BITS-bit register it is passed in; a     *)
(* pointer to a string is <<>> (NULL) or <<the string>>.                   *)
(***************************************************************************)
EXTENDS Integers, Sequences, SequencesExt

CONSTANTS INT_BITS, LONG_BITS  \* the widths of int and of long (32 and 64)

ASSUME BitsAssumption ==
    INT_BITS \in Nat \ {0} /\ LONG_BITS \in Nat /\ INT_BITS <= LONG_BITS

\* The character codes that the formats and the conversions name.
Ch == [LF |-> 10, SP |-> 32, PCT |-> 37, PLUS |-> 43, MINUS |-> 45, DOT |-> 46,
       ZERO |-> 48, A |-> 65, X |-> 88, c |-> 99, d |-> 100, i |-> 105, l |-> 108,
       o |-> 111, p |-> 112, s |-> 115, u |-> 117, x |-> 120, a |-> 97, BAR |-> 124]

SignedConv == {Ch.i, Ch.d}
UnsignedConv == {Ch.o, Ch.u, Ch.x, Ch.X, Ch.p}
Conversions == {Ch.PCT, Ch.c, Ch.s} \union SignedConv \union UnsignedConv

\* The character at position k, or the terminating 0.
CharAt(f, k) == IF k <= Len(f) THEN f[k] ELSE 0

\* Mutant: the last of the flags wins.
last_flag(flags) == IF flags = <<>> THEN <<>> ELSE <<Last(flags)>>

\* The sign of a number that is not negative: "+" wins over " ".
npf_prepend(flags) ==
    IF Contains(flags, Ch.PLUS) THEN <<Ch.PLUS>>
    ELSE IF Contains(flags, Ch.SP) THEN <<Ch.SP>> ELSE <<>>

\* The directive at the "%" in position k; its length is 0 when it is not one
\* that was compiled in.
npf_parse_format_spec(f, k) ==
    LET flag(m) == CharAt(f, m) \in {Ch.PLUS, Ch.SP}
        cur == CHOOSE j \in k + 1 .. Len(f) + 1 :
                 ~flag(j) /\ \A m \in k + 1 .. j - 1 : flag(m)
        at == IF CharAt(f, cur) = Ch.l THEN cur + 1 ELSE cur
    IN  [len |-> IF CharAt(f, at) \in Conversions THEN at - k + 1 ELSE 0,
         prepend |-> npf_prepend(SubSeq(f, k + 1, cur - 1)),
         long |-> at # cur,
         conv |-> CharAt(f, at)]

\* The digits of val, the lowest first.
npf_utoa_rev(val, base, case_adj) ==
    LET digit(d) == d + (IF d < 10 THEN Ch.ZERO ELSE Ch.A - 10 + case_adj)
        rev[v \in Nat] == <<digit(v % base)>> \o
                          (IF v \div base = 0 THEN <<>> ELSE rev[v \div base])
    IN  rev[val]

\* va_arg of a register, as an unsigned and as a signed integer.
UnsignedArg(long, reg) == reg % 2^(IF long THEN LONG_BITS ELSE INT_BITS)

SignedArg(long, reg) ==
    LET w == IF long THEN LONG_BITS ELSE INT_BITS
        u == reg % 2^w
    IN  IF u >= 2^(w - 1) THEN u - 2^w ELSE u

\* The sign and the digits, which the buffer holds in reverse.
Payload(sign_c, cbuf) == sign_c \o Reverse(cbuf)

\* What a directive prints for its argument.
npf_convert(fs, arg) ==
    LET case_adj == IF fs.conv = Ch.X THEN 0 ELSE Ch.a - Ch.A
        signed == SignedArg(fs.long, arg)
        uval == IF signed < 0 THEN (0 - (signed % 2^LONG_BITS)) % 2^LONG_BITS ELSE signed
        base == CASE fs.conv = Ch.o -> 8 [] fs.conv = Ch.u -> 10 [] OTHER -> 16
    IN  CASE fs.conv = Ch.PCT -> <<Ch.PCT>>
          [] fs.conv = Ch.c -> <<arg % 256>>
          [] fs.conv = Ch.s -> IF arg = <<>> THEN <<>> ELSE arg[1]
          [] fs.conv \in SignedConv ->
               Payload(IF signed < 0 THEN <<Ch.MINUS>> ELSE fs.prepend,
                       npf_utoa_rev(uval, 10, case_adj))
          [] OTHER ->
               Payload(<<>>, npf_utoa_rev(UnsignedArg(fs.long \/ fs.conv = Ch.p, arg),
                                          base, case_adj))

\* The characters that a format and its arguments put out: p is the position in
\* the format, n the number of the next argument.
npf_vpprintf(f, args) ==
    LET out[p \in 1 .. Len(f) + 1] == [n \in Nat |->
          IF p > Len(f) THEN <<>>
          ELSE LET fs == npf_parse_format_spec(f, p)
               IN  IF f[p] # Ch.PCT \/ fs.len = 0
                   THEN <<f[p]>> \o out[p + 1][n]
                   ELSE IF fs.conv = Ch.PCT
                        THEN npf_convert(fs, 0) \o out[p + fs.len][n]
                        ELSE npf_convert(fs, args[n]) \o out[p + fs.len][n + 1]]
    IN  out[1][1]

----------------------------------------------------------------------------
(* What C says of the same formats.  An item of a format is a literal or a *)
(* directive [flags, long, conv].                                          *)

Spell(items) ==
    LET spell(it) == IF "lit" \in DOMAIN it THEN <<it.lit>>
                     ELSE <<Ch.PCT>> \o it.flags \o (IF it.long THEN <<Ch.l>> ELSE <<>>)
                          \o <<it.conv>>
    IN  FlattenSeq([k \in DOMAIN items |-> spell(items[k])])

\* The numeral of v without leading zeros, the highest digit first.
Numeral(v, base, upper) ==
    LET n == CHOOSE k \in 1 .. LONG_BITS :
               v < base^k /\ (k = 1 \/ base^(k - 1) <= v)
        digits == <<48, 49, 50, 51, 52, 53, 54, 55, 56, 57>> \o
                  (IF upper THEN <<65, 66, 67, 68, 69, 70>> ELSE <<97, 98, 99, 100, 101, 102>>)
    IN  [k \in 1 .. n |-> digits[((v \div base^(n - k)) % base) + 1]]

CItem(it, arg) ==
    LET w == IF it.long \/ it.conv = Ch.p THEN LONG_BITS ELSE INT_BITS
        low == arg % 2^w
        negative == low \div 2^(w - 1) = 1
    IN  CASE it.conv = Ch.c -> <<arg % 256>>
          [] it.conv = Ch.s -> FlattenSeq(arg)
          [] it.conv \in SignedConv ->
               (IF negative THEN <<Ch.MINUS>>
                ELSE IF Contains(it.flags, Ch.PLUS) THEN <<Ch.PLUS>>
                ELSE IF Contains(it.flags, Ch.SP) THEN <<Ch.SP>> ELSE <<>>)
                 \o Numeral(IF negative THEN 2^w - low ELSE low, 10, FALSE)
          [] it.conv = Ch.o -> Numeral(low, 8, FALSE)
          [] it.conv = Ch.u -> Numeral(low, 10, FALSE)
          [] OTHER -> Numeral(low, 16, it.conv = Ch.X)

\* Literals and %% take no argument.
TakesArg(it) == "lit" \notin DOMAIN it /\ it.conv # Ch.PCT

\* The position of the argument of item k.
ArgOf(items, k) == Cardinality({m \in 1 .. k : TakesArg(items[m])})

\* What C's printf puts out.
CText(items, args) ==
    LET text(k) == IF "lit" \in DOMAIN items[k] THEN <<items[k].lit>>
                   ELSE IF items[k].conv = Ch.PCT THEN <<Ch.PCT>>
                   ELSE CItem(items[k], args[ArgOf(items, k)])
    IN  FlattenSeq([k \in DOMAIN items |-> text(k)])

\* A format that C defines and the configuration covers, with arguments of the
\* types it asks for.
Item == [lit : Nat \ {Ch.PCT}]
        \union [flags : Seq({Ch.PLUS, Ch.SP}), long : BOOLEAN, conv : Conversions]

ArgFits(it, arg) ==
    IF it.conv = Ch.s THEN arg = <<>> \/ (arg = <<arg[1]>> /\ arg[1] \in Seq(Nat)) ELSE arg \in Nat

Formed(items, args) ==
    /\ items \in Seq(Item)
    /\ Len(args) \in Nat /\ args = [k \in 1 .. Len(args) |-> args[k]]
    /\ \A k \in 1 .. Len(items) : TakesArg(items[k]) =>
          ArgOf(items, k) <= Len(args) /\ ArgFits(items[k], args[ArgOf(items, k)])
=============================================================================
