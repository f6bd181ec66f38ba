----------------------------- MODULE MCConsole -----------------------------
(***************************************************************************)
(* Worlds: every directive alone with boundary values of its argument and  *)
(* no faults; mixes of directives, messages and strings with one interrupt *)
(* and one short write; hexdumps around the sizes where a line or a digit  *)
(* is added.                                                               *)
(***************************************************************************)
EXTENDS Console

Text(c) == [lit |-> c]
D(flags, long, conv) == [flags |-> flags, long |-> long, conv |-> conv]
Prints(items, args) == [op |-> "kprintf", items |-> items, args |-> args]

Flags == {<<>>, <<43>>, <<32>>, <<43, 32>>, <<32, 43>>}
Values == {0, 1, 7, 8, 10, 15, 255, 256, 511, 512, 2047, 2048, 4095}

\* One directive between two literals, the second of them a "%" by "%%".
Singles ==
    { Prints(<<D(f, l, c), Text(301), D(<<>>, FALSE, 37)>>, <<v>>) :
        f \in Flags, l \in BOOLEAN, c \in SignedConv \union (UnsignedConv \ {112}), v \in Values }
    \union { Prints(<<Text(301), D(<<>>, FALSE, c)>>, <<v>>) : c \in {99, 112}, v \in Values }
    \union { Prints(<<D(<<>>, FALSE, 115), Text(301)>>, <<v>>) : v \in {<<>>, << <<>> >>, << <<65, 66>> >>} }

\* Formats of the kernel: fdt_dump_helper, kinit and pages.c.
Mixed == << Prints(<<D(<<>>, FALSE, 115), Text(302)>>, << << <<66>> >> >>),
            [op |-> "log", items |-> <<D(<<>>, FALSE, 112), Text(303), D(<<>>, FALSE, 105)>>,
             args |-> <<2048, 3>>],
            [op |-> "kputs", s |-> <<65, 66, 10, 0>>],
            [op |-> "kputx", data |-> <<0, 31, 32, 126, 128>>],
            [op |-> "kputc", c |-> 10] >>

Panics == [op |-> "panic", items |-> <<Text(304)>>, args |-> <<>>]

Bytes(n) == [k \in 1 .. n |-> (k * 37) % 256]
Dump(n) == [op |-> "khexdump", data |-> Bytes(n)]

World(cs, i, s) == [calls |-> cs, irqs |-> i, shorts |-> s]

MCWorlds ==
    { World(<<c>>, 0, 0) : c \in Singles }
    \union { World(<<Dump(n)>>, 0, 0) : n \in {0, 16, 256, 257} }
    \union { World(Append(Mixed, Panics), 1, 1), World(<<Dump(1), Dump(17)>>, 0, 1) }

MCWorldsDump == { World(<<Dump(n)>>, 0, 0) : n \in {1, 16, 17} }

\* "async interrupt (%li) at %lx"
MCReport == [items |-> <<Text(305), D(<<>>, TRUE, 105), Text(306), D(<<>>, TRUE, 120)>>,
             args |-> <<1, 2100>>]
MCFile == << <<310>> >>
MCFunc == << <<311>> >>

\* The calls are as the theorems of ConsoleProofs suppose.
ASSUME FormedAssumption == CallsFormed
=============================================================================
