---------------------------- MODULE MCPageAlloc ----------------------------
(* A small RAM for PageAlloc: pages 2..6 of 4 bytes and 2 words each.      *)
EXTENDS PageAlloc

\* An aligned region, an unaligned one, one that ends inside a page, and two
\* that hold no whole page (the second one less than the alignment gap).
MCInitArgs == { [start |-> 12, size |-> 16], [start |-> 13, size |-> 13],
                [start |-> 9, size |-> 10],
                [start |-> 12, size |-> 3], [start |-> 9, size |-> 2] }
=============================================================================
