------------------------------- MODULE MCMmu -------------------------------
(***************************************************************************)
(* A scaled-down Sv39: 8 entries per table where the hardware has 512, the *)
(* masks of mmu_entry keeping their proportions (a level-1 index with too  *)
(* few bits, a level-0 index with too many).  RAM starts at page 128 as it *)
(* does at 0x80000000: the first page of gigapage 2.                       *)
(***************************************************************************)
EXTENDS Mmu

MCInitArgs == { [start |-> pages_bottom, size |-> RamEnd * PAGE_SIZE - pages_bottom] }

RW == {"READ", "WRITE"}

\* What clients and firmware left in RAM looks like a valid page table entry.
MCJunk == [ppn |-> 0, top |-> "zero", flags |-> {"VALID", "READ"}]

MCData == {MCJunk} \union Entries

MCMapFlags == {RW}

\* Pages for which the indices of mmu_entry are the hardware's: one that shares
\* the kernel's last table, one that needs a table of its own, one that needs
\* two; and one of the upper half, where mmu_map traps.
MCMapVirt == {135, 144, 65, 264}

\* A page whose level-0 index runs past the table.
MCWideVirt == {136}
=============================================================================
