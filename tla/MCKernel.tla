------------------------------ MODULE MCKernel ------------------------------
(***************************************************************************)
(* The scaled-down machine of MCMmu: 12 pages of RAM, the kernel up to     *)
(* page 132, and the device tree where firmware puts it: at the end of RAM *)
(* or right behind the kernel.                                             *)
(***************************************************************************)
EXTENDS Kernel

MCInitArgs == { [start |-> mem_start, size |-> mem_size] }
MCJunk == [ppn |-> 0, top |-> "zero", flags |-> {"VALID", "READ"}]
MCData == {MCJunk} \union Entries

MCFdts == [valid : BOOLEAN, pages : {{139}, {138, 139}, {133}},
           reserved : {{}, {128}, {128, 137}}]
=============================================================================
