------------------------------- MODULE Kernel -------------------------------
(***************************************************************************)
(* Booting (src/kernel.c, after src/asm/boot.s): kinit reads the device    *)
(* tree the firmware left in RAM, gives the rest of RAM to the page        *)
(* allocator, builds the kernel's page table and switches to it.  Composes *)
(* PageAlloc and Mmu.  What fdt_dump reads is modelled in Devicetree; here *)
(* it matters when it reads.                                               *)
(***************************************************************************)
EXTENDS Mmu

CONSTANTS
    mem_total,  \* the bytes of RAM that kinit believes in (0x10000000)
    Fdts        \* device trees: are they valid, where they are, what they reserve

ASSUME FdtAssumption ==
    Fdts \subseteq [valid : BOOLEAN, pages : SUBSET Ram, reserved : SUBSET Ram]

VARIABLES kpc,  \* the statement of kinit that is next
          fdt   \* the device tree at a1

kernelVars == <<mmuVars, kpc, fdt>>

KernelInit ==
    /\ MmuInit
    /\ kpc = "validate"
    /\ fdt \in Fdts

----------------------------------------------------------------------------
(* kinit *)

\* Mutant: the allocator is set up from the start of the data section.
mem_start_data == data_start

mem_start == pages_bottom

mem_size == mem_total - (mem_start - RamStart * PAGE_SIZE)

\* What kinit hands to the allocator, which lies inside RAM.
ASSUME KinitAssumption == [start |-> mem_start, size |-> mem_size] \in InitArgs

\* kinit maps nothing but what mmu_new_page_table maps.
ASSUME KinitMapsAssumption == MapVirt = {} /\ MapFlags = {}

Running == status \in {"boot", "running"} /\ pc = "idle"

\* Mutant: the allocator is set up before the device tree is read.
kinit_validate_pooled ==
    /\ Running /\ kpc = "validate"
    /\ init_page_alloc(mem_start, mem_size)
    /\ kpc' = "dump"
    /\ UNCHANGED <<callVars, tables, ready, mapped, fdt>>

kinit_validate ==
    /\ Running /\ kpc = "validate"
    /\ IF fdt.valid
       THEN kpc' = "dump" /\ UNCHANGED status
       ELSE status' = "panic" /\ UNCHANGED kpc
    /\ UNCHANGED <<free_list, mem, satp, region, chain, owned,
                   callVars, tables, ready, mapped, fdt>>

\* Counting the reservations, and the dump, only read the device tree.  What
\* prints may never return, when the SBI refuses a request (module Console).
kinit_dump ==
    /\ Running /\ kpc = "dump"
    /\ kpc' \in {"alloc", "stuck"}
    /\ UNCHANGED <<mmuVars, fdt>>

kinit_alloc ==
    /\ Running /\ kpc = "alloc"
    /\ init_page_alloc(mem_start, mem_size)
    /\ kpc' = "new"
    /\ UNCHANGED <<callVars, tables, ready, mapped, fdt>>

kinit_new_page_table ==
    /\ kpc = "new"
    /\ mmu_new_page_table \/ mmu_new_page_table_panic
    /\ kpc' = "set"
    /\ UNCHANGED fdt

\* Mutant: the table is activated as soon as the kernel is mapped.
kinit_set_mmu_early ==
    /\ kpc = "set" /\ status = "running" /\ pc = "tophalf"
    /\ satp' = mmu /\ pc' = "idle"
    /\ kpc' = "log"
    /\ UNCHANGED <<status, free_list, mem, region, chain, owned, caller, mmu, arg,
                   level, table, page, todo, tables, ready, mapped, fdt>>

kinit_set_mmu ==
    /\ kpc = "set"
    /\ \E root \in ready : activate(root)
    /\ kpc' = "log"
    /\ UNCHANGED fdt

\* log("mmu activated")
kinit_log ==
    /\ Running /\ kpc = "log"
    /\ kpc' \in {"loop", "stuck"}
    /\ UNCHANGED <<mmuVars, fdt>>

\* The steps inside mmu_new_page_table.
kinit_call == CallStep /\ UNCHANGED <<kpc, fdt>>

\* while(1), or the loop in kputc, until the next interrupt.
kinit_loop == kpc \in {"loop", "stuck"} /\ UNCHANGED kernelVars

kernel_interrupt == Interrupt /\ UNCHANGED <<kpc, fdt>>
kernel_stopped == Stopped /\ UNCHANGED <<kpc, fdt>>

Boot == \/ kinit_validate \/ kinit_dump \/ kinit_alloc
        \/ kinit_new_page_table \/ kinit_call \/ kinit_set_mmu \/ kinit_log

KernelNext == Boot \/ kinit_loop \/ kernel_interrupt \/ kernel_stopped

\* The only hart executes kinit without waiting for anything.
KernelSpec == KernelInit /\ [][KernelNext]_kernelVars /\ WF_kernelVars(Boot)

----------------------------------------------------------------------------
(* Properties *)

Untouched(p) == mem[p] = [s \in Slot |-> Junk]

\* The device tree is still what the firmware wrote while kinit reads it: no
\* free-list link has been stored into it yet.
TreeIntactWhenRead ==
    kpc \in {"validate", "dump"} => \A p \in fdt.pages : Untouched(p)

\* Nothing that kinit does through the allocator or the page tables touches the
\* firmware or the kernel's own sections and stack below pages_bottom.
ImageUntouched ==
    \A p \in Ram : p * PAGE_SIZE < pages_bottom => Untouched(p)

\* Once kinit has activated the page table, translation is on with a table under which the
\* kernel's sections and all of RAM are mapped as they must be, and the pages in
\* use are exactly the page tables.
BootedOnGoodTable ==
    kpc \in {"log", "loop"} /\ status = "running" =>
        /\ get_mmu \in ready /\ get_mmu.top = "zero"
        /\ KernelMapped(get_mmu)
        /\ OwnedPages = tables

\* Booting ends in the loop, or in a panic or trap, or waiting for a console that
\* has failed.
BootEnds == <>(kpc \in {"loop", "stuck"} \/ status \in {"panic", "trap"})

\* What the device tree reserves is not written (devicetree.c: "memory writes
\* from `address` to `address+size` are invalid and may not occur").
ReservedUntouched == \A p \in fdt.reserved : Untouched(p)
=============================================================================
