---------------------------- MODULE KernelProofs ----------------------------
(***************************************************************************)
(* Proofs about booting, for every RAM, every image and every device tree: *)
(* kinit keeps its hands off the image and off the tree while it reads it, *)
(* and ends up on a page table under which the kernel is mapped.           *)
(***************************************************************************)
EXTENDS Kernel, MmuProofs

\* The statements of kinit before init_page_alloc, up to set_mmu, and after it.
Reading == {"validate", "dump", "alloc"}
Unmapped == Reading \union {"new", "set"}
Booted == {"log", "loop"}

\* Nobody has written anything yet.
Fresh == /\ free_list = NULL /\ mem = [p \in Ram |-> [s \in Slot |-> Junk]]
         /\ region = {} /\ chain = <<>> /\ owned = {} /\ pc = "idle" /\ status # "running"

\* The inductive invariant, on top of MInv and MapInv.
KInv ==
    /\ fdt \in Fdts
    /\ kpc \in Reading => Fresh
    /\ kpc \in Unmapped => satp = NULL
    /\ \A p \in region : pages_bottom <= p * PAGE_SIZE
    /\ ImageUntouched
    /\ OwnedPages = tables
    /\ kpc \in Booted => satp \in ready /\ satp.top = "zero" /\ pc \in {"idle", "fetch"}

\* kinit finds no device tree.
NoTree ==
    /\ kpc = "validate" /\ status' = "panic"
    /\ UNCHANGED <<free_list, mem, satp, region, chain, owned, callVars, tables, ready, mapped>>

----------------------------------------------------------------------------
(* The steps of kinit, as steps of what it calls *)

\* kinit gives the allocator a range that starts at pages_bottom.
LEMMA KinitRange ==
    ASSUME NEW p \in FirstPage(mem_start) .. FirstPage(mem_start) + PageCount(mem_start, mem_size) - 1
    PROVE  pages_bottom <= p * PAGE_SIZE
  <1>1. mem_start \in Nat /\ mem_size \in Nat
    <2>1. PICK a \in InitArgs : a = [start |-> mem_start, size |-> mem_size]
      BY KinitAssumption
    <2> QED BY <2>1, InitArgsAssumption
  <1>2. PICK f : f = FirstPage(mem_start)
    OBVIOUS
  <1>3. f \in Int /\ f * PAGE_SIZE \in Int /\ mem_start <= f * PAGE_SIZE
    BY <1>1, <1>2, AlignedRange
  <1>4. PageCount(mem_start, mem_size) \in Int
    BY <1>1, AlignedRange
  <1>5. p \in Int /\ f <= p
    BY <1>2, <1>3, <1>4
  <1>6. f * PAGE_SIZE <= p * PAGE_SIZE /\ p * PAGE_SIZE \in Int
    BY <1>3, <1>5, SizeAssumption
  <1> QED BY <1>1, <1>3, <1>6 DEF mem_start

\* Once the allocator is set up, only pages of its region are ever written.
LEMMA RegionWrites ==
    ASSUME IInv, [AllocNext]_allocVars, status # "boot"
    PROVE  region' = region /\ \A p \in Ram : p \notin region => mem'[p] = mem[p]
  <1>0. mem \in [Ram -> [Slot -> Word]] /\ FreePages \subseteq region /\ OwnedPages \subseteq region
    BY DEF IInv, AllocTypeOK, EveryPageOnce
  <1>1. ASSUME NEW clear \in BOOLEAN, alloc_page(clear)
        PROVE  region' = region /\ \A p \in Ram : p \notin region => mem'[p] = mem[p]
    <2>1. free_list.page \in FreePages
      BY <1>1, HeadOfList DEF alloc_page
    <2> QED BY <1>0, <1>1, <2>1 DEF alloc_page
  <1>2. ASSUME NEW ptr \in owned,
               free_page(ptr) \/ \E s \in Slot, w \in Data : OwnerWrite(ptr, s, w)
        PROVE  region' = region /\ \A p \in Ram : p \notin region => mem'[p] = mem[p]
    <2>1. ptr.page \in OwnedPages
      BY DEF OwnedPages
    <2> QED BY <1>0, <1>2, <2>1 DEF free_page, OwnerWrite
  <1> QED BY <1>1, <1>2 DEF AllocNext, init_page_alloc, init_page_alloc_runaway, alloc_page_panic,
             set_mmu, Trap, Halted, allocVars

\* kinit calls mmu_map only from mmu_new_page_table, for leaves in the window.
LEMMA KinitCallers == CallersInWindow /\ CallersSpareKernel /\ CallersMapLeaves
  BY KinitMapsAssumption DEF CallersInWindow, CallersSpareKernel, CallersMapLeaves

\* Every step of kinit is one of the page tables and the allocator, but for the
\* panic when there is no device tree.
LEMMA KernelStep ==
    ASSUME [KernelNext]_kernelVars
    PROVE  [MmuNext]_mmuVars \/ NoTree
  <1>1. CASE kinit_alloc
    <2>1. PICK a \in InitArgs : a = [start |-> mem_start, size |-> mem_size]
      BY KinitAssumption
    <2>2. init_page_alloc(a.start, a.size)
      BY <1>1, <2>1 DEF kinit_alloc
    <2>3. AllocatorCall
      BY <1>1, <2>2 DEF AllocatorCall, kinit_alloc, Running
    <2> QED BY <2>3 DEF MmuNext
  <1>2. CASE kinit_validate
    BY <1>2 DEF kinit_validate, NoTree, mmuVars, allocVars
  <1>3. CASE kinit_dump \/ kinit_log \/ kinit_loop \/ UNCHANGED kernelVars
    BY <1>3 DEF kinit_dump, kinit_log, kinit_loop, kernelVars
  <1>4. CASE kinit_new_page_table \/ kinit_call \/ kinit_set_mmu \/ kernel_interrupt \/ kernel_stopped
    BY <1>4 DEF kinit_new_page_table, kinit_call, kinit_set_mmu, kernel_interrupt, kernel_stopped,
                MmuNext, MmuCall, StartCall
  <1> QED BY <1>1, <1>2, <1>3, <1>4 DEF KernelNext, Boot

\* The panic changes nothing but the status.
LEMMA NoTreeStep ==
    ASSUME MInv, MapInv, KInv, NoTree
    PROVE  MInv' /\ MapInv'
  <1>1. /\ status' = "panic" /\ Fresh
        /\ UNCHANGED <<free_list, mem, satp, region, chain, owned, callVars, tables, ready, mapped>>
    BY DEF NoTree, KInv, Reading
  <1>2. IInv'
    <2>1. AllocTypeOK'
      BY <1>1 DEF MInv, IInv, AllocTypeOK
    <2>2. ListInMemory' /\ NothingOwnedAtBoot'
      BY <1>1 DEF Fresh, ListInMemory, NothingOwnedAtBoot
    <2>3. EveryPageOnce'
      BY SMTT(30), <1>1 DEF MInv, IInv, EveryPageOnce, FreePages, OwnedPages
    <2> QED BY <2>1, <2>2, <2>3 DEF IInv
  <1>3. MInv'
    BY <1>1, <1>2, StopStep
  <1>4. Live' = Live
    BY <1>1, SameLive DEF callVars
  <1>5. Recorded' /\ Unrecorded'
    BY <1>1, <1>4, TablesAlone DEF MapInv
  <1>6. KernelRecorded' /\ TopHalfFilled'
    BY <1>1, KernelKept, TopHalfKept DEF MapInv, Fresh, callVars, Building, InMap
  <1>7. AllPhysical'
    BY <1>1 DEF MapInv, AllPhysical, FreePages, InMap, callVars
  <1> QED BY <1>3, <1>5, <1>6, <1>7 DEF MapInv

----------------------------------------------------------------------------
(* The invariant of kinit *)

\* Initially nothing has been written.
LEMMA InitKInv == KernelInit => KInv
  <1> SUFFICES ASSUME KernelInit PROVE KInv
    OBVIOUS
  <1>1. /\ kpc = "validate" /\ fdt \in Fdts /\ status = "boot" /\ free_list = NULL /\ satp = NULL
        /\ mem = [p \in Ram |-> [s \in Slot |-> Junk]] /\ region = {} /\ chain = <<>> /\ owned = {}
        /\ pc = "idle" /\ tables = {}
    BY DEF KernelInit, MmuInit, AllocInit
  <1>2. Fresh /\ ImageUntouched /\ OwnedPages = tables
    BY <1>1 DEF Fresh, ImageUntouched, Untouched, OwnedPages
  <1> QED BY <1>1, <1>2 DEF KInv, Booted

\* Steps that leave memory and the pages alone, and kinit where it is.
LEMMA KInvStays ==
    ASSUME KInv, UNCHANGED <<free_list, mem, satp, region, chain, owned, pc, tables, ready, fdt>>,
           status' = "running" => status = "running",
           kpc' \in Reading => kpc \in Reading, kpc' \in Unmapped => kpc \in Unmapped,
           kpc' \in Booted => kpc \in Booted
    PROVE  KInv'
  <1>1. Fresh => Fresh'
    BY DEF Fresh
  <1>2. ImageUntouched' /\ OwnedPages' = OwnedPages
    BY DEF KInv, ImageUntouched, Untouched, OwnedPages
  <1> QED BY <1>1, <1>2 DEF KInv

\* Steps inside mmu_new_page_table, its first one included.
LEMMA KInvCall ==
    ASSUME MInv, KInv, [MmuNext]_mmuVars, status # "boot", kpc \notin Reading \union Booted,
           kpc' \notin Reading \union Booted, fdt' = fdt, satp' = satp,
           kpc' \in Unmapped => kpc \in Unmapped, OwnedPages' = tables'
    PROVE  KInv'
  <1>1. region' = region /\ \A p \in Ram : p \notin region => mem'[p] = mem[p]
    BY AllocatorStep, RegionWrites DEF MInv
  <1>2. ImageUntouched'
    <2>1. ASSUME NEW p \in Ram, p * PAGE_SIZE < pages_bottom PROVE p \notin region
      <3>1. p * PAGE_SIZE \in Int /\ pages_bottom \in Int
        BY SizeAssumption, RamAssumption, KernelAssumption DEF Ram
      <3> QED BY <2>1, <3>1 DEF KInv
    <2> QED BY <1>1, <2>1 DEF KInv, ImageUntouched, Untouched
  <1> QED BY <1>1, <1>2 DEF KInv

\* Every step of kinit keeps it.
THEOREM KernelInductive == MInv /\ MapInv /\ KInv /\ [KernelNext]_kernelVars => KInv'
  <1> SUFFICES ASSUME MInv, MapInv, KInv, [KernelNext]_kernelVars PROVE KInv'
    OBVIOUS
  <1> USE DEF Reading, Unmapped, Booted
  <1>1. CASE kinit_validate
    BY <1>1, KInvStays DEF kinit_validate, callVars
  <1>2. CASE kinit_dump \/ kinit_log
    <2>1. CASE kinit_dump
      BY <2>1, KInvStays DEF kinit_dump, mmuVars, allocVars, callVars
    <2>2. CASE kinit_log
      BY <2>2, KInvStays DEF kinit_log, mmuVars, allocVars, callVars
    <2> QED BY <1>2, <2>1, <2>2
  <1>3. CASE kinit_loop \/ kernel_interrupt \/ kernel_stopped \/ UNCHANGED kernelVars
    BY <1>3, KInvStays DEF kinit_loop, kernel_interrupt, kernel_stopped, Interrupt, Trap, Stopped,
                           kernelVars, mmuVars, allocVars, callVars
  <1>4. CASE kinit_alloc
    <2>1. PICK first, last : /\ first = FirstPage(mem_start)
                             /\ last = FirstPage(mem_start) + PageCount(mem_start, mem_size) - 1
      OBVIOUS
    <2>2. /\ kpc = "alloc" /\ kpc' = "new" /\ fdt' = fdt
          /\ mem' = Linked(first, last) /\ region' = first .. last
          /\ UNCHANGED <<satp, owned, tables>>
      BY <1>4, <2>1 DEF kinit_alloc, init_page_alloc
    <2>3. \A p \in region' : pages_bottom <= p * PAGE_SIZE
      BY <2>1, <2>2, KinitRange
    <2>4. ImageUntouched'
      <3>1. ASSUME NEW p \in Ram, p * PAGE_SIZE < pages_bottom PROVE mem'[p] = mem[p]
        <4>1. p * PAGE_SIZE \in Int /\ pages_bottom \in Int
          BY SizeAssumption, RamAssumption, KernelAssumption DEF Ram
        <4>2. p \notin first .. last
          BY <2>2, <2>3, <3>1, <4>1
        <4> QED BY <2>2, <4>2 DEF Linked
      <3> QED BY <3>1 DEF KInv, ImageUntouched, Untouched
    <2>5. OwnedPages' = OwnedPages
      BY <2>2 DEF OwnedPages
    <2> QED BY <2>2, <2>3, <2>4, <2>5 DEF KInv
  <1>5. CASE kinit_new_page_table
    <2>1. CASE mmu_new_page_table
      <3>1. /\ kpc = "new" /\ kpc' = "set" /\ fdt' = fdt /\ alloc_page(TRUE)
            /\ tables' = tables \union {AllocatedPtr.page}
        BY <1>5, <2>1 DEF kinit_new_page_table, mmu_new_page_table
      <3>2. /\ OwnedPages' = OwnedPages \union {AllocatedPtr.page} /\ status = "running"
        BY <3>1, AllocChanges
      <3>3. [MmuNext]_mmuVars /\ satp' = satp
        BY <2>1, <3>1 DEF MmuNext, MmuCall, StartCall, alloc_page
      <3>4. OwnedPages' = tables'
        BY <3>1, <3>2 DEF KInv
      <3> QED BY <3>1, <3>2, <3>3, <3>4, KInvCall
    <2>2. CASE mmu_new_page_table_panic
      BY <1>5, <2>2, KInvStays DEF kinit_new_page_table, mmu_new_page_table_panic, alloc_page_panic,
                                   callVars
    <2> QED BY <1>5, <2>1, <2>2 DEF kinit_new_page_table
  <1>6. CASE kinit_set_mmu
    <2>1. PICK root \in ready : activate(root)
      BY <1>6 DEF kinit_set_mmu
    <2>2. /\ kpc = "set" /\ kpc' = "log" /\ fdt' = fdt /\ satp' = root /\ pc' \in {"idle", "fetch"}
          /\ UNCHANGED <<mem, region, owned, tables, ready>>
      BY <1>6, <2>1 DEF kinit_set_mmu, activate, set_mmu
    <2>3. root.top = "zero"
      <3>1. satp = NULL
        BY <2>2 DEF KInv
      <3> QED BY <3>1, LiveRoots DEF MapInv, AllPhysical
    <2>4. ImageUntouched' /\ OwnedPages' = OwnedPages
      BY <2>2 DEF KInv, ImageUntouched, Untouched, OwnedPages
    <2> QED BY <2>2, <2>3, <2>4 DEF KInv
  <1>7. CASE kinit_call
    <2>1. kpc' = kpc /\ fdt' = fdt /\ CallStep
      BY <1>7 DEF kinit_call
    <2>2. CASE fetch_fault \/ mmu_entry_panic \/ mmu_entry_wild
      <3>1. CASE mmu_entry_panic
        BY <2>1, <3>1, KInvStays DEF mmu_entry_panic, alloc_page_panic, callVars
      <3>2. CASE fetch_fault \/ mmu_entry_wild
        BY <2>1, <3>2, KInvStays DEF fetch_fault, mmu_entry_wild, Trap, callVars
      <3> QED BY <2>2, <3>1, <3>2
    <2>3. CASE ~(fetch_fault \/ mmu_entry_panic \/ mmu_entry_wild)
      <3>1. status = "running" /\ pc \notin {"idle", "fetch"} /\ satp' = satp
        BY <2>1, <2>3 DEF CallStep, InnerStep, mmu_entry_alloc, EntryAlloc, InLoop, alloc_page,
           mmu_entry_link, EntryLink, mmu_entry_descend, identity_map, IdentityMapPage,
           map_top_half, map_top_half_entry, StoreTopHalf, mmu_new_page_table_return,
           mmu_map_store, MapStore, EntryFound, allocVars
      <3>2. kpc \notin Reading \union Booted
        BY <3>1 DEF KInv, Fresh
      <3>3. [MmuNext]_mmuVars
        BY <2>1 DEF MmuNext
      <3>4. OwnedPages' = tables'
        <4>1. CASE mmu_entry_alloc
          <5>1. alloc_page(TRUE) /\ tables' = tables \union {AllocatedPtr.page}
            BY <4>1 DEF mmu_entry_alloc, EntryAlloc
          <5> QED BY <5>1, AllocChanges DEF KInv
        <4>2. CASE ~mmu_entry_alloc
          <5>1. UNCHANGED <<owned, tables>>
            BY <2>1, <2>3, <4>2 DEF CallStep, InnerStep, mmu_entry_link, EntryLink,
               mmu_entry_descend, identity_map, IdentityMapPage, map_top_half, map_top_half_entry,
               StoreTopHalf, mmu_new_page_table_return, mmu_map_store, MapStore, allocVars
          <5> QED BY <5>1 DEF KInv, OwnedPages
        <4> QED BY <4>1, <4>2
      <3> QED BY <2>1, <3>1, <3>2, <3>3, <3>4, KInvCall
    <2> QED BY <2>2, <2>3
  <1> QED BY <1>1, <1>2, <1>3, <1>4, <1>5, <1>6, <1>7 DEF KernelNext, Boot

\* Every reachable state of booting satisfies the three invariants.
THEOREM KernelInvariance == KernelSpec => [](MInv /\ MapInv /\ KInv)
  <1>1. KernelInit => MInv /\ MapInv /\ KInv
    BY InitMInv, InitMapInv, InitKInv DEF KernelInit
  <1>2. ASSUME MInv, MapInv, KInv, [KernelNext]_kernelVars PROVE MInv' /\ MapInv' /\ KInv'
    <2>1. CASE [MmuNext]_mmuVars
      BY <1>2, <2>1, KinitCallers, MmuInductive, MapInductive, KernelInductive
    <2>2. CASE NoTree
      BY <1>2, <2>2, NoTreeStep, KernelInductive
    <2> QED BY <1>2, <2>1, <2>2, KernelStep
  <1> QED BY <1>1, <1>2, PTL DEF KernelSpec

\* No byte of the device tree is overwritten before kinit has read it.
THEOREM TreeIntact == KernelSpec => []TreeIntactWhenRead
  <1>1. KInv => TreeIntactWhenRead
    <2> SUFFICES ASSUME KInv, kpc \in {"validate", "dump"}, NEW p \in fdt.pages PROVE Untouched(p)
      BY DEF TreeIntactWhenRead
    <2>1. p \in Ram
      BY FdtAssumption DEF KInv
    <2> QED BY <2>1 DEF KInv, Reading, Fresh, Untouched
  <1> QED BY <1>1, KernelInvariance, PTL

\* Booting writes nothing below pages_bottom.
THEOREM ImageSafe == KernelSpec => []ImageUntouched
  <1>1. KInv => ImageUntouched
    BY DEF KInv
  <1> QED BY <1>1, KernelInvariance, PTL

\* When kinit has switched to its page table, the kernel is mapped by it.
THEOREM BootedWell == KernelSpec => []BootedOnGoodTable
  <1>1. ASSUME MInv, MapInv, KInv PROVE BootedOnGoodTable
    <2>1. KernelStaysMapped
      BY <1>1, KinitCallers, KernelStaysNow
    <2> QED BY <1>1, <2>1 DEF KInv, Booted, BootedOnGoodTable, get_mmu, KernelStaysMapped
  <1> QED BY <1>1, KernelInvariance, PTL
=============================================================================
