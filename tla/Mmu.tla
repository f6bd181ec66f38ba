-------------------------------- MODULE Mmu --------------------------------
(***************************************************************************)
(* Sv39 page tables (src/mmu.c), built in pages of the allocator.  Calls   *)
(* are run step by step, so that running out of pages or trapping half-way *)
(* through a call is visible; each step touches at most one word of memory *)
(* and is therefore a step of PageAlloc as well (AllocSpec below).         *)
(* Addresses are page numbers: the offset within the page passes through   *)
(* every conversion unchanged.                                             *)
(***************************************************************************)
EXTENDS PageAlloc, FiniteSets

CONSTANTS
    PTE_SPAN,       \* PTE_MASK + 1: values of the level-1 index
    LEAF_SPAN,      \* PAGE_MASK + 1: values of the level-0 index
    SIGN_BITS,      \* what sign extension adds to the level-2 index
    text_start, ro_data_start, data_start, pages_bottom,   \* bytes, kernel.ld
    MapVirt,        \* the virtual pages that callers of mmu_map use
    MapFlags,       \* the flag sets they use
    MaxHeld         \* how many data pages they hold at once (a bound)

Flag == {"VALID", "READ", "WRITE", "EXEC", "USER", "GLOBAL", "ACCESSED", "DIRTY"}

\* One level-2 entry covers a gigapage; the lower half of the address space is
\* what the first half of the level-2 entries covers.
GigaPage == ENTRY_COUNT * ENTRY_COUNT
LowHalf == (ENTRY_COUNT \div 2) * GigaPage
VirtPage == 0 .. 2 * LowHalf - 1
High(p) == LowHalf + p          \* the page at phys2virt(p)

Pte == [ppn : 0 .. LowHalf - 1, top : Top, flags : SUBSET Flag]
EntryFlags(w) == IF w \in Pte THEN w.flags ELSE {}

ASSUME GeometryAssumption ==
    /\ PTE_SPAN \in 1 .. ENTRY_COUNT /\ LEAF_SPAN \in Nat \ {0}
    /\ SIGN_BITS \in Nat /\ RamEnd <= LowHalf /\ ENTRY_COUNT % 2 = 0
\* A sign-extended index reaches past the end of RAM from any of its pages.
ASSUME SignAssumption == ENTRY_COUNT * (RamEnd - RamStart) <= SIGN_BITS
\* NULL is neither an entry nor the place of one.
ASSUME PteAssumption ==
    NULL \notin Pte /\ NULL \notin [entry : [page : Ram, slot : Slot]]
ASSUME KernelAssumption ==
    /\ {text_start, ro_data_start, data_start, pages_bottom} \subseteq Nat
    /\ text_start <= ro_data_start /\ ro_data_start <= data_start
    /\ data_start <= pages_bottom
    /\ RamStart * PAGE_SIZE <= text_start /\ pages_bottom <= RamEnd * PAGE_SIZE
    /\ ro_data_start % PAGE_SIZE = 0 /\ data_start % PAGE_SIZE = 0     \* ALIGN(4096)
ASSUME MapAssumption == MapVirt \subseteq VirtPage /\ MapFlags \subseteq SUBSET Flag

VARIABLES
    pc,         \* "idle", or the step of the call in progress
    caller,     \* where mmu_map returns to: "idle" or "identity"
    mmu,        \* the page table being built or changed
    arg,        \* the arguments of the mmu_map call in progress
    level,      \* i in mmu_entry; also i in the loop over the top half
    table,      \* table in mmu_entry
    page,       \* page in mmu_entry: a table allocated but not yet linked
    todo,       \* the pages identity_map has still to map
    tables,     \* history: the pages used as page tables
    ready,      \* history: what mmu_new_page_table returned
    mapped      \* history: the mmu_map calls that returned, latest per page

callVars == <<pc, caller, mmu, arg, level, table, page, todo>>
mmuVars == <<allocVars, callVars, tables, ready, mapped>>

MmuInit ==
    /\ AllocInit
    /\ pc = "idle" /\ caller = "idle" /\ level = 0
    /\ mmu = NULL /\ arg = NULL /\ table = NULL /\ page = NULL
    /\ todo = <<>>
    /\ tables = {} /\ ready = {} /\ mapped = {}

----------------------------------------------------------------------------
(* Table indices and words *)

\* The index that mmu_entry computes at level i.  At level 2 the shifted mask
\* overflows an int and sign extends, so no upper bit is masked off; at level 1
\* the mask has only the bits of PTE_MASK; at level 0 it has those of PAGE_MASK.
TableIndex(virt, i) ==
    CASE i = 2 -> virt \div GigaPage + (IF virt < LowHalf THEN 0 ELSE SIGN_BITS)
      [] i = 1 -> (virt \div ENTRY_COUNT) % PTE_SPAN
      [] i = 0 -> virt % LEAF_SPAN

\* The index that the hardware uses at level i, and what an entry there spans.
HwIndex(v, i) == CASE i = 2 -> v \div GigaPage
                   [] i = 1 -> (v \div ENTRY_COUNT) % ENTRY_COUNT
                   [] i = 0 -> v % ENTRY_COUNT
HwSpan(i) == CASE i = 2 -> GigaPage [] i = 1 -> ENTRY_COUNT [] i = 0 -> 1

\* The pages of the lower half for which mmu_entry computes those indices.
Window == {v \in 0 .. LowHalf - 1 :
              /\ TableIndex(v, 1) = HwIndex(v, 1)
              /\ TableIndex(v, 0) = HwIndex(v, 0)}

\* &t[index] as a page and a word in it: an index past the end of the table
\* reaches into the pages that follow it.
EntryPage(t, index) == t.page + index \div ENTRY_COUNT
EntrySlot(index) == index % ENTRY_COUNT
Load(t, index) == mem[EntryPage(t, index)][EntrySlot(index)]

\* "!(entry & M_VALID) || (!(entry & M_READ) && (entry & M_WRITE))"
Missing(w) == \/ "VALID" \notin EntryFlags(w)
              \/ "READ" \notin EntryFlags(w) /\ "WRITE" \in EntryFlags(w)
IsLeaf(w) == EntryFlags(w) \intersect {"READ", "EXEC"} # {}
TableOf(w) == make_accessible([page |-> w.ppn, top |-> w.top])

Store(t, index, w) ==
    mem' = [mem EXCEPT ![EntryPage(t, index)][EntrySlot(index)] = w]

----------------------------------------------------------------------------
(* mmu_map and the walk it does in mmu_entry *)

StartMap(root, virt, phys, flags, from) ==
    /\ pc' = "walk"
    /\ caller' = from
    /\ mmu' = root
    /\ arg' = [virt |-> virt, phys |-> phys, flags |-> flags \union {"VALID"}]
    /\ level' = 2
    /\ table' = make_accessible(root)

mmu_map(root, virt, phys, flags) ==
    /\ status = "running" /\ pc = "idle"
    /\ StartMap(root, virt, phys, flags, "idle")
    /\ UNCHANGED <<allocVars, page, todo, tables, ready, mapped>>

Index == TableIndex(arg.virt, level)
InLoop == status = "running" /\ pc = "walk" /\ level > 0
                             /\ EntryPage(table, Index) \in Ram

\* A missing level is allocated ...
EntryAlloc(clear) ==
    /\ InLoop /\ Missing(Load(table, Index))
    /\ alloc_page(clear)
    /\ page' = AllocatedPtr
    /\ tables' = tables \union {AllocatedPtr.page}
    /\ pc' = "link"
    /\ UNCHANGED <<caller, mmu, arg, level, table, todo, ready, mapped>>

\* Mutant: the new table is not cleared.
mmu_entry_alloc_garbage == EntryAlloc(FALSE)

mmu_entry_alloc == EntryAlloc(TRUE)

mmu_entry_panic ==
    /\ InLoop /\ Missing(Load(table, Index))
    /\ alloc_page_panic
    /\ UNCHANGED <<callVars, tables, ready, mapped>>

\* ... and linked from the entry of t that lacked it.
EntryLink(t) ==
    /\ status = "running" /\ pc = "link"
    /\ Store(t, Index, [ppn |-> page.page, top |-> page.top, flags |-> {"VALID"}])
    /\ table' = make_accessible(page)
    /\ level' = level - 1
    /\ pc' = "walk"
    /\ UNCHANGED <<status, free_list, satp, region, chain, owned,
                   caller, mmu, arg, page, todo, tables, ready, mapped>>

\* Mutant: the entry is written into the new table.
mmu_entry_link_swapped == EntryLink(page)

mmu_entry_link == EntryLink(table)

mmu_entry_descend ==
    LET entry == Load(table, Index) IN
    /\ InLoop /\ ~Missing(entry) /\ ~IsLeaf(entry)
    /\ table' = TableOf(entry)
    /\ level' = level - 1
    /\ UNCHANGED <<allocVars, pc, caller, mmu, arg, page, todo, tables, ready, mapped>>

\* Mutant: the loop ends a level too early.
EntryFound_above ==
    /\ status = "running" /\ pc = "walk"
    /\ EntryPage(table, Index) \in Ram
    /\ level <= 1

\* mmu_entry returns early at a leaf of a higher level, else at level 0.
EntryFound ==
    /\ status = "running" /\ pc = "walk"
    /\ EntryPage(table, Index) \in Ram
    /\ level = 0 \/ (~Missing(Load(table, Index)) /\ IsLeaf(Load(table, Index)))

\* mmu_map stores the new entry and returns.
MapStore(index) ==
    /\ EntryFound
    /\ EntryPage(table, index) \in Ram
    /\ Store(table, index, [ppn |-> arg.phys.page, top |-> arg.phys.top, flags |-> arg.flags])
    /\ mapped' = {m \in mapped : m.mmu # mmu \/ m.virt # arg.virt} \union
                 {[mmu |-> mmu, virt |-> arg.virt, phys |-> arg.phys,
                   flags |-> arg.flags, early |-> ~mmu_enabled]}
    /\ pc' = caller
    /\ UNCHANGED <<status, free_list, satp, region, chain, owned,
                   caller, mmu, arg, level, table, page, todo, tables, ready>>

\* Mutant: the entry after the one found is written.
mmu_map_store_next == MapStore(Index + 1)

mmu_map_store == MapStore(Index)

\* A load or store of a word outside RAM traps.
mmu_entry_wild ==
    /\ pc = "walk" /\ EntryPage(table, Index) \notin Ram
    /\ Trap
    /\ UNCHANGED <<callVars, tables, ready, mapped>>

----------------------------------------------------------------------------
(* mmu_new_page_table *)

PAGE_ALIGN_PREV(addr) == (addr \div PAGE_SIZE) * PAGE_SIZE

\* The mmu_map calls of identity_map(mmu, start, end, flags), in order.
IdentityMap(start, end, flags) ==
    LET first == PAGE_ALIGN_PREV(start) \div PAGE_SIZE
        last == PAGE_ALIGN(end) \div PAGE_SIZE - 1
    IN  [i \in 1 .. last - first + 1 |-> [virt |-> first + i - 1, flags |-> flags]]

KernelPages ==
    IdentityMap(text_start, ro_data_start, {"GLOBAL", "EXEC"}) \o
    IdentityMap(ro_data_start, data_start, {"GLOBAL", "READ"}) \o
    IdentityMap(data_start, pages_bottom, {"GLOBAL", "READ", "WRITE"})

\* kernel.ld links the kernel at 0x80050000, within the window.
ASSUME WindowAssumption ==
    \A i \in 1 .. Len(KernelPages) : KernelPages[i].virt \in Window

mmu_new_page_table ==
    /\ pc = "idle"
    /\ alloc_page(TRUE)
    /\ mmu' = AllocatedPtr
    /\ tables' = tables \union {AllocatedPtr.page}
    /\ todo' = KernelPages
    /\ pc' = "identity"
    /\ UNCHANGED <<caller, arg, level, table, page, ready, mapped>>

mmu_new_page_table_panic ==
    /\ pc = "idle"
    /\ alloc_page_panic
    /\ UNCHANGED <<callVars, tables, ready, mapped>>

\* One turn of the loop, after which rest is still to be mapped.
IdentityMapPage(rest) ==
    /\ status = "running" /\ pc = "identity" /\ todo # <<>>
    /\ StartMap(mmu, Head(todo).virt, [page |-> Head(todo).virt, top |-> "zero"],
                Head(todo).flags, "identity")
    /\ todo' = rest
    /\ UNCHANGED <<allocVars, page, tables, ready, mapped>>

\* Mutant: the loop does not advance.
identity_map_stuck == IdentityMapPage(todo)

identity_map == IdentityMapPage(Tail(todo))

map_top_half ==
    /\ status = "running" /\ pc = "identity" /\ todo = <<>>
    /\ table' = make_accessible(mmu)
    /\ level' = ENTRY_COUNT \div 2
    /\ pc' = "tophalf"
    /\ UNCHANGED <<allocVars, caller, mmu, arg, page, todo, tables, ready, mapped>>

\* The entry the loop over the top half stores at index i.
\* Mutant: the loop forgets to subtract the first index of the half.
TopHalfEntry_unshifted(i) ==
    [ppn |-> (i * GigaPage) % LowHalf, top |-> IF i * GigaPage < LowHalf THEN "zero" ELSE "bit38",
     flags |-> {"GLOBAL", "READ", "WRITE", "VALID"}]

TopHalfEntry(i) ==
    [ppn |-> (i - ENTRY_COUNT \div 2) * GigaPage, top |-> "zero",
     flags |-> {"GLOBAL", "READ", "WRITE", "VALID"}]

\* The entries that the calls store are words that holders of pages may store.
Entry(p, t, f) == [ppn |-> p, top |-> t, flags |-> f \union {"VALID"}]
Entries ==
    {Entry(p, t, f) : p \in Ram, t \in Top, f \in MapFlags \union {{}}}
    \union {Entry(KernelPages[i].virt, "zero", KernelPages[i].flags) : i \in 1 .. Len(KernelPages)}
    \union {TopHalfEntry(i) : i \in ENTRY_COUNT \div 2 .. ENTRY_COUNT - 1}
ASSUME EntriesAssumption == Entries \subseteq Data

StoreTopHalf(last) ==
    /\ status = "running" /\ pc = "tophalf" /\ level <= last
    /\ Store(table, level, TopHalfEntry(level))
    /\ level' = level + 1
    /\ UNCHANGED <<status, free_list, satp, region, chain, owned,
                   pc, caller, mmu, arg, table, page, todo, tables, ready, mapped>>

\* Mutant: the loop runs one entry past the end of the table.
map_top_half_entry_past_end == StoreTopHalf(ENTRY_COUNT)

map_top_half_entry == StoreTopHalf(ENTRY_COUNT - 1)

mmu_new_page_table_return ==
    /\ status = "running" /\ pc = "tophalf" /\ level = ENTRY_COUNT
    /\ pc' = "idle"
    /\ ready' = ready \union {mmu}
    /\ UNCHANGED <<allocVars, caller, mmu, arg, level, table, page, todo, tables, mapped>>

----------------------------------------------------------------------------
(* mmu_walk, get_mmu and set_mmu *)

\* A walk without allocation ends with the address of an entry, NULL, or a
\* load outside RAM.
Trapped == [trap |-> TRUE]
At(t, index) == [entry |-> [page |-> EntryPage(t, index), slot |-> EntrySlot(index)]]

\* mmu_entry(root, virt, false): its loop over levels 2 and 1 and the last index.
mmu_entry(root, virt) ==
    LET Visit(t, i, Continue(_)) ==
            LET index == TableIndex(virt, i) IN
            IF EntryPage(t, index) \notin Ram THEN Trapped
            ELSE IF Missing(Load(t, index)) THEN NULL
            ELSE IF IsLeaf(Load(t, index)) THEN At(t, index)
            ELSE Continue(TableOf(Load(t, index)))
        Level0(t) == At(t, TableIndex(virt, 0))
        Level1(t) == Visit(t, 1, Level0)
    IN  Visit(make_accessible(root), 2, Level1)

\* What mmu_walk returns for an address on page virt.
mmu_walk(root, virt) ==
    LET found == mmu_entry(root, virt) IN
    IF found \in {NULL, Trapped} THEN found
    ELSE IF found.entry.page \notin Ram THEN Trapped
    ELSE LET w == mem[found.entry.page][found.entry.slot] IN
         IF "VALID" \notin EntryFlags(w) THEN NULL ELSE TableOf(w)

get_mmu == satp

(***************************************************************************)
(* The hardware's translation of virtual page v (RISC-V privileged manual, *)
(* Sv39): three indices of equal width, physical addresses used as stored. *)
(***************************************************************************)
Fault == [page |-> -1, flags |-> {}]

HwWalk(root, v) ==
    LET Visit(t, i, Continue(_)) ==
            IF t.top # "zero" \/ t.page \notin Ram THEN Fault
            ELSE LET w == mem[t.page][HwIndex(v, i)] IN
                 IF Missing(w) THEN Fault
                 ELSE IF ~IsLeaf(w) THEN Continue([page |-> w.ppn, top |-> w.top])
                 ELSE IF w.top # "zero" \/ w.ppn % HwSpan(i) # 0 THEN Fault
                 ELSE [page |-> w.ppn + (v % HwSpan(i)), flags |-> w.flags]
        Stop(t) == Fault
        Level0(t) == Visit(t, 0, Stop)
        Level1(t) == Visit(t, 1, Level0)
    IN  Visit(root, 2, Level1)

\* The instruction after "csrw satp" is fetched through the new page table.
TextPages == PAGE_ALIGN_PREV(text_start) \div PAGE_SIZE ..
             PAGE_ALIGN(ro_data_start) \div PAGE_SIZE - 1
Executable(root) == \A v \in TextPages : /\ HwWalk(root, v).page = v
                                         /\ "EXEC" \in HwWalk(root, v).flags

activate(root) ==
    /\ pc = "idle"
    /\ set_mmu(root)
    /\ pc' = IF Executable(root) THEN "idle" ELSE "fetch"
    /\ UNCHANGED <<caller, mmu, arg, level, table, page, todo, tables, ready, mapped>>

fetch_fault ==
    /\ pc = "fetch"
    /\ Trap
    /\ UNCHANGED <<callVars, tables, ready, mapped>>

----------------------------------------------------------------------------
(* The callers *)

\* What mmu_map asks of its callers beyond what it says: virtual pages of the
\* window (those of the upper half trap), not the kernel's, and flags of a leaf.
CallersInWindow ==
    \A v \in MapVirt : v < LowHalf => v \in Window
CallersSpareKernel ==
    \A i \in 1 .. Len(KernelPages) : KernelPages[i].virt \notin MapVirt
CallersMapLeaves ==
    \A f \in MapFlags : "READ" \in f \/ ("EXEC" \in f /\ "WRITE" \notin f)

\* Between calls the kernel uses the allocator directly.  It keeps the pages it
\* has mapped, for there is no operation that unmaps one.
Unshared(ptr) == /\ ptr.page \notin tables
                 /\ \A m \in mapped : m.phys.page # ptr.page
DataPages == {ptr \in owned : ptr.page \notin tables}

AllocatorCall ==
    /\ pc = "idle"
    /\ \/ \E a \in InitArgs : init_page_alloc(a.start, a.size)
       \/ Cardinality(DataPages) < MaxHeld /\ (alloc_page(FALSE) \/ alloc_page_panic)
       \/ \E ptr \in owned : Unshared(ptr) /\ free_page(ptr)
    /\ UNCHANGED <<callVars, tables, ready, mapped>>

Interrupt == Trap /\ UNCHANGED <<callVars, tables, ready, mapped>>

Stopped == status \in {"panic", "trap"} /\ UNCHANGED mmuVars

StartCall ==
    \/ mmu_new_page_table \/ mmu_new_page_table_panic
    \/ \E root \in ready, virt \in MapVirt, phys \in DataPages, flags \in MapFlags :
          mmu_map(root, virt, phys, flags)

\* The steps by which a call in progress gets on, before mmu_map returns.
InnerStep ==
    \/ mmu_entry_alloc \/ mmu_entry_panic \/ mmu_entry_link \/ mmu_entry_descend
    \/ mmu_entry_wild
    \/ identity_map \/ map_top_half \/ map_top_half_entry
    \/ mmu_new_page_table_return
    \/ fetch_fault

CallStep == InnerStep \/ mmu_map_store

MmuCall == StartCall \/ \E root \in ready : activate(root)

MmuNext == AllocatorCall \/ MmuCall \/ CallStep \/ Interrupt \/ Stopped

MmuSafeSpec == MmuInit /\ [][MmuNext]_mmuVars

\* A call that has begun runs on: there is one hart and nothing preempts it.
MmuSpec == MmuSafeSpec /\ WF_mmuVars(CallStep)

----------------------------------------------------------------------------
(* Properties *)

\* Every variable has its type.
MmuTypeOK ==
    /\ AllocTypeOK
    /\ pc \in {"idle", "walk", "link", "identity", "tophalf", "fetch"}
    /\ caller \in {"idle", "identity"}
    /\ {mmu, table, page} \subseteq Ptr \union {NULL}
    /\ arg \in [virt : VirtPage, phys : Ptr, flags : SUBSET Flag] \union {NULL}
    /\ level \in 0 .. ENTRY_COUNT
    /\ todo \in Seq([virt : VirtPage, flags : SUBSET Flag])
    /\ tables \subseteq Ram /\ ready \subseteq Ptr
    /\ mapped \subseteq [mmu : Ptr, virt : VirtPage, phys : Ptr,
                         flags : SUBSET Flag, early : BOOLEAN]

\* Every step of every call is a step of the allocator's specification: page
\* tables are only ever built in pages that alloc_page has handed out, even
\* when the call runs out of pages or is interrupted half-way.
ImplementsAlloc == AllocSpec

\* The calls write page tables and nothing else: in particular they leave alone
\* the pages that the caller holds and maps (mmu_entry, mmu_map).
OnlyTablesWritten ==
    [][pc # "idle" => \A p \in Ram \ tables' : mem'[p] = mem[p]]_mmuVars

\* mmu_walk returns the page given to the latest mmu_map of the address, and
\* NULL when there was none (mmu.c: "returns NULL if there is no valid
\* translation for the provided virtual address"), for addresses of the lower
\* half; for the upper half the level-2 index is beyond RAM and the walk traps.
WalkFindsMaps ==
    status = "running" => \A root \in ready, v \in MapVirt : v < LowHalf =>
        LET maps == {m \in mapped : m.mmu = root /\ m.virt = v}
        IN  IF maps = {} THEN mmu_walk(root, v) = NULL
            ELSE \A m \in maps : mmu_walk(root, v) = make_accessible(m.phys)

\* What was mapped while translation was off is what the hardware will find
\* (mmu.c: "maps the given virtual address to the given physical address with
\* the given flags").
EarlyMapsReachHardware ==
    \A m \in mapped : m.early =>
        HwWalk(m.mmu, m.virt) = [page |-> m.phys.page, flags |-> m.flags]

\* The same, whenever it was mapped.
MapsReachHardware ==
    \A m \in mapped :
        HwWalk(m.mmu, m.virt) = [page |-> m.phys.page, flags |-> m.flags]

\* The kernel's sections are mapped to themselves, code neither readable nor
\* writable and data not executable, and all of RAM is readable and writable in
\* the upper half.
Section(start, end) == {p \in Ram : p * PAGE_SIZE < end /\ start < (p + 1) * PAGE_SIZE}
KernelMapped(root) ==
    LET Mapped(start, end, flags) ==
            \A v \in Section(start, end) :
                HwWalk(root, v) = [page |-> v, flags |-> flags \union {"VALID", "GLOBAL"}]
    IN  /\ Mapped(text_start, ro_data_start, {"EXEC"})
        /\ Mapped(ro_data_start, data_start, {"READ"})
        /\ Mapped(data_start, pages_bottom, {"READ", "WRITE"})
        /\ \A p \in Ram : HwWalk(root, High(p)) =
                             [page |-> p, flags |-> {"VALID", "GLOBAL", "READ", "WRITE"}]

\* A finished page table that can be activated keeps the kernel mapped, whatever
\* is mapped later and however it is interrupted (mmu_new_page_table, mmu_map).
KernelStaysMapped == \A root \in ready : root.top = "zero" => KernelMapped(root)

\* The page tables form trees of depth two: every table but a root is referenced
\* by exactly one entry, of a root or of a child of a root.  The one exception is
\* the table that mmu_entry has just allocated and is about to link.
References(p) == {e \in tables \X Slot :
                     LET w == mem[e[1]][e[2]]
                     IN  ~Missing(w) /\ ~IsLeaf(w) /\ w.ppn = p}
Roots == {root.page : root \in ready} \union
         (IF mmu # NULL THEN {mmu.page} ELSE {})
TableTree ==
    \A p \in tables :
        IF p \in Roots \/ (pc = "link" /\ p = page.page)
        THEN References(p) = {}
        ELSE \E e \in tables \X Slot :
                /\ References(p) = {e}
                /\ e[1] \in Roots \/ \E f \in References(e[1]) : f[1] \in Roots

\* Every call returns, unless the kernel stops.
CallReturns == pc # "idle" ~> (pc = "idle" \/ status # "running")
=============================================================================
