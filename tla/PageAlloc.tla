----------------------------- MODULE PageAlloc -----------------------------
(***************************************************************************)
(* The physical page allocator (src/pages.c): a singly linked list of free *)
(* pages whose links live in the first word of the free pages themselves.  *)
(* Memory is word addressed, because page tables (module Mmu) are built in *)
(* the same pages and their entry 0 is the word the allocator links with.  *)
(***************************************************************************)
EXTENDS Integers, Sequences

CONSTANTS
    RamStart, RamEnd,  \* RAM is the pages RamStart .. RamEnd - 1
    PAGE_SIZE,         \* bytes in a page
    ENTRY_COUNT,       \* words in a page
    InitArgs,          \* the (start, size) pairs init_page_alloc is called with
    NULL,              \* the null pointer, which is also the zero word
    Data,              \* the words that holders of pages store in them
    Junk               \* what uninitialised memory holds

ASSUME RamAssumption == RamStart \in Nat /\ RamEnd \in Nat
ASSUME SizeAssumption == PAGE_SIZE \in Nat \ {0} /\ ENTRY_COUNT \in Nat \ {0}

Ram == RamStart .. RamEnd - 1
Slot == 0 .. ENTRY_COUNT - 1

\* The caller's contract: what it hands over starts and ends inside RAM.
ASSUME InitArgsAssumption ==
    \A a \in InitArgs : /\ a.start \in Nat /\ a.size \in Nat
                        /\ RamStart * PAGE_SIZE <= a.start
                        /\ a.start + a.size <= RamEnd * PAGE_SIZE

(***************************************************************************)
(* Page-aligned addresses of RAM or of its end.  "top" is bits 63..38: all *)
(* zero for a physical address, all one for its alias in the upper 256 GB, *)
(* or just bit 38, which is what masking such an alias with SV39_MASK      *)
(* leaves.                                                                 *)
(***************************************************************************)
Top == {"zero", "bit38", "ones"}
Ptr == [page : RamStart .. RamEnd, top : Top]
ASSUME NullAssumption == NULL \notin Ptr

Word == Ptr \union {NULL} \union Data
ASSUME DataAssumption == Junk \in Data

phys2virt(a) == [a EXCEPT !.top = "ones"]
virt2phys(a) == [a EXCEPT !.top = IF @ = "zero" THEN "zero" ELSE "bit38"]

VARIABLES
    status,     \* "boot", "running", or stopped: "panic", "trap"
    free_list,  \* head of the list
    mem,        \* the words of every page of RAM
    satp,       \* root of the active page table, NULL while translation is off
    region,     \* history: the pages init_page_alloc was given
    chain,      \* history: the free pages in list order
    owned       \* history: the pointers handed out and not given back

allocVars == <<status, free_list, mem, satp, region, chain, owned>>

mmu_enabled == satp # NULL
make_accessible(a) == IF mmu_enabled THEN phys2virt(a) ELSE a

AllocInit ==
    /\ status = "boot"
    /\ free_list = NULL
    /\ mem = [p \in Ram |-> [s \in Slot |-> Junk]]
    /\ satp = NULL
    /\ region = {}
    /\ chain = <<>>
    /\ owned = {}

----------------------------------------------------------------------------
(* init_page_alloc *)

PAGE_ALIGN(addr) == ((addr + PAGE_SIZE - 1) \div PAGE_SIZE) * PAGE_SIZE

FirstPage(start) == PAGE_ALIGN(start) \div PAGE_SIZE

\* Mutant: the part of the first page that alignment drops is not deducted.
PageCount_ignores_alignment(start, size) == size \div PAGE_SIZE

PageCount(start, size) ==
    (size + start - PAGE_ALIGN(start)) \div PAGE_SIZE

\* The word that the loop leaves in page p when pages first..last are linked.
Link(p, last) == IF p = last THEN NULL ELSE [page |-> p + 1, top |-> "zero"]

Linked(first, last) ==
    [p \in Ram |-> IF p \in first .. last
                   THEN [mem[p] EXCEPT ![0] = Link(p, last)]
                   ELSE mem[p]]

init_page_alloc(start, size) ==
    LET first == FirstPage(start)
        count == PageCount(start, size)
    IN  /\ status = "boot"
        /\ count > 0
        /\ status' = "running"
        /\ free_list' = [page |-> first, top |-> "zero"]
        /\ mem' = Linked(first, first + count - 1)
        /\ region' = first .. first + count - 1
        /\ chain' = [i \in 1 .. count |-> first + i - 1]
        /\ UNCHANGED <<satp, owned>>

\* With no whole page to manage, "count - 1" wraps round: the loop links page
\* after page and stops at the first store beyond the end of RAM.
init_page_alloc_runaway(start, size) ==
    /\ status = "boot"
    /\ PageCount(start, size) <= 0
    /\ status' = "trap"
    /\ free_list' = [page |-> FirstPage(start), top |-> "zero"]
    /\ mem' = Linked(FirstPage(start), RamEnd)
    /\ UNCHANGED <<satp, region, chain, owned>>

----------------------------------------------------------------------------
(* alloc_page and free_page *)

\* The page's words when alloc_page returns it.
\* Mutant: the clear loop stops one word short of the end of the page.
AllocatedWords_short(clear) ==
    [s \in Slot |-> IF s = 0 \/ (clear /\ s < ENTRY_COUNT - 1)
                    THEN NULL ELSE mem[free_list.page][s]]

AllocatedWords(clear) ==
    [s \in Slot |-> IF s = 0 \/ clear THEN NULL ELSE mem[free_list.page][s]]

\* What alloc_page returns.
AllocatedPtr == virt2phys(make_accessible(free_list))

\* Mutant: the head is not advanced.
alloc_page_same_head(clear) ==
    /\ status = "running"
    /\ free_list # NULL
    /\ mem' = [mem EXCEPT ![free_list.page] = AllocatedWords(clear)]
    /\ owned' = owned \union {AllocatedPtr}
    /\ UNCHANGED <<free_list, chain, status, satp, region>>

alloc_page(clear) ==
    /\ status = "running"
    /\ free_list # NULL
    /\ free_list' = mem[free_list.page][0]
    /\ mem' = [mem EXCEPT ![free_list.page] = AllocatedWords(clear)]
    /\ owned' = owned \union {AllocatedPtr}
    /\ chain' = Tail(chain)
    /\ UNCHANGED <<status, satp, region>>

\* Mutant: the test for an empty list is inverted.
alloc_page_panic_early ==
    /\ status = "running"
    /\ free_list # NULL
    /\ status' = "panic"
    /\ UNCHANGED <<free_list, mem, satp, region, chain, owned>>

alloc_page_panic ==
    /\ status = "running"
    /\ free_list = NULL
    /\ status' = "panic"
    /\ UNCHANGED <<free_list, mem, satp, region, chain, owned>>

\* Mutant: the list is written through the head instead of the freed page.
free_page_wrong_block(ptr) ==
    /\ status = "running"
    /\ mem' = IF free_list = NULL THEN mem
              ELSE [mem EXCEPT ![free_list.page][0] = ptr]
    /\ free_list' = ptr
    /\ owned' = owned \ {ptr}
    /\ chain' = <<ptr.page>> \o chain
    /\ UNCHANGED <<status, satp, region>>

free_page(ptr) ==
    /\ status = "running"
    /\ mem' = [mem EXCEPT ![ptr.page][0] = free_list]
    /\ free_list' = ptr
    /\ owned' = owned \ {ptr}
    /\ chain' = <<ptr.page>> \o chain
    /\ UNCHANGED <<status, satp, region>>

----------------------------------------------------------------------------
(* The rest of the kernel, as far as the allocator can tell *)

\* The holder of a page writes a word of it.
OwnerWrite(ptr, s, w) ==
    /\ status = "running"
    /\ UNCHANGED <<status, free_list, satp, region, chain, owned>>
    /\ mem' = [mem EXCEPT ![ptr.page][s] = w]

\* Translation is switched to a page table the caller allocated.
set_mmu(mmu) ==
    /\ status = "running"
    /\ satp' = mmu
    /\ UNCHANGED <<status, free_list, mem, region, chain, owned>>

\* An interrupt or an exception, wherever the kernel is: interrupt_handler
\* only ever panics, so the allocator is never called again.
Trap ==
    /\ status \in {"boot", "running"}
    /\ status' = "trap"
    /\ UNCHANGED <<free_list, mem, satp, region, chain, owned>>

\* panic ends in an endless loop.
Halted == status \in {"panic", "trap"} /\ UNCHANGED allocVars

AllocNext ==
    \/ \E a \in InitArgs : \/ init_page_alloc(a.start, a.size)
                           \/ init_page_alloc_runaway(a.start, a.size)
    \/ \E clear \in BOOLEAN : alloc_page(clear)
    \/ alloc_page_panic
    \/ \E ptr \in owned : \/ free_page(ptr)
                          \/ \E s \in Slot, w \in Data : OwnerWrite(ptr, s, w)
                          \/ set_mmu(ptr)
    \/ Trap
    \/ Halted

AllocSpec == AllocInit /\ [][AllocNext]_allocVars

----------------------------------------------------------------------------
(* Properties *)

OwnedPages == {ptr.page : ptr \in owned}
FreePages == {chain[i] : i \in 1 .. Len(chain)}

\* Every variable has its type: the one type invariant of the module.
AllocTypeOK ==
    /\ status \in {"boot", "running", "panic", "trap"}
    /\ free_list \in Ptr \union {NULL}
    /\ mem \in [Ram -> [Slot -> Word]]
    /\ satp \in Ptr \union {NULL}
    /\ region \subseteq Ram
    /\ chain \in Seq(Ram)
    /\ owned \subseteq Ptr

\* Following the links in memory from free_list visits exactly the free pages,
\* in order, and ends with NULL (pages.c: the list built by init_page_alloc,
\* popped by alloc_page and pushed by free_page is never cut, looped or forked).
ListInMemory ==
    status \in {"running", "panic"} =>
        /\ free_list = NULL <=> chain = <<>>
        /\ chain # <<>> => free_list.page = chain[1]
        /\ \A i \in 1 .. Len(chain) :
              LET next == mem[chain[i]][0]
              IN  IF i = Len(chain) THEN next = NULL
                  ELSE next \in Ptr /\ next.page = chain[i + 1]

\* No page is on the list twice, none is both free and handed out, none is
\* handed out twice, and none of the region is lost (alloc_page, free_page).
EveryPageOnce ==
    /\ \A i, j \in 1 .. Len(chain) : chain[i] = chain[j] => i = j
    /\ \A a, b \in owned : a.page = b.page => a = b
    /\ FreePages \intersect OwnedPages = {}
    /\ FreePages \union OwnedPages = region

\* init_page_alloc manages every whole page of [start, start + size) and no
\* byte outside it, whatever the alignment of start.
WholePagesOnly ==
    status \in {"running", "panic"} =>
        \E a \in InitArgs :
            region = {p \in Ram : /\ a.start <= p * PAGE_SIZE
                                  /\ (p + 1) * PAGE_SIZE <= a.start + a.size}

\* A page that stays in its holder's hands is only ever changed by its holder:
\* neither alloc_page nor free_page stores through a stale or foreign pointer.
HeldPagesUntouched ==
    [][\A ptr \in owned \intersect owned' :
          \/ mem'[ptr.page] = mem[ptr.page]
          \/ \E s \in Slot, w \in Data : OwnerWrite(ptr, s, w)]_allocVars

\* A page allocated with the clear flag is all zero, including the word that
\* linked it (pages.c: "garbage data unless the clear flag is set").
ClearedWhenAsked ==
    [][alloc_page(TRUE) => \A ptr \in owned' \ owned : \A s \in Slot :
           mem'[ptr.page][s] = NULL]_allocVars

\* The allocator implements the abstract pool.
Pool == INSTANCE PagePool WITH
            Page <- Ram,
            state <- CASE status = "boot" -> "off"
                       [] status = "running" -> "on"
                       [] status = "panic" -> "dead"
                       [] OTHER -> "trapped",
            free <- FreePages,
            used <- OwnedPages
ImplementsPool == Pool!PoolSpec
=============================================================================
