# A verification project for ilo-lili

ilo-lili is a small RISC-V (Sv39, one hart) kernel. This directory holds TLA+
models of its core, the TLC configurations that check them on small instances,
and proofs that TLAPS checks for every instance. Paths below are relative to the
repository, so `src/pages.c` is the allocator.

## 1. Inventory of the system

| Component | State it keeps | Operations | Talks to | What makes it correct |
|---|---|---|---|---|
| Page allocator `src/pages.c` | `free_list`, and a link in the first word of every free page | `init_page_alloc`, `alloc_page`, `free_page` | `make_accessible` of the page tables; panics | the links are the list of free pages; no page free twice, free and held, or lost; held pages are left alone |
| Page tables `src/mmu.c` | tables in allocated pages, the `satp` register | `mmu_new_page_table`, `mmu_map`, `set_mmu`, `get_mmu`, `mmu_walk`, `make_accessible` | allocator; the hardware walks the same tables | tables are trees; software and hardware find what was mapped; the kernel stays mapped |
| Boot `src/asm/boot.s`, `src/kernel.c` | the program counter of `kinit` | set stack, trap vector and interrupts; read the device tree, set up the allocator, build and activate a page table | everything | the tree is read before it is overwritten; translation goes on only with a good table; boot ends |
| Device tree reader `src/drivers/devicetree.c` | none: handles are pointers into the blob | iterators over nodes, children, properties; dump; lookup by path, name, property | console | the cursor is always on a token; results agree with the tree that was flattened; calls end |
| Trap entry `src/asm/trap.s` | saved registers in `trap_t`, `sscratch` | `handle_trap`, `jump_out_of_trap`, `hart_suspend_resume` | interrupt handler | the interrupted context is saved and restored |
| Interrupt handler `src/interrupts.c` | none | `interrupt_handler`: always panics | console | the kernel never goes on after a trap |
| Console `src/console.c`, `src/string.c` | none | `kputc`, `kprintf`, `log`, `panic`, `kputx`, `khexdump` | SBI, nanoprintf | output is complete and in order; a panic is shown whole; calls return unless the firmware fails |
| SBI stubs `src/asm/opensbi.s` | none | three `ecall`s | firmware | errors and short writes reach the caller |
| nanoprintf (vendored, as `console.c` configures it) | none | `npf_vpprintf` | `kputc` through a callback | what C says of the format |

What is hard here: the free list and the page tables are stored in the pages they
manage, so one wrong store anywhere shows up far away; pointers come in three forms
(physical, its alias in the upper half, and what masking the alias leaves);
interrupts are enabled before `kinit` runs and may hit anywhere; pages run out in
the middle of building a table; the device tree lies in the RAM that the allocator
is given; the device tree's data may look like its tokens; the firmware may refuse or
shorten what is printed; a trap switches to the stack that the interrupted code uses, and
a fault in the handler overwrites the only frame. `PROJECT.json` lists
these as hazards, each at its line, with the properties that would notice.

## 2. Modules

```
PagePool      what the allocator promises (abstract)
  ^ implements
PageAlloc     src/pages.c                             PageAllocProofs
  ^ extends, and implements: every step of Mmu is a step of PageAlloc
Mmu           src/mmu.c                               MmuProofs: tables and steps,
  ^ extends                     ^ extends             then translations
Kernel        src/kernel.c,    Tlb   the hart's       KernelProofs, TlbProofs
              src/asm/boot.s,        cache of
              src/interrupts.c       translations

Trap          src/asm/trap.s                          TrapProofs
Devicetree    src/drivers/devicetree.c: iterators,    DevicetreeProofs
              dump, lookups
FdtName       src/drivers/devicetree.c: names and     FdtNameProofs
              paths, character by character
Nanoprintf    include/nanoprintf.h: operators,        ConsoleProofs
              and what C says
  ^ extends
Console       src/console.c, src/asm/opensbi.s,       ConsoleProofs
              src/interrupts.c
MC*           constants for TLC
```

**PageAlloc.** `mem` is RAM word by word; `free_list` is the C variable. A pointer is
a page and the form of its upper bits (`zero`, `ones`, `bit38`), which is all that
`phys2virt` and `virt2phys` change. `region`, `chain` and `owned` are history: the
pages given to the allocator, the free pages in list order, the pointers handed out.
Actions are the functions; `init_page_alloc_runaway` is what happens when the range
holds no whole page (`count - 1` wraps). The callers are constrained as the code's own
callers are: they free and write only what they hold. `Trap` can happen at any time and
ends everything, because `interrupt_handler` only panics.

**Mmu.** `mmu_map` and `mmu_new_page_table` are run step by step: `pc` is the
step, `level`, `table`, `page` are the local variables of `mmu_entry`. Each step writes
at most one word. `TableIndex` is the index arithmetic of `mmu_entry` as compiled:
at level 2 the shifted mask overflows an `int` and sign extends, at level 1 it has the
5 bits of `PTE_MASK`, at level 0 the 12 bits of `PAGE_MASK`; indices beyond a table
reach into the following pages. `mmu_walk` only reads, so it is an operator. `HwWalk` is the
external part: the translation that the RISC-V manual prescribes, with indices of equal
width (`HwIndex`) and physical addresses taken as stored. `Window` is the set of pages for which
`TableIndex` computes those indices. `activate` is `set_mmu` with the fetch
of the next instruction: if the new table does not map the kernel's code the next step is
a trap. The bodies that a mutant shares with the code take what differs as a parameter
(`EntryAlloc(clear)`, `EntryLink(t)`, `MapStore(index)`, ...).

**Tlb.** Mmu with the hart's cache: `tlb_fill` may at any time keep the outcome of a walk
of the active table, a fault too; `set_mmu_fenced` is `set_mmu` with its `sfence.vma`;
`mmu_map` returns without one, and `unfenced` remembers the pages it mapped since.

**Kernel.** `kinit` statement by statement over Mmu, for device trees in different
places and with different reservations. Whatever prints may end in `stuck`, the loop of
`kputc` after an SBI error.

**Trap.** The registers that `trap.s` names, one for each other class, the CSRs it uses and the one
frame `boot_trap`; each commented block of `handle_trap` and `jump_out_of_trap` is an
action. `interrupt_handler` panics (`handler = "panics"`, on `stack_top`, as `kernel.c` sets it up).
The way back is dead code today, so it is checked with a handler of the kind `trap.s` is written
for, which returns its frame and has a stack of its own (`handler = "returns"`). `frames` says whose
frames are at the top of each stack, `seen` is the state that was interrupted last.

**Nanoprintf** and **Console.** `npf_vpprintf` is an operator on formats and
arguments: characters are codes, a run of literal text is one symbol, and numbers are registers
of `LONG_BITS` bits of which an `int` takes `INT_BITS`. A console call becomes the list
`todo` of SBI requests it makes, one per character or one per string, and each request is a
step with the firmware's answer (external): success, an error, or a short write. `interrupt_handler` may come
before any request and replaces what is left by its own panic. `said` is what C's
definition of the formats (`CText`, written without looking at nanoprintf) says should be shown, and for a line
of a hexdump what the data says (`HexText`: the column as wide as the size, two digits per byte, the characters).

**Devicetree.** The structure block is a sequence of words; one loop iteration of an
iterator is one step; `deep > 0` while `fdt_skip_node` runs inside an iterator. The
recursion of `fdt_dump_helper` is the variable `stack`. Each tree comes with the nested
tree it was flattened from (`nodes`, `parent`, `owner`, `depth`, `value`, `reserved`, ...), which only the
properties and the names use. A line of the dump is its position, its indentation and the
words or characters it shows. Node names are records (base, unit address). `Layout` says what a blob is:
`Tokenised` which word may follow which token, also in a damaged blob up to the damage; `Nested` how an
undamaged one encloses nodes and properties; `Reserves` how the reservation map ends. The trees of the run
satisfy it (`TreesAssumption`), and it is all that the proofs know of them.
**FdtName** shows that this is what the character loops compute; it has `fdt_validate_path` too, whose
refusal of other paths at the start of `fdt_node_path` does not appear here, where every path is a list of names.

`PROJECT.json` maps each definition to its lines. Definitions that are commented
`Mutant:` are deliberately wrong versions of the definition after them; they are not
part of any specification and serve to show that a property can fail.

## 3. Runs

| Run | Question | Bounds |
|---|---|---|
| `page_alloc` | Does any sequence of calls, writes by holders, switching translation on and traps break the list, lose or duplicate a page, or touch a held page? | RAM of 5 pages of 4 bytes and 2 words; five ranges: aligned, unaligned, ending inside a page, and two without a whole page |
| `mmu` | With a caching hart: do tables stay trees, does `mmu_walk` find exactly what was mapped, does the hardware find what was mapped before translation was on, does the kernel stay mapped, for which pages can a cached translation be stale? Is each step one that the allocator allows its callers, are only tables written, does each call return? | 8 entries per table; 7 free pages (a second page table can be built and activated, and pages run out); one data page at a time; four virtual pages: one that shares the kernel's last table, one that needs a table, one that needs two, and one of the upper half, where `mmu_map` and `mmu_walk` trap; the caching of the first of them is followed (`CacheVirt`) |
| `kernel` | Is the device tree read before the allocator writes into it, is the image left alone, does boot end, and on a good table? | 18 combinations of validity, place and reservations; interrupts and console failures anywhere |
| `devicetree` | Do the iterators stay on tokens and at their nesting, do dump, lookups and the count of reservations agree with the tree, do calls end? | 20 trees of 7 nodes with values that look like tokens, are empty or end inside a word, names that fill a word, properties before and after children; every token of one tree overwritten by an invalid one or by the end; three refused trees; reservations that start at 0 or are empty |
| `fdt_name` | Do the character loops parse names as their comment describes them, but for the longest names and an `@` without digits, and compare them as Devicetree does? | all pairs of strings of up to 4 characters, one character per class, names limited to 2 characters where the code has 31 |
| `console` | Is what is shown what C says the calls print, and what the lines of a hexdump should hold (but for the offset, see `console_hexdump`), is a panic shown whole, do calls return? | `int` of 9 and `long` of 12 bits; each directive with each combination of flags and 13 boundary values; one mixed sequence of all functions with one interrupt and one short write; hexdumps of 0, 1, 16, 17, 256 and 257 bytes, where a line or a digit is added |
| `trap` | Does the frame hold what was interrupted, is it resumed exactly, and never on an overwritten stack? | two register files with all values distinct, two causes, two addresses; any number of traps |

The scaled page tables keep the proportions that matter: a level-1 mask with too few
bits (4 of 8 values; 32 of 512 in the code), a level-0 mask with too many (16 instead of
8; 4096 instead of 512), RAM starting at a gigapage boundary, and the kernel inside
the window in which all three masks happen to be right. What uninitialised memory holds
is, in the Mmu runs, a valid-looking leaf entry, the worst case for a table that is not
cleared. `MaxHeld` bounds the data pages of callers, `irqs` and `shorts` of a world the interrupts
and short writes of a Console run; one interrupt is all there can be, for the handler never enables
them again.

**Fairness.** `MmuSpec`, `TlbSpec`, `KernelSpec` and `DtSpec` assume weak fairness of the steps of a
call that has begun, and `ConsoleSpec` of the SBI requests of a call (an `ecall` returns, with an error
perhaps): there is one hart, no scheduler, and no call waits for another, so a
started call can only be ended by a trap, and a trap stops the kernel. Nothing is assumed of the
environment: no interrupt need ever come, no further call need be made.

**Violations.** Five runs state what a comment says and find it violated by the code:

* `mmu_wide`: the level-0 index is masked with 12 bits; an address with bit 21, 22 or 23
  set gets its entry stored up to seven pages past the table, and the hardware finds
  nothing. The kernel's own image lies below the first such address, so booting works.
* `mmu_late`: `virt2phys` leaves bit 38 set, so once translation is on `alloc_page` does not
  return a physical address. `mmu_map` stores what it is given, so a page allocated then is out of the
  hardware's reach even in a table that was there before; so is a table that `mmu_entry` allocates then.
* `kernel_reserved`: reserved memory is linked into the free list.
* `console_hexdump`: `khexdump` prints the offset with `%llx`, which is not compiled in, so
  every line shows the text `%llx`.
* `fdt_name_comment`: the comment in front of `fdt_name_iter` gives the valid names as a pattern with at least one digit
  after an `@`, and with up to 32 characters before it. The code takes `a@`, so `fdt_validate_path` accepts `/a@`, and it
  refuses names of 32 characters. `Matches` is the comment's pattern; `TakesWholeNames` and `PathOfNames`
  of the run `fdt_name` name these two cases (`NoDigits`, `LongestName`) and say that there is no other.

Smaller divergences that the models contain and no run is spent on: `PTE_MASK` has 5 bits, so
addresses 64 MB apart share level-1 entries and `mmu_walk` may return another address's page (the
`mmu` run uses addresses that the mask tells apart); `fdt_node_path` follows only the
first of several children that a name without unit address matches, so `/cpu/cache` is not found when only
the second cpu has a cache (`PathFindsNode` describes the descent, and a path of the `devicetree` run
is of this kind); `kputx` takes character 127 for printable.

## 4. Proofs

`PageAllocProofs` proves, for every size of RAM, page and range and every sequence of
calls: `TypeCorrect`, `ListCorrect`, `PagesOnce`, `HeldPagesSafe`, `ClearedPages`,
`RegionIsWholePages`, and `PoolRefinement` (PageAlloc implements PagePool). Assumptions:
RAM bounds and sizes are naturals, sizes not zero; NULL is no pointer; the ranges
given to `init_page_alloc` lie in RAM. Nothing is assumed of what holders write.

The argument: `AllocTypeOK` is not inductive, because `alloc_page` loads the new head from
memory; that the loaded word is a link is `ListInMemory`. `ListInMemory` is preserved by writes of
holders and by `free_page` only if no page is on the list twice or both free and
held, which is `EveryPageOnce`. Their conjunction, with `NothingOwnedAtBoot` (before
initialisation nobody holds a page), is `IInv`; `Inductive` has one lemma per action. The other
theorems follow from it; `RegionIsWholePages` rests on the arithmetic of alignment
(`AlignedRange`), the refinement on `FreeIsTheRest`: the free pages are those of the
region that nobody holds.

`TrapProofs` proves the three properties of Trap for every set of values, register files,
causes and addresses, from `TrapAssumption`: the addresses are values, the two stacks differ, and the
kernel's code does not run on the handler's own stack. None of the three is inductive: at the
`sret` the context has passed through `boot_trap`, `sscratch`, t5, t6, a0 and a1. `TrapInv` says for
each block where it is: `Scratch` (what sscratch holds), `Pointer` (which register has the
address of the frame), `Saved` (which parts of the frame are filled and unchanged) and `Apart` (a handler
that returns has its own stack; the other never gets to the way back). `TrapInvStep` has one step per
action; the nested exception is the case in which `Saved` must be about the handler's own registers.

`MmuProofs` is about every geometry of the tables, every RAM and every sequence of
calls. From the constants it assumes

* `GeometryAssumption`, `KernelAssumption`, `MapAssumption`, `PteAssumption`: the number of entries is
  even, RAM lies in the lower half, the sections of the image are in order and aligned as `kernel.ld` aligns them;
* `SignAssumption`: a sign-extended index of level 2 points past RAM (in the code it is near 2^64);
* `WindowAssumption`: the image lies in `Window`, as the link address of `kernel.ld` does;
* `EntriesAssumption`: page table entries are among the words that holders may store.

What callers must respect is not an assumption but a hypothesis of the theorems that need it:
`CallersInWindow` (pages of the lower half are in `Window`; without it the theorems are false, as the run
`mmu_wide` shows), `CallersSpareKernel` (the kernel's own pages are not mapped again) and `CallersMapLeaves`
(the flags make a leaf entry, where the manual reads flags without READ or EXEC as a link). The run
`mmu` satisfies all three, and TLC evaluates them on it (`CallersAssumption` in MCTlb).

No property of Mmu is inductive. `MInv` is the allocator's `IInv` and `MmuTypeOK`, and
`Owners` (tables are pages that the kernel holds), `Control` (what each step leaves for the next), `Walk`
(`mmu_entry` stands at a table that the entries above lead to) and `Shape`: there is an assignment of levels to
tables under which each table holds words of its level only, links lead one level down, and each
table but a root is linked once. The levels are a witness under `Shape`, extended by the new table where
one is linked, so no property of paths or trees needs an induction. That every step is one
of the allocator (`MmuRefinesAlloc`) then carries `IInv` through every step of a call. `MapInv` adds that
memory holds exactly the recorded mappings: `Recorded` and `Unrecorded` (two pages of the window with the
same way through the tables are one page), `AllPhysical` (with translation off, no pointer has
upper bits), `KernelRecorded` (what `identity_map` has done and what it has left is the image) and `TopHalfFilled`.

`TlbProofs` shows that Tlb refines Mmu, so all of that holds with a caching hart, and that `CacheInv`
is inductive: a step changes the translation of a page by the active table only if it is the store of `mmu_map`
for that page, which `unfenced` records. The hard case is a store to a table of another level.

`KernelProofs` needs no hypothesis: `KinitMapsAssumption` (`kinit` maps nothing of its own) makes the three about
callers true, and `KinitAssumption` says that the range `kinit` gives to the allocator is
one of `InitArgs`. `KInv` says what has happened at each statement: nothing was written while the tree is being
read (`Fresh`), translation is off up to `set_mmu`, the region starts at `pages_bottom`, and the pages held are
the tables. Everything that is written is of the region or of a table, so the image is safe.

`DevicetreeProofs` is about every set of blobs with `Layout` and every path and name. It goes in layers,
each one an invariant on top of those before:

* `DtInv`, on damaged blobs too: the cursor is on a token (`CursorOnToken`), what is enumerated is a
  node, what is returned is a handle. It is carried by `Advance`: the skipping functions lead from a token to the next one.
* `Located`: the cursor is inside the node that is enumerated, and `deep` is its nesting there, so `fdt_skip_node`
  comes out where it went in, and each frame of the dump is a child of the frame below.
* `PropSearch`, `NodeSearch`, `PathSearch`: no match lies before the cursor but the ones that were
  returned; for a path, the names done so far lead down to the present node by first children.
* `Dumping`: the lines printed are exactly those of what lies before the cursor, in order; while
  `fdt_skip_node` passes again over a child that was already printed, of what lies before that child's end.

`DumpInOrder` is proved for blobs that are not damaged, and checked by TLC for damaged ones.

`FdtNameProofs` is about all strings of any length, any set of characters and any limit on a name, from
`NameAssumption` (the limit is not 0, and `/`, `@` and the terminating NUL are in no other class of characters). The loops are recursive
functions of a counter, and the library's induction theorems cannot be used on them. Instead each proof shows that a function with
the recursive equation exists, so that the one CHOOSE picks satisfies it, and then looks at the least
counter at which a claim about it fails (`Least`, from the well-foundedness of <). So a part is read up to the first character that ends
it and what is taken is a valid name but for the two cases of section 3 (`IterTakesWholeNames`), the comparison stops at the first difference (`EqualsByNameOrBase`), and each round of
`fdt_validate_path` leaves a shorter path (`ValidatesPathOfNames`).

`ConsoleProofs` has two parts. The first is `NanoprintfAsC`: for every format made of literals and of the directives that are
compiled in, with arguments of the types they ask for (`Formed`), and for every width of `int` and `long`, `npf_vpprintf` puts out
what C says (`CText`). `CText` describes the same text in other terms: a numeral by its length and by each digit as a quotient of
powers, a signed number by its sign bit, the argument of an item by its rank among the items that take one. The argument:

* numbers: the digits that `npf_utoa_rev` makes by repeated division are those quotients (`UtoaIs`, `NumeralPrinted`), and the
  magnitude of a negative number survives the conversion to unsigned and back (`SignedIs`);
* the parser: the directive that was spelled is the one that is read, whatever flags it has (`ParseIs`), and it lies
  within the format, so the position only grows (`ParseWithin`);
* the loop of `npf_vpprintf`, from the end of the format backwards (`RestStep`): at the place of item k, with the arguments of the
  items before it taken, the rest of C's text is put out.

Two formats printed one after the other, as `_log` and `_panic` do, are one format to C (`CTextConcat`).

The second part is about every sequence of calls, any number of interrupts and short writes, and requests refused
at any point. Its hypotheses are two, and the first part needs `PowerLaw` only:

* `PowerLaw`: b^0 = 1 and b^(k+1) = b * b^k for the bases 2, 8, 10 and 16. It is the definition of powers, which the provers
  know for constants only;
* `CallsFormed`: strings end in their only 0, formats are `Formed`, a hexdump is of bytes that a `size_t` counts, and `kputx` is not
  given a 127 (section 3). TLC evaluates it on the calls of the run (`FormedAssumption` in MCConsole).

The widths satisfy `BitsAssumption` and `WidthAssumption`: an `int` is no wider than a `long`, holds a byte and counts the digits of a `long`.

`ScreenIsAsCalled` and `PanicIsShown`
follow from `ConsoleInv`. `ReportComplete` is not inductive: while a panic is being printed, the screen with
what is still to be written must end in its text, and all that is left must be single bytes, which a short write
cannot cut (`PanicGoesOn`). That `TextOf` of a call's requests is what it was given (`BytesText`, `CStringText`) rests on
lemmas about `FlattenSeq`, proved as in FdtNameProofs. The text of a
hexdump is given by `HexText` from the data alone, and that the requests of a line print it (`LineText`) is a fact of three parts. `_log16`
counts the digits of a number, none for 0, so `num_zeros_two` never wraps and the zeros put in front are the
digits that the offset lacks to the width of the size (`ZerosFill`); `%llx    `, which is not compiled in, prints as its own 8 characters
(`OffsetText`), where a reader expects the offset; and the high and the low half of a byte, printed apart, are its two digits (`ByteText`).

Only model-checked: liveness (`CallReturns`, `BootEnds`, `CallsEnd`, `CallsReturn`), because TLAPS has no
support for fairness; and `DumpInOrder` on damaged blobs, whose `Layout` says nothing of nesting.

## 5. What is not modelled

* `hart_suspend_resume` and `sbi_debug_console_read`, which nothing calls; the floating-point
  registers of `trap_t`, which nothing saves.
* What nanoprintf compiles in only under other settings (widths, precisions, `#`, `h`, `ll`, `j`, `z`,
  `t`, floats, `%b`, `%n`) and its functions that print to a buffer.
* The separators and indentation characters of the dump. Blobs without an end token: the
  iterators would read past the blob.
* That `knputs` splits an address into two halves for an SBI that, on a 64-bit hart, expects all of it in
  the first: both are right for the strings of the image, which lie below 4 GB.
* RAM smaller than the 256 MB `kinit` believes in; harts that do not set the accessed and dirty bits.
* The size of stack frames: whether the recursion of the dump fits on the 4 KB stack.

## 6. Plan

1. Done: PagePool, PageAlloc, Mmu, Tlb, Kernel, Devicetree, FdtName, Trap, Nanoprintf and Console; a theorem
   for every safety property that a run checks.
2. The proof that is left: `DumpInOrder` on damaged blobs, from a layout of the part before the damage.
