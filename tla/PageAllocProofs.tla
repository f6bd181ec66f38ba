-------------------------- MODULE PageAllocProofs --------------------------
(***************************************************************************)
(* Proofs about PageAlloc for every RAM, page size and sequence of calls:  *)
(* one inductive invariant, from which type correctness, the shape of the  *)
(* free list, the accounting of pages, the implementation of PagePool and  *)
(* the safety of held pages follow.                                        *)
(***************************************************************************)
EXTENDS PageAlloc, TLAPS

\* Rounding down to a multiple of d loses less than d (the arithmetic behind
\* PAGE_ALIGN and the page count).
LEMMA DivBounds ==
    ASSUME NEW a \in Int, NEW d \in Nat \ {0}
    PROVE  /\ a \div d \in Int
           /\ (a \div d) * d <= a
           /\ a < (a \div d) * d + d
  OBVIOUS

\* Page numbers compare like the addresses of their pages.
LEMMA MulCancel ==
    ASSUME NEW x \in Int, NEW y \in Int, NEW d \in Nat \ {0}, x * d < y * d + d
    PROVE  x <= y
  OBVIOUS

\* The first page is the first one that starts in the range, and the count is
\* how many pages fit between its start and the end of the range.
LEMMA AlignedRange ==
    ASSUME NEW s \in Nat, NEW n \in Nat, NEW f, NEW c,
           f = FirstPage(s), c = PageCount(s, n)
    PROVE  /\ f \in Int /\ c \in Int /\ f * PAGE_SIZE \in Int /\ c * PAGE_SIZE \in Int
           /\ s <= f * PAGE_SIZE /\ f * PAGE_SIZE < s + PAGE_SIZE
           /\ c * PAGE_SIZE <= s + n - f * PAGE_SIZE
           /\ s + n - f * PAGE_SIZE < c * PAGE_SIZE + PAGE_SIZE
  <1> DEFINE x == s + PAGE_SIZE - 1
             k == x \div PAGE_SIZE
             y == n + s - k * PAGE_SIZE
  <1> USE SizeAssumption
  <1>1. x \in Int /\ x = s + PAGE_SIZE - 1
    OBVIOUS
  <1>2. f = (k * PAGE_SIZE) \div PAGE_SIZE /\ c = y \div PAGE_SIZE
    BY DEF FirstPage, PageCount, PAGE_ALIGN
  <1> HIDE DEF x
  <1>3. k \in Int /\ k * PAGE_SIZE <= x /\ x < k * PAGE_SIZE + PAGE_SIZE
    BY <1>1, DivBounds
  <1>4. y \in Int /\ y = n + s - k * PAGE_SIZE /\ k * PAGE_SIZE \in Int
    BY <1>3
  <1> HIDE DEF k, y
  <1>5. f \in Int /\ f * PAGE_SIZE <= k * PAGE_SIZE /\ k * PAGE_SIZE < f * PAGE_SIZE + PAGE_SIZE
    BY <1>2, <1>4, DivBounds
  <1>6. c \in Int /\ c * PAGE_SIZE <= y /\ y < c * PAGE_SIZE + PAGE_SIZE
    BY <1>2, <1>4, DivBounds
  <1>7. f = k
    <2>1. f * PAGE_SIZE < k * PAGE_SIZE + PAGE_SIZE
      BY <1>3, <1>5
    <2> QED BY <2>1, <1>3, <1>5, MulCancel
  <1> QED BY <1>1, <1>3, <1>4, <1>5, <1>6, <1>7

\* The pages that init_page_alloc links lie in RAM.
LEMMA InitPages ==
    ASSUME NEW a \in InitArgs
    PROVE  /\ FirstPage(a.start) \in RamStart .. RamEnd
           /\ PageCount(a.start, a.size) \in Int
           /\ FirstPage(a.start) + PageCount(a.start, a.size) <= RamEnd
  <1> DEFINE s == a.start
             n == a.size
             f == FirstPage(s)
             c == PageCount(s, n)
  <1> USE RamAssumption, SizeAssumption
  <1>1. /\ s \in Nat /\ n \in Nat
        /\ RamStart * PAGE_SIZE <= s
        /\ s + n <= RamEnd * PAGE_SIZE
    BY InitArgsAssumption
  <1> HIDE DEF s, n
  <1>2. /\ f \in Int /\ c \in Int /\ f * PAGE_SIZE \in Int /\ c * PAGE_SIZE \in Int
        /\ s <= f * PAGE_SIZE /\ f * PAGE_SIZE < s + PAGE_SIZE
        /\ c * PAGE_SIZE <= s + n - f * PAGE_SIZE
    BY <1>1, AlignedRange
  <1> HIDE DEF f, c
  <1>3. RamStart <= f
    <2>1. RamStart * PAGE_SIZE < f * PAGE_SIZE + PAGE_SIZE
      BY <1>1, <1>2
    <2> QED BY <2>1, <1>2, MulCancel
  <1>4. f <= RamEnd
    <2>1. f * PAGE_SIZE < RamEnd * PAGE_SIZE + PAGE_SIZE
      BY <1>1, <1>2
    <2> QED BY <2>1, <1>2, MulCancel
  <1>5. f + c <= RamEnd
    <2>1. (f + c) * PAGE_SIZE = f * PAGE_SIZE + c * PAGE_SIZE
      BY <1>2
    <2>2. (f + c) * PAGE_SIZE < RamEnd * PAGE_SIZE + PAGE_SIZE
      BY <2>1, <1>1, <1>2
    <2> QED BY <2>2, <1>2, MulCancel
  <1> QED BY <1>2, <1>3, <1>4, <1>5 DEF s, n, f, c

\* The address conversions change the upper bits and keep the page.
LEMMA PtrConversions ==
    ASSUME NEW a \in Ptr
    PROVE  /\ virt2phys(make_accessible(a)) \in Ptr
           /\ virt2phys(make_accessible(a)).page = a.page
  BY DEF virt2phys, phys2virt, make_accessible, Ptr, Top

----------------------------------------------------------------------------
\* Before init_page_alloc nobody can hold a page.
NothingOwnedAtBoot == status = "boot" => owned = {}

\* AllocTypeOK is not inductive: alloc_page loads its new head from memory, and that
\* the loaded word is a pointer is what ListInMemory says; ListInMemory in turn
\* survives free_page only because no page is on the list twice or while held.
IInv == AllocTypeOK /\ ListInMemory /\ EveryPageOnce /\ NothingOwnedAtBoot

\* The invariant holds before init_page_alloc is called.
LEMMA InitIInv == AllocInit => IInv
  <1> SUFFICES ASSUME AllocInit PROVE IInv
    OBVIOUS
  <1> USE DEF AllocInit
  <1>1. AllocTypeOK
    BY DataAssumption DEF AllocTypeOK, Word
  <1>2. ListInMemory
    BY DEF ListInMemory
  <1>3. EveryPageOnce
    BY DEF EveryPageOnce, FreePages, OwnedPages
  <1> QED BY <1>1, <1>2, <1>3 DEF IInv, NothingOwnedAtBoot


\* init_page_alloc establishes the list: each page links to its successor.
LEMMA InitPageAllocStep ==
    ASSUME IInv, NEW a \in InitArgs, init_page_alloc(a.start, a.size)
    PROVE  IInv'
  <1> DEFINE f == FirstPage(a.start)
             c == PageCount(a.start, a.size)
  <1> USE RamAssumption, SizeAssumption
  <1>1. /\ status = "boot" /\ c > 0 /\ status' = "running"
        /\ free_list' = [page |-> f, top |-> "zero"]
        /\ mem' = Linked(f, f + c - 1)
        /\ region' = f .. f + c - 1
        /\ chain' = [i \in 1 .. c |-> f + i - 1]
        /\ satp' = satp /\ owned' = owned
    BY DEF init_page_alloc
  <1>2. f \in RamStart .. RamEnd /\ c \in Nat /\ f + c <= RamEnd
    BY <1>1, InitPages
  <1> HIDE DEF f, c
  <1>3. owned = {} /\ mem \in [Ram -> [Slot -> Word]]
    BY <1>1 DEF IInv, NothingOwnedAtBoot, AllocTypeOK
  <1>4. chain' \in Seq(Ram) /\ Len(chain') = c /\ \A i \in 1 .. c : chain'[i] = f + i - 1
    <2>1. \A i \in 1 .. c : f + i - 1 \in Ram
      BY <1>2 DEF Ram
    <2> QED BY <1>1, <1>2, <2>1
  <1>5. \A p \in f .. f + c - 1 : mem'[p][0] = Link(p, f + c - 1)
    BY <1>1, <1>2, <1>3 DEF Linked, Slot, Ram
  <1>6. AllocTypeOK'
    <2>1. \A p \in Ram : Link(p, f + c - 1) \in Word
      BY <1>2 DEF Link, Ptr, Top, Ram, Word
    <2>2. mem' \in [Ram -> [Slot -> Word]]
      BY <1>1, <1>3, <2>1 DEF Linked
    <2>3. free_list' \in Ptr /\ region' \subseteq Ram
      BY <1>1, <1>2 DEF Ptr, Top, Ram
    <2> QED BY <1>1, <1>4, <2>2, <2>3 DEF IInv, AllocTypeOK
  <1>7. ListInMemory'
    <2>1. free_list' # NULL /\ chain' # <<>> /\ free_list'.page = chain'[1]
      <3>1. free_list' \in Ptr
        BY <1>1, <1>2 DEF Ptr, Top
      <3>2. free_list' # NULL
        BY <3>1, NullAssumption
      <3>3. chain' # <<>>
        BY <1>1, <1>2, <1>4
      <3>4. free_list'.page = f /\ chain'[1] = f + 1 - 1
        BY <1>1, <1>2, <1>4
      <3> QED BY <1>2, <3>2, <3>3, <3>4
    <2>2. ASSUME NEW i \in 1 .. c
          PROVE  IF i = c THEN mem'[chain'[i]][0] = NULL
                 ELSE /\ mem'[chain'[i]][0] \in Ptr
                      /\ mem'[chain'[i]][0].page = chain'[i + 1]
      <3>1. /\ chain'[i] = f + i - 1 /\ f + i - 1 \in f .. f + c - 1
            /\ i # c => chain'[i + 1] = f + i
        BY <1>2, <1>4
      <3>2. mem'[chain'[i]][0] = Link(f + i - 1, f + c - 1)
        BY <1>5, <3>1
      <3>3. CASE i = c
        BY <1>2, <3>2, <3>3 DEF Link
      <3>4. CASE i # c
        <4>1. Link(f + i - 1, f + c - 1) = [page |-> f + i, top |-> "zero"]
          BY <1>2, <3>4 DEF Link
        <4>2. f + i \in RamStart .. RamEnd
          BY <1>2
        <4> QED BY <3>1, <3>2, <3>4, <4>1, <4>2 DEF Ptr, Top
      <3> QED BY <3>3, <3>4
    <2> QED BY <1>4, <2>1, <2>2 DEF ListInMemory
  <1>8. EveryPageOnce'
    <2>1. FreePages' = f .. f + c - 1
      <3>1. \A p \in f .. f + c - 1 : p - f + 1 \in 1 .. c /\ chain'[p - f + 1] = p
        BY <1>2, <1>4
      <3>2. \A i \in 1 .. c : chain'[i] \in f .. f + c - 1
        BY <1>2, <1>4
      <3> QED BY <1>4, <3>1, <3>2 DEF FreePages
    <2>2. OwnedPages' = {}
      BY <1>1, <1>3 DEF OwnedPages
    <2>3. \A i, j \in 1 .. Len(chain') : chain'[i] = chain'[j] => i = j
      BY <1>2, <1>4
    <2> QED BY <1>1, <1>3, <2>1, <2>2, <2>3 DEF EveryPageOnce
  <1> QED BY <1>1, <1>6, <1>7, <1>8 DEF IInv, NothingOwnedAtBoot

\* A call without a whole page to manage stops the kernel and hands out nothing.
LEMMA RunawayStep ==
    ASSUME IInv, NEW a \in InitArgs, init_page_alloc_runaway(a.start, a.size)
    PROVE  IInv'
  <1> DEFINE f == FirstPage(a.start)
  <1> USE RamAssumption, SizeAssumption
  <1>1. /\ status' = "trap"
        /\ free_list' = [page |-> f, top |-> "zero"]
        /\ mem' = Linked(f, RamEnd)
        /\ UNCHANGED <<satp, region, chain, owned>>
    BY DEF init_page_alloc_runaway
  <1>2. f \in RamStart .. RamEnd
    BY InitPages
  <1> HIDE DEF f
  <1>3. \A p \in Ram : Link(p, RamEnd) \in Word
    BY DEF Link, Ptr, Top, Ram, Word
  <1>4. mem' \in [Ram -> [Slot -> Word]]
    BY <1>1, <1>3 DEF Linked, IInv, AllocTypeOK
  <1>5. free_list' \in Ptr
    BY <1>1, <1>2 DEF Ptr, Top
  <1>6. AllocTypeOK'
    BY <1>1, <1>4, <1>5 DEF IInv, AllocTypeOK
  <1>7. ListInMemory' /\ NothingOwnedAtBoot'
    BY <1>1 DEF ListInMemory, NothingOwnedAtBoot
  <1>8. EveryPageOnce'
    BY <1>1 DEF IInv, EveryPageOnce, FreePages, OwnedPages
  <1> QED BY <1>6, <1>7, <1>8 DEF IInv

\* What alloc_page finds at the head of a non-empty list.
LEMMA HeadOfList ==
    ASSUME IInv, status = "running", free_list # NULL
    PROVE  /\ free_list \in Ptr
           /\ chain # <<>> /\ Len(chain) \in Nat /\ Len(chain) >= 1
           /\ free_list.page = chain[1] /\ free_list.page \in Ram
           /\ free_list.page \in FreePages
           /\ AllocatedPtr \in Ptr /\ AllocatedPtr.page = free_list.page
  <1>1. free_list \in Ptr /\ chain \in Seq(Ram)
    BY DEF IInv, AllocTypeOK
  <1>2. chain # <<>> /\ free_list.page = chain[1]
    BY DEF IInv, ListInMemory
  <1>3. Len(chain) \in Nat /\ Len(chain) >= 1 /\ chain[1] \in Ram
    BY <1>1, <1>2
  <1>4. free_list.page \in FreePages
    BY <1>2, <1>3 DEF FreePages
  <1> QED BY <1>1, <1>2, <1>3, <1>4, PtrConversions DEF AllocatedPtr

\* alloc_page preserves the invariant: the next link was intact.
LEMMA AllocPageStep ==
    ASSUME IInv, NEW clear \in BOOLEAN, alloc_page(clear)
    PROVE  IInv'
  <1> DEFINE h == free_list.page
             n == Len(chain)
             new == AllocatedPtr
  <1> USE SizeAssumption
  <1>1. /\ status = "running" /\ free_list # NULL
        /\ free_list' = mem[h][0]
        /\ mem' = [mem EXCEPT ![h] = AllocatedWords(clear)]
        /\ owned' = owned \union {new}
        /\ chain' = Tail(chain)
        /\ UNCHANGED <<status, satp, region>>
    BY DEF alloc_page
  <1>2. /\ chain # <<>> /\ n \in Nat /\ n >= 1 /\ h = chain[1] /\ h \in Ram
        /\ h \in FreePages /\ new \in Ptr /\ new.page = h
    BY <1>1, HeadOfList
  <1>3. /\ mem \in [Ram -> [Slot -> Word]]
        /\ chain \in Seq(Ram) /\ owned \subseteq Ptr
    BY DEF IInv, AllocTypeOK
  <1>4. /\ chain' \in Seq(Ram) /\ Len(chain') = n - 1
        /\ \A i \in 1 .. n - 1 : chain'[i] = chain[i + 1]
    BY <1>1, <1>2, <1>3
  <1>5. \A i \in 1 .. n : \A j \in 1 .. n : chain[i] = chain[j] => i = j
    BY DEF IInv, EveryPageOnce
  <1>6. \A i \in 1 .. n - 1 : chain[i + 1] # h /\ chain[i + 1] \in Ram
    BY <1>2, <1>3, <1>5
  <1>7. \A i \in 1 .. n : IF i = n THEN mem[chain[i]][0] = NULL
                          ELSE /\ mem[chain[i]][0] \in Ptr
                               /\ mem[chain[i]][0].page = chain[i + 1]
    BY <1>1 DEF IInv, ListInMemory
  <1>8. \/ n = 1 /\ mem[h][0] = NULL
        \/ n > 1 /\ mem[h][0] \in Ptr /\ mem[h][0].page = chain[2]
    <2>0. \A m \in Nat : m >= 1 => 1 \in 1 .. m /\ (1 = m \/ m > 1)
      OBVIOUS
    <2>1. 1 \in 1 .. n /\ (1 = n \/ n > 1)
      BY <1>2, <2>0, Zenon
    <2>2. 1 = n => mem[chain[1]][0] = NULL
      BY <1>7, <2>1
    <2>3. 1 # n => mem[chain[1]][0] \in Ptr /\ mem[chain[1]][0].page = chain[1 + 1]
      BY <1>7, <2>1
    <2> HIDE DEF h
    <2> QED BY <1>2, <2>1, <2>2, <2>3
  <1>9. AllocatedWords(clear) \in [Slot -> Word]
    BY <1>2, <1>3 DEF AllocatedWords, Word
  <1> HIDE DEF h, n, new
  <1>10. AllocTypeOK'
    <2>1. mem' \in [Ram -> [Slot -> Word]]
      BY <1>1, <1>3, <1>9
    <2>2. free_list' \in Ptr \union {NULL}
      BY <1>1, <1>8
    <2> QED BY <1>1, <1>2, <1>3, <1>4, <2>1, <2>2 DEF IInv, AllocTypeOK
  <1>11. ListInMemory'
    <2>1. \A i \in 1 .. n - 1 : mem'[chain'[i]][0] = mem[chain[i + 1]][0]
      BY <1>1, <1>3, <1>4, <1>6
    <2>2. ASSUME NEW i \in 1 .. n - 1
          PROVE  IF i = n - 1 THEN mem'[chain'[i]][0] = NULL
                 ELSE /\ mem'[chain'[i]][0] \in Ptr
                      /\ mem'[chain'[i]][0].page = chain'[i + 1]
      <3>1. i + 1 \in 1 .. n /\ (i + 1 = n <=> i = n - 1)
        BY <1>2
      <3>2. i # n - 1 => chain'[i + 1] = chain[(i + 1) + 1]
        BY <1>2, <1>4
      <3> QED BY <1>7, <2>1, <3>1, <3>2
    <2>3. free_list' = NULL <=> chain' = <<>>
      <3>1. chain' = <<>> <=> n = 1
        BY <1>2, <1>4
      <3> QED BY <1>1, <1>2, <1>8, <3>1, NullAssumption
    <2>4. chain' # <<>> => free_list'.page = chain'[1]
      <3>1. chain' # <<>> => n > 1
        BY <1>2, <1>4
      <3>2. n > 1 => chain'[1] = chain[2]
        BY <1>2, <1>4
      <3> QED BY <1>1, <1>8, <3>1, <3>2
    <2> QED BY <1>4, <2>2, <2>3, <2>4 DEF ListInMemory
  <1>12. EveryPageOnce'
    <2>1. FreePages' = FreePages \ {h}
      <3>1. \A i \in 1 .. n : i = 1 \/ (i - 1 \in 1 .. n - 1 /\ chain'[i - 1] = chain[i])
        BY <1>2, <1>4
      <3>2. FreePages = {chain[i] : i \in 1 .. n}
        BY DEF FreePages, n
      <3>3. FreePages' = {chain'[i] : i \in 1 .. n - 1}
        BY <1>4 DEF FreePages
      <3>4. \A i \in 1 .. n - 1 : i + 1 \in 1 .. n
        BY <1>2
      <3>5. ASSUME NEW p \in FreePages' PROVE p \in FreePages \ {h}
        <4>1. PICK i \in 1 .. n - 1 : p = chain'[i]
          BY <3>3
        <4> QED BY <1>4, <1>6, <3>2, <3>4, <4>1
      <3>6. ASSUME NEW p \in FreePages \ {h} PROVE p \in FreePages'
        <4>1. PICK i \in 1 .. n : p = chain[i]
          BY <3>2
        <4>2. i # 1
          BY <1>2, <4>1
        <4> QED BY <3>1, <3>3, <4>1, <4>2
      <3> QED BY <3>5, <3>6
    <2>2. OwnedPages' = OwnedPages \union {h}
      BY <1>1, <1>2 DEF OwnedPages
    <2>3. h \notin OwnedPages
      BY <1>2 DEF IInv, EveryPageOnce
    <2>4. \A i, j \in 1 .. Len(chain') : chain'[i] = chain'[j] => i = j
      <3> SUFFICES ASSUME NEW i \in 1 .. n - 1, NEW j \in 1 .. n - 1,
                          chain'[i] = chain'[j]
                   PROVE  i = j
        BY <1>4
      <3>1. i + 1 \in 1 .. n /\ j + 1 \in 1 .. n /\ chain[i + 1] = chain[j + 1]
        BY <1>2, <1>4
      <3> QED BY <1>2, <1>5, <3>1
    <2>5. \A a, b \in owned' : a.page = b.page => a = b
      BY <1>1, <1>2, <2>3 DEF IInv, EveryPageOnce, OwnedPages
    <2>6. /\ FreePages' \intersect OwnedPages' = {}
          /\ FreePages' \union OwnedPages' = region'
      BY <1>1, <1>2, <2>1, <2>2 DEF IInv, EveryPageOnce
    <2> QED BY <2>4, <2>5, <2>6 DEF EveryPageOnce
  <1> QED BY <1>1, <1>10, <1>11, <1>12 DEF IInv, NothingOwnedAtBoot

\* A page somebody holds is in RAM and not on the free list.
LEMMA HeldPage ==
    ASSUME IInv, NEW ptr \in owned
    PROVE  /\ ptr \in Ptr /\ ptr.page \in Ram
           /\ ptr.page \in OwnedPages /\ ptr.page \notin FreePages
           /\ \A i \in 1 .. Len(chain) : chain[i] # ptr.page
  <1>1. ptr \in Ptr /\ ptr.page \in OwnedPages
    BY DEF IInv, AllocTypeOK, OwnedPages
  <1>2. ptr.page \in Ram /\ ptr.page \notin FreePages
    BY <1>1 DEF IInv, AllocTypeOK, EveryPageOnce
  <1> QED BY <1>1, <1>2 DEF FreePages

\* free_page preserves the invariant when the caller holds the page.
LEMMA FreePageStep ==
    ASSUME IInv, NEW ptr \in owned, free_page(ptr)
    PROVE  IInv'
  <1> DEFINE h == ptr.page
             n == Len(chain)
  <1> USE SizeAssumption
  <1>1. /\ status = "running"
        /\ mem' = [mem EXCEPT ![h][0] = free_list]
        /\ free_list' = ptr
        /\ owned' = owned \ {ptr}
        /\ chain' = <<h>> \o chain
        /\ UNCHANGED <<status, satp, region>>
    BY DEF free_page
  <1>2. /\ ptr \in Ptr /\ h \in Ram /\ h \in OwnedPages /\ h \notin FreePages
        /\ \A i \in 1 .. n : chain[i] # h
    BY HeldPage
  <1>3. /\ mem \in [Ram -> [Slot -> Word]]
        /\ chain \in Seq(Ram) /\ owned \subseteq Ptr /\ n \in Nat
        /\ free_list \in Ptr \union {NULL}
    BY DEF IInv, AllocTypeOK
  <1>4. /\ chain' \in Seq(Ram) /\ Len(chain') = n + 1 /\ chain'[1] = h
        /\ \A i \in 2 .. n + 1 : chain'[i] = chain[i - 1]
    BY <1>1, <1>2, <1>3
  <1>5. 0 \in Slot
    BY DEF Slot
  <1>6. \A p \in Ram : mem'[p][0] = IF p = h THEN free_list ELSE mem[p][0]
    BY <1>1, <1>2, <1>3, <1>5
  <1> HIDE DEF h, n
  <1>7. AllocTypeOK'
    <2>1. mem' \in [Ram -> [Slot -> Word]]
      BY <1>1, <1>2, <1>3, <1>5 DEF Word
    <2> QED BY <1>1, <1>2, <1>3, <1>4, <2>1 DEF IInv, AllocTypeOK
  <1>8. ListInMemory'
    <2>1. free_list' # NULL /\ chain' # <<>> /\ free_list'.page = chain'[1]
      BY <1>1, <1>2, <1>3, <1>4, NullAssumption DEF h
    <2>2. /\ n = 0 <=> free_list = NULL
          /\ n > 0 => free_list \in Ptr /\ free_list.page = chain[1]
      <3>1. n = 0 <=> chain = <<>>
        BY <1>3 DEF n
      <3>2. n > 0 => chain # <<>>
        BY <3>1
      <3> QED BY <1>1, <1>3, <3>1, <3>2 DEF IInv, ListInMemory
    <2>3. \A i \in 1 .. n : IF i = n THEN mem[chain[i]][0] = NULL
                            ELSE /\ mem[chain[i]][0] \in Ptr
                                 /\ mem[chain[i]][0].page = chain[i + 1]
      BY <1>1 DEF IInv, ListInMemory, n
    <2>4. ASSUME NEW i \in 1 .. n + 1
          PROVE  IF i = n + 1 THEN mem'[chain'[i]][0] = NULL
                 ELSE /\ mem'[chain'[i]][0] \in Ptr
                      /\ mem'[chain'[i]][0].page = chain'[i + 1]
      <3>1. CASE i = 1
        <4>1. mem'[chain'[1]][0] = free_list
          BY <1>2, <1>4, <1>6
        <4>2. n > 0 => chain'[2] = chain[1]
          BY <1>3, <1>4
        <4> QED BY <1>3, <2>2, <3>1, <4>1, <4>2
      <3>2. CASE i # 1
        <4>1. i - 1 \in 1 .. n /\ chain'[i] = chain[i - 1] /\ chain[i - 1] \in Ram
          BY <1>3, <1>4, <3>2 DEF n
        <4>2. mem'[chain'[i]][0] = mem[chain[i - 1]][0]
          BY <1>2, <1>6, <4>1
        <4>3. i # n + 1 => chain'[i + 1] = chain[(i - 1) + 1]
          BY <1>3, <1>4, <3>2
        <4>4. i - 1 = n <=> i = n + 1
          BY <1>3
        <4> QED BY <2>3, <4>1, <4>2, <4>3, <4>4
      <3> QED BY <3>1, <3>2
    <2> QED BY <1>4, <2>1, <2>4 DEF ListInMemory
  <1>9. EveryPageOnce'
    <2>1. FreePages' = FreePages \union {h}
      <3>1. FreePages = {chain[i] : i \in 1 .. n}
        BY DEF FreePages, n
      <3>2. FreePages' = {chain'[i] : i \in 1 .. n + 1}
        BY <1>4 DEF FreePages
      <3>3. ASSUME NEW p \in FreePages' PROVE p \in FreePages \union {h}
        <4>1. PICK i \in 1 .. n + 1 : p = chain'[i]
          BY <3>2
        <4>2. i = 1 \/ (i \in 2 .. n + 1 /\ i - 1 \in 1 .. n)
          BY <1>3
        <4> QED BY <1>4, <3>1, <4>1, <4>2
      <3>4. ASSUME NEW p \in FreePages PROVE p \in FreePages'
        <4>1. PICK i \in 1 .. n : p = chain[i]
          BY <3>1
        <4>2. i + 1 \in 1 .. n + 1 /\ chain'[i + 1] = chain[i]
          BY <1>3, <1>4
        <4> QED BY <3>2, <4>1, <4>2
      <3>5. h \in FreePages'
        BY <1>3, <1>4, <3>2
      <3> QED BY <3>3, <3>4, <3>5
    <2>2. \A a, b \in owned : a.page = b.page => a = b
      BY DEF IInv, EveryPageOnce
    <2>3. OwnedPages' = OwnedPages \ {h}
      BY <1>1, <1>2, <2>2 DEF OwnedPages, h
    <2>4. \A i, j \in 1 .. Len(chain') : chain'[i] = chain'[j] => i = j
      <3> SUFFICES ASSUME NEW i \in 1 .. n + 1, NEW j \in 1 .. n + 1,
                          chain'[i] = chain'[j]
                   PROVE  i = j
        BY <1>4
      <3>1. \A k \in 2 .. n + 1 : k - 1 \in 1 .. n /\ chain'[k] = chain[k - 1] /\ chain'[k] # h
        BY <1>2, <1>3, <1>4 DEF n
      <3>2. \A x, y \in 1 .. n : chain[x] = chain[y] => x = y
        BY DEF IInv, EveryPageOnce, n
      <3>3. (i = 1 \/ i \in 2 .. n + 1) /\ (j = 1 \/ j \in 2 .. n + 1)
        BY <1>3
      <3>4. CASE i = 1 \/ j = 1
        BY <1>4, <3>1, <3>3, <3>4
      <3>5. CASE i \in 2 .. n + 1 /\ j \in 2 .. n + 1
        <4>1. i - 1 = j - 1
          BY <3>1, <3>2, <3>5
        <4> QED BY <4>1
      <3> QED BY <3>3, <3>4, <3>5
    <2>5. /\ FreePages' \intersect OwnedPages' = {}
          /\ FreePages' \union OwnedPages' = region'
      BY <1>1, <1>2, <2>1, <2>3 DEF IInv, EveryPageOnce
    <2> QED BY <1>1, <2>2, <2>4, <2>5 DEF EveryPageOnce
  <1> QED BY <1>1, <1>7, <1>8, <1>9 DEF IInv, NothingOwnedAtBoot

\* What a holder writes into its page never reaches a link of the list.
LEMMA OwnerWriteStep ==
    ASSUME IInv, NEW ptr \in owned, NEW s \in Slot, NEW w \in Data, OwnerWrite(ptr, s, w)
    PROVE  IInv'
  <1>1. /\ mem' = [mem EXCEPT ![ptr.page][s] = w]
        /\ UNCHANGED <<status, free_list, satp, region, chain, owned>>
    BY DEF OwnerWrite
  <1>2. /\ mem \in [Ram -> [Slot -> Word]]
        /\ chain \in Seq(Ram)
    BY DEF IInv, AllocTypeOK
  <1>3. AllocTypeOK'
    <2>1. mem' \in [Ram -> [Slot -> Word]]
      BY <1>1, <1>2 DEF Word
    <2> QED BY <1>1, <2>1 DEF IInv, AllocTypeOK
  <1>4. \A i \in 1 .. Len(chain) : mem'[chain[i]] = mem[chain[i]]
    <2>1. \A i \in 1 .. Len(chain) : chain[i] # ptr.page /\ chain[i] \in Ram
      BY <1>2, HeldPage
    <2> QED BY <1>1, <1>2, <2>1
  <1>5. ListInMemory'
    BY <1>1, <1>4 DEF IInv, ListInMemory
  <1>6. EveryPageOnce' /\ NothingOwnedAtBoot'
    BY <1>1 DEF IInv, EveryPageOnce, NothingOwnedAtBoot, FreePages, OwnedPages
  <1> QED BY <1>3, <1>5, <1>6 DEF IInv

\* Steps that touch neither the list nor the pages.
LEMMA QuietStep ==
    ASSUME IInv,
           UNCHANGED <<free_list, mem, region, chain, owned>>,
           satp' \in Ptr \union {NULL},
           \/ status' = status \/ status' = "trap"
           \/ status = "running" /\ status' = "panic"
    PROVE  IInv'
  <1>1. AllocTypeOK'
    BY DEF IInv, AllocTypeOK
  <1>2. ListInMemory' /\ NothingOwnedAtBoot'
    BY DEF IInv, ListInMemory, NothingOwnedAtBoot
  <1>3. EveryPageOnce'
    BY DEF IInv, EveryPageOnce, FreePages, OwnedPages
  <1> QED BY <1>1, <1>2, <1>3 DEF IInv

\* IInv is inductive: every operation of the allocator, and everything the
\* holders of pages do, preserves it.
THEOREM Inductive == IInv /\ [AllocNext]_allocVars => IInv'
  <1> SUFFICES ASSUME IInv, [AllocNext]_allocVars PROVE IInv'
    OBVIOUS
  <1>0. satp \in Ptr \union {NULL} /\ owned \subseteq Ptr
    BY DEF IInv, AllocTypeOK
  <1>1. ASSUME NEW a \in InitArgs, init_page_alloc(a.start, a.size) PROVE IInv'
    BY <1>1, InitPageAllocStep
  <1>2. ASSUME NEW a \in InitArgs, init_page_alloc_runaway(a.start, a.size) PROVE IInv'
    BY <1>2, RunawayStep
  <1>3. ASSUME NEW clear \in BOOLEAN, alloc_page(clear) PROVE IInv'
    BY <1>3, AllocPageStep
  <1>4. CASE alloc_page_panic
    BY <1>0, <1>4, QuietStep DEF alloc_page_panic
  <1>5. ASSUME NEW ptr \in owned, free_page(ptr) PROVE IInv'
    BY <1>5, FreePageStep
  <1>6. ASSUME NEW ptr \in owned, NEW s \in Slot, NEW w \in Data, OwnerWrite(ptr, s, w) PROVE IInv'
    BY <1>6, OwnerWriteStep
  <1>7. ASSUME NEW ptr \in owned, set_mmu(ptr) PROVE IInv'
    BY <1>0, <1>7, QuietStep DEF set_mmu
  <1>8. CASE Trap \/ Halted \/ UNCHANGED allocVars
    BY <1>0, <1>8, QuietStep DEF Trap, Halted, allocVars
  <1> QED BY <1>1, <1>2, <1>3, <1>4, <1>5, <1>6, <1>7, <1>8 DEF AllocNext

\* Every reachable state satisfies the inductive invariant.
THEOREM Invariance == AllocSpec => []IInv
  BY InitIInv, Inductive, PTL DEF AllocSpec

\* Every variable always has its type, in particular the head of the list is
\* always a pointer or NULL although alloc_page loads it from memory.
THEOREM TypeCorrect == AllocSpec => []AllocTypeOK
  <1>1. IInv => AllocTypeOK
    BY DEF IInv
  <1> QED BY <1>1, Invariance, PTL

\* For every RAM and every sequence of calls the links in memory form exactly
\* the list of the free pages.
THEOREM ListCorrect == AllocSpec => []ListInMemory
  <1>1. IInv => ListInMemory
    BY DEF IInv
  <1> QED BY <1>1, Invariance, PTL

\* For every RAM and every sequence of calls no page is free twice, free while
\* held, held twice, or lost.
THEOREM PagesOnce == AllocSpec => []EveryPageOnce
  <1>1. IInv => EveryPageOnce
    BY DEF IInv
  <1> QED BY <1>1, Invariance, PTL

----------------------------------------------------------------------------
(* Refinement: PageAlloc implements PagePool *)

\* The free pages are the ones of the region that nobody holds.
LEMMA FreeIsTheRest == IInv => FreePages = region \ OwnedPages
  BY DEF IInv, EveryPageOnce

\* Every step of the allocator is a step of the abstract pool, or none.
LEMMA PoolStep ==
    ASSUME IInv, IInv', [AllocNext]_allocVars
    PROVE  [Pool!PoolNext]_(Pool!poolVars)
  <1>1. /\ FreePages = region \ OwnedPages
        /\ FreePages' = region' \ OwnedPages'
        /\ region \subseteq Ram /\ region' \subseteq Ram
        /\ OwnedPages \subseteq region
    BY FreeIsTheRest DEF IInv, AllocTypeOK, EveryPageOnce
  <1>2. ASSUME NEW a \in InitArgs, init_page_alloc(a.start, a.size)
        PROVE  Pool!PoolNext
    <2>1. /\ status = "boot" /\ status' = "running" /\ owned' = owned
          /\ FirstPage(a.start) \in region'
      BY <1>2, InitPages, RamAssumption DEF init_page_alloc
    <2>2. OwnedPages' = OwnedPages /\ OwnedPages = {}
      BY <2>1 DEF OwnedPages, IInv, NothingOwnedAtBoot
    <2>3. FreePages' \in (SUBSET Ram) \ {{}}
      BY <1>1, <2>1, <2>2
    <2>4. Pool!Supply(FreePages')
      BY <2>1, <2>2 DEF Pool!Supply
    <2> QED BY <2>3, <2>4 DEF Pool!PoolNext
  <1>3. ASSUME NEW clear \in BOOLEAN, alloc_page(clear)
        PROVE  Pool!PoolNext
    <2> DEFINE h == free_list.page
    <2>1. /\ status = "running" /\ status' = status /\ region' = region
          /\ owned' = owned \union {AllocatedPtr} /\ free_list # NULL
      BY <1>3 DEF alloc_page
    <2>2. h \in FreePages /\ h \in Ram /\ AllocatedPtr.page = h
      BY <2>1, HeadOfList
    <2>3. OwnedPages' = OwnedPages \union {h}
      BY <2>1, <2>2 DEF OwnedPages
    <2>4. FreePages' = FreePages \ {h}
      BY <1>1, <2>1, <2>3
    <2>5. Pool!Take(h)
      BY <2>1, <2>2, <2>3, <2>4 DEF Pool!Take
    <2> QED BY <2>2, <2>5 DEF Pool!PoolNext
  <1>4. ASSUME NEW ptr \in owned, free_page(ptr)
        PROVE  Pool!PoolNext
    <2> DEFINE h == ptr.page
    <2>1. /\ status = "running" /\ status' = status /\ region' = region
          /\ owned' = owned \ {ptr}
      BY <1>4 DEF free_page
    <2>2. h \in OwnedPages /\ h \in Ram
      BY HeldPage
    <2>3. OwnedPages' = OwnedPages \ {h}
      BY <2>1 DEF OwnedPages, IInv, EveryPageOnce
    <2>4. FreePages' = FreePages \union {h}
      BY <1>1, <2>1, <2>2, <2>3
    <2>5. Pool!Return(h)
      BY <2>1, <2>2, <2>3, <2>4 DEF Pool!Return
    <2> QED BY <2>2, <2>5 DEF Pool!PoolNext
  <1>5. ASSUME \/ alloc_page_panic \/ Trap
               \/ \E a \in InitArgs : init_page_alloc_runaway(a.start, a.size)
        PROVE  Pool!PoolNext
    <2>1. /\ chain' = chain /\ owned' = owned
          /\ \/ status = "running" /\ status' = "panic" /\ free_list = NULL
             \/ status \in {"boot", "running"} /\ status' = "trap"
      BY <1>5 DEF alloc_page_panic, Trap, init_page_alloc_runaway
    <2>2. FreePages' = FreePages /\ OwnedPages' = OwnedPages
      BY <2>1 DEF FreePages, OwnedPages
    <2>3. status' = "panic" => FreePages = {}
      <3>1. status' = "panic" => chain = <<>>
        BY <2>1 DEF IInv, ListInMemory
      <3> QED BY <3>1 DEF FreePages
    <2>4. Pool!Exhaust \/ Pool!Trapped
      BY <2>1, <2>2, <2>3 DEF Pool!Exhaust, Pool!Trapped
    <2> QED BY <2>4 DEF Pool!PoolNext
  <1>6. ASSUME UNCHANGED <<status, chain, owned>>
        PROVE  UNCHANGED Pool!poolVars
    BY <1>6 DEF Pool!poolVars, FreePages, OwnedPages
  <1>7. ASSUME \/ \E ptr \in owned : (\E s \in Slot, w \in Data : OwnerWrite(ptr, s, w)) \/ set_mmu(ptr)
               \/ Halted \/ UNCHANGED allocVars
        PROVE  UNCHANGED <<status, chain, owned>>
    BY <1>7 DEF OwnerWrite, set_mmu, Halted, allocVars
  <1> QED BY <1>2, <1>3, <1>4, <1>5, <1>6, <1>7 DEF AllocNext

\* The allocator, with its list threaded through the pages, does nothing that
\* the abstract pool could not do: pages.c implements PagePool.
THEOREM PoolRefinement == AllocSpec => ImplementsPool
  <1>1. AllocInit => Pool!PoolInit
    BY DEF AllocInit, Pool!PoolInit, FreePages, OwnedPages
  <1> QED BY <1>1, Invariance, PoolStep, PTL DEF AllocSpec, ImplementsPool, Pool!PoolSpec

----------------------------------------------------------------------------
(* Action properties *)

\* No call of the allocator ever changes a page that stays with its holder.
THEOREM HeldPagesSafe == AllocSpec => HeldPagesUntouched
  <1> DEFINE Untouched ==
        \A ptr \in owned \intersect owned' :
           \/ mem'[ptr.page] = mem[ptr.page]
           \/ \E s \in Slot, w \in Data : OwnerWrite(ptr, s, w)
  <1>1. ASSUME IInv, [AllocNext]_allocVars PROVE [Untouched]_allocVars
    <2> SUFFICES ASSUME AllocNext, NEW ptr \in owned, ptr \in owned'
                 PROVE  \/ mem'[ptr.page] = mem[ptr.page]
                        \/ \E s \in Slot, w \in Data : OwnerWrite(ptr, s, w)
      BY <1>1
    <2>0. /\ ptr.page \in Ram /\ ptr.page \notin FreePages
          /\ mem \in [Ram -> [Slot -> Word]]
          /\ \A a, b \in owned : a.page = b.page => a = b
      BY <1>1, HeldPage DEF IInv, AllocTypeOK, EveryPageOnce
    <2>1. ASSUME status = "boot" PROVE FALSE
      BY <1>1, <2>1 DEF IInv, NothingOwnedAtBoot
    <2>2. ASSUME NEW clear \in BOOLEAN, alloc_page(clear)
          PROVE  mem'[ptr.page] = mem[ptr.page]
      <3>1. ptr.page # free_list.page
        BY <1>1, <2>0, <2>2, HeadOfList DEF alloc_page
      <3> QED BY <2>0, <2>2, <3>1 DEF alloc_page
    <2>3. ASSUME NEW q \in owned, free_page(q)
          PROVE  mem'[ptr.page] = mem[ptr.page]
      <3>1. ptr.page # q.page
        BY <2>0, <2>3 DEF free_page
      <3> QED BY <2>0, <2>3, <3>1 DEF free_page
    <2>4. ASSUME NEW q \in owned, NEW s \in Slot, NEW w \in Data, OwnerWrite(q, s, w)
          PROVE  \/ mem'[ptr.page] = mem[ptr.page]
                 \/ OwnerWrite(ptr, s, w)
      <3>1. CASE ptr = q
        BY <2>4, <3>1
      <3>2. CASE ptr # q
        <4>1. ptr.page # q.page
          BY <2>0, <3>2
        <4> QED BY <2>0, <2>4, <4>1 DEF OwnerWrite
      <3> QED BY <3>1, <3>2
    <2>5. ASSUME alloc_page_panic \/ Trap \/ Halted \/ \E q \in owned : set_mmu(q)
          PROVE  mem' = mem
      BY <2>5 DEF alloc_page_panic, Trap, Halted, set_mmu, allocVars
    <2> QED BY <2>1, <2>2, <2>3, <2>4, <2>5
            DEF AllocNext, init_page_alloc, init_page_alloc_runaway
  <1> QED BY <1>1, Invariance, PTL DEF AllocSpec, HeldPagesUntouched

\* For every page size, a page allocated with the clear flag holds only zeros.
THEOREM ClearedPages == AllocSpec => ClearedWhenAsked
  <1> DEFINE Cleared ==
        alloc_page(TRUE) => \A ptr \in owned' \ owned : \A s \in Slot :
            mem'[ptr.page][s] = NULL
  <1>1. ASSUME IInv PROVE [Cleared]_allocVars
    <2> SUFFICES ASSUME alloc_page(TRUE), NEW ptr \in owned', ptr \notin owned, NEW s \in Slot
                 PROVE  mem'[ptr.page][s] = NULL
      OBVIOUS
    <2>1. status = "running" /\ free_list # NULL
      BY DEF alloc_page
    <2>2. free_list.page \in Ram /\ AllocatedPtr.page = free_list.page
      BY <1>1, <2>1, HeadOfList
    <2>3. ptr = AllocatedPtr
      BY DEF alloc_page
    <2>4. mem'[free_list.page] = AllocatedWords(TRUE)
      BY <1>1, <2>2 DEF alloc_page, IInv, AllocTypeOK
    <2> QED BY <2>2, <2>3, <2>4 DEF AllocatedWords
  <1> QED BY <1>1, Invariance, PTL DEF ClearedWhenAsked

----------------------------------------------------------------------------
(* The region *)

\* The pages from the first aligned one on, as many as fit, are the whole pages
\* of the range that init_page_alloc was given.
LEMMA WholePagesOfRange ==
    ASSUME NEW a \in InitArgs, PageCount(a.start, a.size) > 0
    PROVE  FirstPage(a.start) .. FirstPage(a.start) + PageCount(a.start, a.size) - 1
             = {p \in Ram : /\ a.start <= p * PAGE_SIZE
                            /\ (p + 1) * PAGE_SIZE <= a.start + a.size}
  <1> DEFINE s == a.start
             n == a.size
             f == FirstPage(s)
             c == PageCount(s, n)
  <1> USE RamAssumption, SizeAssumption
  <1>1. /\ s \in Nat /\ n \in Nat
        /\ RamStart * PAGE_SIZE <= s /\ s + n <= RamEnd * PAGE_SIZE
    BY InitArgsAssumption
  <1> HIDE DEF s, n
  <1>2. /\ f \in Int /\ c \in Int /\ f * PAGE_SIZE \in Int /\ c * PAGE_SIZE \in Int
        /\ s <= f * PAGE_SIZE /\ f * PAGE_SIZE < s + PAGE_SIZE
        /\ c * PAGE_SIZE <= s + n - f * PAGE_SIZE
        /\ s + n - f * PAGE_SIZE < c * PAGE_SIZE + PAGE_SIZE
    BY <1>1, AlignedRange
  <1> HIDE DEF f, c
  <1>3. ASSUME NEW p \in Int PROVE f <= p <=> s <= p * PAGE_SIZE
    <2>1. ASSUME f <= p PROVE s <= p * PAGE_SIZE
      <3>1. f * PAGE_SIZE <= p * PAGE_SIZE
        BY <1>2, <2>1
      <3> QED BY <1>1, <1>2, <3>1
    <2>2. ASSUME s <= p * PAGE_SIZE PROVE f <= p
      <3>1. f * PAGE_SIZE < p * PAGE_SIZE + PAGE_SIZE
        BY <1>1, <1>2, <2>2
      <3> QED BY <1>2, <3>1, MulCancel
    <2> QED BY <2>1, <2>2
  <1>4. ASSUME NEW p \in Int PROVE p <= f + c - 1 <=> (p + 1) * PAGE_SIZE <= s + n
    <2>1. (f + c) * PAGE_SIZE = f * PAGE_SIZE + c * PAGE_SIZE
      BY <1>2
    <2>2. ASSUME p <= f + c - 1 PROVE (p + 1) * PAGE_SIZE <= s + n
      <3>1. p + 1 <= f + c
        BY <1>2, <2>2
      <3>2. (p + 1) * PAGE_SIZE <= (f + c) * PAGE_SIZE
        BY <1>2, <3>1
      <3> QED BY <1>1, <1>2, <2>1, <3>2
    <2>3. ASSUME (p + 1) * PAGE_SIZE <= s + n PROVE p <= f + c - 1
      <3>1. (p + 1) * PAGE_SIZE < (f + c) * PAGE_SIZE + PAGE_SIZE
        BY <1>1, <1>2, <2>1, <2>3
      <3>2. p + 1 <= f + c
        BY <1>2, <3>1, MulCancel
      <3> QED BY <1>2, <3>2
    <2> QED BY <2>2, <2>3
  <1>5. ASSUME NEW p \in Int, p \in f .. f + c - 1 PROVE p \in Ram
    <2>1. f \in RamStart .. RamEnd /\ f + c <= RamEnd
      BY InitPages DEF s, n, f, c
    <2> QED BY <1>2, <1>5, <2>1 DEF Ram
  <1> DEFINE Whole(p) == s <= p * PAGE_SIZE /\ (p + 1) * PAGE_SIZE <= s + n
  <1>6. \A p \in Int : p \in f .. f + c - 1 <=> Whole(p)
    BY <1>2, <1>3, <1>4
  <1>7. \A p \in Ram : p \in Int
    BY DEF Ram
  <1> HIDE DEF Whole
  <1>8. f .. f + c - 1 = {p \in Ram : Whole(p)}
    BY <1>2, <1>5, <1>6, <1>7
  <1> QED BY <1>8 DEF s, n, f, c, Whole

\* For every alignment of its arguments, init_page_alloc manages exactly the
\* whole pages of the range, and no later call changes that.
THEOREM RegionIsWholePages == AllocSpec => []WholePagesOnly
  <1>1. AllocInit => WholePagesOnly
    BY DEF AllocInit, WholePagesOnly
  <1>2. ASSUME WholePagesOnly, [AllocNext]_allocVars PROVE WholePagesOnly'
    <2>1. ASSUME NEW a \in InitArgs, init_page_alloc(a.start, a.size)
          PROVE  WholePagesOnly'
      BY <2>1, WholePagesOfRange DEF init_page_alloc, WholePagesOnly
    <2>2. ASSUME region' = region, status = "running" \/ status' \in {"boot", "trap"} \/ status' = status
          PROVE  WholePagesOnly'
      BY <1>2, <2>2 DEF WholePagesOnly
    <2> QED BY <1>2, <2>1, <2>2 DEF AllocNext, allocVars, init_page_alloc_runaway, alloc_page,
            alloc_page_panic, free_page, OwnerWrite, set_mmu, Trap, Halted
  <1> QED BY <1>1, <1>2, PTL DEF AllocSpec
=============================================================================
