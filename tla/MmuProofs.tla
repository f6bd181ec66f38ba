----------------------------- MODULE MmuProofs -----------------------------
(***************************************************************************)
(* Proofs about Mmu for every geometry of the tables, every RAM and every  *)
(* sequence of calls whose virtual pages lie in the window in which the    *)
(* masks of mmu_entry are right (CallersInWindow): first that the tables   *)
(* are trees, then what they translate, that mmu_walk, and the hardware    *)
(* while it can, find what was mapped and nothing else, and that the       *)
(* kernel stays mapped.                                                    *)
(***************************************************************************)
EXTENDS Mmu, PageAllocProofs

----------------------------------------------------------------------------
(* Indices *)

\* Dividing by a positive number is monotone.
LEMMA DivLess ==
    ASSUME NEW v \in Int, NEW h \in Int, NEW d \in Nat \ {0}
    PROVE  /\ v < h * d => v \div d < h
           /\ h * d <= v => h <= v \div d
  <1> DEFINE q == v \div d
  <1>1. q \in Int /\ q * d <= v /\ v < q * d + d
    BY DivBounds
  <1> HIDE DEF q
  <1>2. ASSUME v < h * d PROVE q < h
    <2>1. SUFFICES ASSUME h <= q PROVE FALSE
      BY <1>1
    <2>2. h * d <= q * d
      BY <1>1, <2>1
    <2> QED BY <1>1, <1>2, <2>2
  <1>3. ASSUME h * d <= v PROVE h <= q
    <2>1. h * d < q * d + d
      BY <1>1, <1>3
    <2> QED BY <1>1, <2>1, MulCancel
  <1> QED BY <1>2, <1>3 DEF q

\* The remainder is what the quotient leaves.
LEMMA ModBounds ==
    ASSUME NEW a \in Int, NEW d \in Nat \ {0}
    PROVE  a % d \in 0 .. d - 1 /\ a = (a \div d) * d + (a % d)
  OBVIOUS

\* The sizes that the geometry gives the address space.
LEMMA Sizes ==
    /\ GigaPage \in Nat \ {0} /\ LowHalf \in Nat /\ ENTRY_COUNT \div 2 \in Nat
    /\ ENTRY_COUNT \div 2 <= ENTRY_COUNT /\ LowHalf = (ENTRY_COUNT \div 2) * GigaPage
    /\ Ram \subseteq 0 .. LowHalf - 1
  <1>1. ENTRY_COUNT \div 2 \in Nat /\ ENTRY_COUNT \div 2 <= ENTRY_COUNT
    BY SizeAssumption
  <1>2. GigaPage \in Nat \ {0}
    BY SizeAssumption DEF GigaPage
  <1>3. LowHalf = (ENTRY_COUNT \div 2) * GigaPage /\ LowHalf \in Nat
    BY <1>1, <1>2 DEF LowHalf
  <1> QED BY <1>1, <1>2, <1>3, RamAssumption, GeometryAssumption DEF Ram

\* The entries of a root for the two halves of the address space.
LowSlot == 0 .. ENTRY_COUNT \div 2 - 1
HighSlot == ENTRY_COUNT \div 2 .. ENTRY_COUNT - 1

\* In the window the indices stay inside their tables, at level 2 in the lower
\* half, and are the ones the hardware uses.
LEMMA WindowIndices ==
    ASSUME NEW v \in Window
    PROVE  /\ v \in Nat /\ v < LowHalf /\ v \in VirtPage
           /\ TableIndex(v, 2) = v \div GigaPage /\ TableIndex(v, 2) \in LowSlot
           /\ TableIndex(v, 1) = (v \div ENTRY_COUNT) % ENTRY_COUNT /\ TableIndex(v, 1) \in Slot
           /\ TableIndex(v, 0) = v % ENTRY_COUNT /\ TableIndex(v, 0) \in Slot
           /\ LowSlot \subseteq Slot
  <1>1. v \in Nat /\ v < LowHalf
    BY Sizes DEF Window
  <1>2. v \in VirtPage
    BY <1>1, Sizes DEF VirtPage
  <1>3. /\ TableIndex(v, 1) = (v \div ENTRY_COUNT) % ENTRY_COUNT
        /\ TableIndex(v, 0) = v % ENTRY_COUNT
    BY DEF Window, HwIndex
  <1>4. TableIndex(v, 2) = v \div GigaPage
    <2>1. v \div GigaPage \in Int
      BY <1>1, Sizes, DivBounds
    <2> QED BY <1>1, <2>1 DEF TableIndex
  <1>5. v \div GigaPage \in LowSlot
    <2>1. v \div GigaPage < ENTRY_COUNT \div 2
      BY <1>1, Sizes, DivLess, SMTT(30)
    <2>2. 0 * GigaPage <= v
      BY <1>1, Sizes
    <2>3. 0 <= v \div GigaPage
      BY SMTT(30), <1>1, <2>2, Sizes, DivLess
    <2>4. v \div GigaPage \in Int
      BY <1>1, Sizes, DivBounds
    <2> QED BY <2>1, <2>3, <2>4, Sizes DEF LowSlot
  <1>6. v % ENTRY_COUNT \in Slot
    BY <1>1, SizeAssumption, ModBounds DEF Slot
  <1>7. (v \div ENTRY_COUNT) % ENTRY_COUNT \in Slot
    <2>1. v \div ENTRY_COUNT \in Int
      BY <1>1, SizeAssumption, DivBounds
    <2> QED BY <2>1, SizeAssumption, ModBounds DEF Slot
  <1>8. LowSlot \subseteq Slot
    BY Sizes, SizeAssumption DEF LowSlot, Slot
  <1> QED BY <1>1, <1>2, <1>3, <1>4, <1>5, <1>6, <1>7, <1>8

\* Dividing twice by the size of a table is dividing by a gigapage.
LEMMA DivTwice ==
    ASSUME NEW v \in Nat
    PROVE  (v \div ENTRY_COUNT) \div ENTRY_COUNT = v \div GigaPage
  <1> DEFINE d == ENTRY_COUNT
             q == v \div d
             r == q \div d
             g == v \div GigaPage
  <1>1. d \in Nat \ {0} /\ GigaPage = d * d
    BY SizeAssumption DEF GigaPage
  <1> HIDE DEF d
  <1>2. q \in Int /\ q * d <= v /\ v < q * d + d
    BY <1>1, DivBounds
  <1> HIDE DEF q
  <1>3. r \in Int /\ r * d <= q /\ q < r * d + d
    BY <1>1, <1>2, DivBounds
  <1>4. g \in Int /\ g * GigaPage <= v /\ v < g * GigaPage + GigaPage
    BY Sizes, DivBounds
  <1> HIDE DEF r, g
  <1>5. r * GigaPage <= v
    <2>1. (r * d) * d <= q * d
      BY <1>1, <1>2, <1>3
    <2>2. (r * d) * d = r * GigaPage
      BY <1>1, <1>3
    <2> QED BY <1>2, <2>1, <2>2, Sizes, <1>1, <1>3
  <1>6. v < r * GigaPage + GigaPage
    <2>1. q + 1 <= r * d + d
      BY <1>1, <1>2, <1>3
    <2>2. (q + 1) * d <= (r * d + d) * d
      BY <1>1, <1>2, <1>3, <2>1
    <2>3. (r * d + d) * d = r * GigaPage + GigaPage
      BY <1>1, <1>3
    <2>4. (q + 1) * d = q * d + d
      BY <1>1, <1>2
    <2> QED BY <1>1, <1>2, <1>3, <2>2, <2>3, <2>4
  <1>7. r <= g
    <2>1. r * GigaPage < g * GigaPage + GigaPage
      BY <1>3, <1>4, <1>5, Sizes
    <2> QED BY <1>3, <1>4, <2>1, Sizes, MulCancel
  <1>8. g <= r
    <2>1. g * GigaPage < r * GigaPage + GigaPage
      BY <1>3, <1>4, <1>6, Sizes
    <2> QED BY <1>3, <1>4, <2>1, Sizes, MulCancel
  <1>9. r = g
    BY <1>3, <1>4, <1>7, <1>8
  <1> QED BY <1>9 DEF r, g, q, d

\* The hardware's three indices tell all virtual pages apart.
LEMMA IndicesTell ==
    ASSUME NEW v \in Nat, NEW w \in Nat,
           v \div GigaPage = w \div GigaPage,
           (v \div ENTRY_COUNT) % ENTRY_COUNT = (w \div ENTRY_COUNT) % ENTRY_COUNT,
           v % ENTRY_COUNT = w % ENTRY_COUNT
    PROVE  v = w
  <1> DEFINE q(x) == x \div ENTRY_COUNT
  <1>1. q(v) \in Int /\ q(w) \in Int
    BY SizeAssumption, DivBounds
  <1>2. q(v) \div ENTRY_COUNT = q(w) \div ENTRY_COUNT
    BY DivTwice
  <1>3. q(v) % ENTRY_COUNT = q(w) % ENTRY_COUNT
    OBVIOUS
  <1>4. v = q(v) * ENTRY_COUNT + (v % ENTRY_COUNT) /\ w = q(w) * ENTRY_COUNT + (w % ENTRY_COUNT)
    BY SizeAssumption, ModBounds
  <1> HIDE DEF q
  <1>5. /\ q(v) = (q(v) \div ENTRY_COUNT) * ENTRY_COUNT + (q(v) % ENTRY_COUNT)
        /\ q(w) = (q(w) \div ENTRY_COUNT) * ENTRY_COUNT + (q(w) % ENTRY_COUNT)
    BY <1>1, SizeAssumption, ModBounds
  <1>6. q(v) = q(w)
    BY <1>2, <1>3, <1>5
  <1> QED BY <1>4, <1>6

\* An index of the table is a word of the table's own page.
LEMMA InTable ==
    ASSUME NEW t, t.page \in Int, NEW index \in Slot
    PROVE  EntryPage(t, index) = t.page /\ EntrySlot(index) = index
  <1>1. index \in Nat /\ index < ENTRY_COUNT /\ ENTRY_COUNT \in Nat \ {0}
    BY SizeAssumption DEF Slot
  <1>2. index \div ENTRY_COUNT = 0 /\ index % ENTRY_COUNT = index
    <2>1. index \div ENTRY_COUNT < 1
      <3> DEFINE q == index \div ENTRY_COUNT
      <3>1. q \in Int /\ q * ENTRY_COUNT <= index
        BY <1>1, DivBounds
      <3> HIDE DEF q
      <3>2. q >= 1 => q * ENTRY_COUNT >= ENTRY_COUNT
        BY <1>1, <3>1
      <3>3. q * ENTRY_COUNT \in Int
        BY <1>1, <3>1
      <3>4. q < 1
        BY <1>1, <3>1, <3>2, <3>3
      <3> QED BY <3>4 DEF q
    <2>2. 0 <= index \div ENTRY_COUNT
      <3>1. 0 * ENTRY_COUNT <= index
        BY <1>1
      <3> QED BY SMTT(30), <1>1, <3>1, DivLess
    <2>3. index \div ENTRY_COUNT \in Int
      BY <1>1, DivBounds
    <2>4. index \div ENTRY_COUNT = 0
      BY <2>1, <2>2, <2>3
    <2>5. index = (index \div ENTRY_COUNT) * ENTRY_COUNT + (index % ENTRY_COUNT)
      BY <1>1, ModBounds
    <2>6. index % ENTRY_COUNT \in Int
      BY <1>1, ModBounds
    <2> QED BY <1>1, <2>4, <2>5, <2>6
  <1> QED BY <1>2 DEF EntryPage, EntrySlot

\* A page of the upper half has a level-2 index beyond RAM: mmu_entry traps.
LEMMA BeyondRam ==
    ASSUME NEW v \in VirtPage, v >= LowHalf, NEW t, t.page \in Ram
    PROVE  EntryPage(t, TableIndex(v, 2)) \notin Ram
  <1> DEFINE n == RamEnd - RamStart
             i == v \div GigaPage + SIGN_BITS
  <1>1. v \in Nat /\ n \in Int /\ SIGN_BITS \in Nat /\ n * ENTRY_COUNT <= SIGN_BITS
    <2>1. v \in Nat
      BY Sizes DEF VirtPage
    <2>2. n \in Int /\ SIGN_BITS \in Nat
      BY RamAssumption, GeometryAssumption
    <2> HIDE DEF n
    <2>3. ENTRY_COUNT * n = n * ENTRY_COUNT
      BY <2>2, SizeAssumption
    <2> QED BY <2>1, <2>2, <2>3, SignAssumption DEF n
  <1>2. v \div GigaPage \in Int /\ 0 <= v \div GigaPage
    <2>1. 0 * GigaPage <= v
      BY <1>1, Sizes
    <2> QED BY SMTT(30), <1>1, <2>1, Sizes, DivLess, DivBounds
  <1>3. TableIndex(v, 2) = i
    BY <1>1, Sizes DEF TableIndex
  <1>4. i \in Int /\ n * ENTRY_COUNT <= i
    <2> HIDE DEF n
    <2> QED BY <1>1, <1>2, SizeAssumption
  <1> HIDE DEF i, n
  <1>5. n <= i \div ENTRY_COUNT /\ i \div ENTRY_COUNT \in Int
    BY <1>1, <1>4, SizeAssumption, DivLess, DivBounds
  <1>6. EntryPage(t, i) >= RamEnd /\ EntryPage(t, i) \in Int
    BY <1>5, RamAssumption DEF EntryPage, n, Ram
  <1> QED BY <1>3, <1>6, RamAssumption DEF Ram

----------------------------------------------------------------------------
(* The pages that identity_map maps *)

\* The number of a page from its address.
LEMMA MulDiv ==
    ASSUME NEW k \in Int, NEW d \in Nat \ {0}
    PROVE  (k * d) \div d = k
  <1> DEFINE q == (k * d) \div d
  <1>1. q \in Int /\ q * d <= k * d /\ k * d < q * d + d
    BY DivBounds
  <1> HIDE DEF q
  <1>2. k <= q
    BY <1>1, MulCancel
  <1>3. q * d < k * d + d
    BY <1>1
  <1>4. q <= k
    BY <1>1, <1>3, MulCancel
  <1>5. q = k
    BY <1>1, <1>2, <1>4
  <1> QED BY <1>5 DEF q

\* The first page of identity_map(start, end) and the one after its last.
First(start) == PAGE_ALIGN_PREV(start) \div PAGE_SIZE
After(end) == PAGE_ALIGN(end) \div PAGE_SIZE

\* identity_map covers the pages that the range [start, end) touches.
LEMMA PagesTouched ==
    ASSUME NEW start \in Nat, NEW end \in Nat
    PROVE  /\ First(start) \in Int /\ After(end) \in Int
           /\ \A p \in Int : First(start) <= p <=> start < (p + 1) * PAGE_SIZE
           /\ \A p \in Int : p <= After(end) - 1 <=> p * PAGE_SIZE < end
  <1> DEFINE f == First(start)
             g == After(end)
  <1> USE SizeAssumption
  <1>1. f = start \div PAGE_SIZE
    BY DivBounds, MulDiv DEF First, PAGE_ALIGN_PREV
  <1>2. f \in Int /\ f * PAGE_SIZE <= start /\ start < f * PAGE_SIZE + PAGE_SIZE
    BY <1>1, DivBounds
  <1>3. g = FirstPage(end)
    BY DEF After, FirstPage
  <1>4. g \in Int /\ g * PAGE_SIZE \in Int /\ end <= g * PAGE_SIZE /\ g * PAGE_SIZE < end + PAGE_SIZE
    BY <1>3, AlignedRange
  <1> HIDE DEF f, g
  <1>5. ASSUME NEW p \in Int PROVE f <= p <=> start < (p + 1) * PAGE_SIZE
    <2>1. (p + 1) * PAGE_SIZE = p * PAGE_SIZE + PAGE_SIZE /\ p * PAGE_SIZE \in Int
      OBVIOUS
    <2>2. f <= p => f * PAGE_SIZE <= p * PAGE_SIZE
      BY <1>2
    <2>3. start < p * PAGE_SIZE + PAGE_SIZE => f <= p
      <3>1. start < p * PAGE_SIZE + PAGE_SIZE => f * PAGE_SIZE < p * PAGE_SIZE + PAGE_SIZE
        BY <1>2, <2>1
      <3> QED BY <1>2, <3>1, MulCancel
    <2> QED BY <1>2, <2>1, <2>2, <2>3
  <1>6. ASSUME NEW p \in Int PROVE p <= g - 1 <=> p * PAGE_SIZE < end
    <2>1. (p + 1) * PAGE_SIZE = p * PAGE_SIZE + PAGE_SIZE /\ p * PAGE_SIZE \in Int
      OBVIOUS
    <2>2. p + 1 <= g => (p + 1) * PAGE_SIZE <= g * PAGE_SIZE
      BY <1>4
    <2>3. ASSUME p * PAGE_SIZE < end PROVE p + 1 <= g
      <3>1. (p + 1) * PAGE_SIZE < g * PAGE_SIZE + PAGE_SIZE
        BY <1>4, <2>1, <2>3
      <3> QED BY <1>4, <3>1, MulCancel
    <2> QED BY <1>4, <2>1, <2>2, <2>3
  <1> QED BY <1>2, <1>4, <1>5, <1>6 DEF f, g

\* The members of a sequence.
Members(s) == {s[i] : i \in 1 .. Len(s)}

\* identity_map makes one call of mmu_map for each page that the range touches.
LEMMA IdentityMapCalls ==
    ASSUME NEW start \in Nat, NEW end \in Nat, start <= end, NEW flags \in SUBSET Flag
    PROVE  /\ IdentityMap(start, end, flags) \in Seq([virt : Int, flags : SUBSET Flag])
           /\ Members(IdentityMap(start, end, flags)) =
                 {[virt |-> v, flags |-> flags] : v \in First(start) .. After(end) - 1}
  <1> DEFINE f == First(start)
             g == After(end)
             n == g - 1 - f + 1
             m == [i \in 1 .. n |-> [virt |-> f + i - 1, flags |-> flags]]
  <1>1. f \in Int /\ g \in Int
    BY PagesTouched
  <1>2. IdentityMap(start, end, flags) = m
    BY DEF IdentityMap, First, After
  <1> HIDE DEF f, g
  <1>3. n \in Nat
    <2>1. ~(g - 1 < f - 1)
      <3>1. \A p \in Int : f <= p <=> start < (p + 1) * PAGE_SIZE
        BY PagesTouched DEF f
      <3>2. \A p \in Int : p <= g - 1 <=> p * PAGE_SIZE < end
        BY PagesTouched DEF g
      <3>3. SUFFICES ASSUME g - 1 < f - 1 PROVE FALSE
        OBVIOUS
      <3>4. ~(start < (f - 1 + 1) * PAGE_SIZE) /\ ~(g * PAGE_SIZE < end)
        BY <1>1, <3>1, <3>2
      <3>5. f * PAGE_SIZE \in Int /\ g * PAGE_SIZE \in Int /\ g * PAGE_SIZE + PAGE_SIZE <= f * PAGE_SIZE
        <4>1. (g + 1) * PAGE_SIZE <= f * PAGE_SIZE
          BY <1>1, <3>3, SizeAssumption
        <4> QED BY <1>1, <4>1, SizeAssumption
      <3>6. f * PAGE_SIZE <= start /\ end <= g * PAGE_SIZE
        BY <1>1, <3>4, <3>5
      <3> QED BY <3>5, <3>6, SizeAssumption
    <2> QED BY <1>1, <2>1
  <1>4. m \in Seq([virt : Int, flags : SUBSET Flag]) /\ Len(m) = n
    BY <1>1, <1>3
  <1>5. \A i \in 1 .. n : f + i - 1 \in f .. g - 1 /\ m[i] = [virt |-> f + i - 1, flags |-> flags]
    BY <1>1
  <1>6. \A v \in f .. g - 1 : v - f + 1 \in 1 .. n /\ m[v - f + 1] = [virt |-> v, flags |-> flags]
    BY <1>1
  <1> HIDE DEF m, n
  <1>7. Members(m) = {[virt |-> v, flags |-> flags] : v \in f .. g - 1}
    BY <1>4, <1>5, <1>6 DEF Members
  <1> QED BY <1>2, <1>4, <1>7 DEF f, g

\* The members of a concatenation.
LEMMA ConcatMembers ==
    ASSUME NEW T, NEW a \in Seq(T), NEW b \in Seq(T)
    PROVE  a \o b \in Seq(T) /\ Members(a \o b) = Members(a) \union Members(b)
  <1>1. /\ a \o b \in Seq(T) /\ Len(a \o b) = Len(a) + Len(b) /\ Len(a) \in Nat /\ Len(b) \in Nat
        /\ \A i \in 1 .. Len(a) + Len(b) :
              (a \o b)[i] = IF i <= Len(a) THEN a[i] ELSE b[i - Len(a)]
    OBVIOUS
  <1>2. ASSUME NEW x \in Members(a \o b) PROVE x \in Members(a) \union Members(b)
    <2>1. PICK i \in 1 .. Len(a) + Len(b) : x = (a \o b)[i]
      BY <1>1 DEF Members
    <2>2. CASE i <= Len(a)
      BY <1>1, <2>1, <2>2 DEF Members
    <2>3. CASE ~(i <= Len(a))
      <3>1. i - Len(a) \in 1 .. Len(b)
        BY <1>1, <2>3
      <3> QED BY <1>1, <2>1, <2>3, <3>1 DEF Members
    <2> QED BY <2>2, <2>3
  <1>3. ASSUME NEW x \in Members(a) PROVE x \in Members(a \o b)
    <2>1. PICK i \in 1 .. Len(a) : x = a[i]
      BY DEF Members
    <2>2. i \in 1 .. Len(a) + Len(b) /\ (a \o b)[i] = a[i]
      BY <1>1
    <2> QED BY <1>1, <2>1, <2>2 DEF Members
  <1>4. ASSUME NEW x \in Members(b) PROVE x \in Members(a \o b)
    <2>1. PICK i \in 1 .. Len(b) : x = b[i]
      BY DEF Members
    <2>2. Len(a) + i \in 1 .. Len(a) + Len(b) /\ (a \o b)[Len(a) + i] = b[i]
      BY <1>1
    <2> QED BY <1>1, <2>1, <2>2 DEF Members
  <1> QED BY <1>1, <1>2, <1>3, <1>4

\* The pages of a section, as identity_map maps them.
Identity(start, end, flags) ==
    {[virt |-> v, flags |-> flags] : v \in First(start) .. After(end) - 1}

\* The calls that mmu_new_page_table makes: the three sections, in RAM.
LEMMA KernelCalls ==
    /\ KernelPages \in Seq([virt : Ram, flags : SUBSET Flag])
    /\ Members(KernelPages) =
          Identity(text_start, ro_data_start, {"GLOBAL", "EXEC"}) \union
          Identity(ro_data_start, data_start, {"GLOBAL", "READ"}) \union
          Identity(data_start, pages_bottom, {"GLOBAL", "READ", "WRITE"})
  <1> DEFINE T == [virt : Int, flags : SUBSET Flag]
             fa == {"GLOBAL", "EXEC"}
             fb == {"GLOBAL", "READ"}
             fc == {"GLOBAL", "READ", "WRITE"}
             a == IdentityMap(text_start, ro_data_start, fa)
             b == IdentityMap(ro_data_start, data_start, fb)
             c == IdentityMap(data_start, pages_bottom, fc)
  <1>1. text_start \in Nat /\ ro_data_start \in Nat /\ data_start \in Nat /\ pages_bottom \in Nat
    BY KernelAssumption
  <1>2. text_start <= ro_data_start /\ ro_data_start <= data_start /\ data_start <= pages_bottom
    BY KernelAssumption
  <1>3. fa \in SUBSET Flag /\ fb \in SUBSET Flag /\ fc \in SUBSET Flag
    BY DEF Flag
  <1>4. KernelPages = (a \o b) \o c
    BY DEF KernelPages
  <1>0. \A s \in Nat, e \in Nat, f \in SUBSET Flag : s <= e =>
          /\ IdentityMap(s, e, f) \in Seq(T) /\ Members(IdentityMap(s, e, f)) = Identity(s, e, f)
    BY IdentityMapCalls DEF Identity
  <1> HIDE DEF fa, fb, fc, T
  <1>5. a \in Seq(T) /\ Members(a) = Identity(text_start, ro_data_start, fa)
    BY <1>0, <1>1, <1>2, <1>3
  <1>6. b \in Seq(T) /\ Members(b) = Identity(ro_data_start, data_start, fb)
    BY <1>0, <1>1, <1>2, <1>3
  <1>7. c \in Seq(T) /\ Members(c) = Identity(data_start, pages_bottom, fc)
    BY <1>0, <1>1, <1>2, <1>3
  <1> HIDE DEF a, b, c, T
  <1>8. a \o b \in Seq(T) /\ Members(a \o b) = Members(a) \union Members(b)
    BY <1>5, <1>6, ConcatMembers
  <1>9. /\ KernelPages \in Seq(T)
        /\ Members(KernelPages) = (Members(a) \union Members(b)) \union Members(c)
    <2> DEFINE ab == a \o b
    <2>1. ab \in Seq(T) /\ Members(ab) = Members(a) \union Members(b) /\ KernelPages = ab \o c
      BY <1>4, <1>8
    <2> HIDE DEF ab
    <2>2. ab \o c \in Seq(T) /\ Members(ab \o c) = Members(ab) \union Members(c)
      BY <1>7, <2>1, ConcatMembers
    <2> QED BY <2>1, <2>2
  <1>10. ASSUME NEW x \in Members(KernelPages) PROVE x \in [virt : Ram, flags : SUBSET Flag]
    <2>1. PICK s \in Nat, e \in Nat, f \in SUBSET Flag :
             x \in Identity(s, e, f) /\ text_start <= s /\ e <= pages_bottom
      <3>1. CASE x \in Members(a)
        BY <1>1, <1>2, <1>3, <1>5, <3>1
      <3>2. CASE x \in Members(b)
        BY <1>1, <1>2, <1>3, <1>6, <3>2
      <3>3. CASE x \in Members(c)
        BY <1>1, <1>2, <1>3, <1>7, <3>3
      <3> QED BY <1>9, <3>1, <3>2, <3>3
    <2>2. PICK v \in First(s) .. After(e) - 1 : x = [virt |-> v, flags |-> f]
      BY <2>1 DEF Identity
    <2>3. v \in Int /\ s < (v + 1) * PAGE_SIZE /\ v * PAGE_SIZE < e
      BY PagesTouched
    <2>4. /\ RamStart * PAGE_SIZE < v * PAGE_SIZE + PAGE_SIZE
          /\ v * PAGE_SIZE + PAGE_SIZE < RamEnd * PAGE_SIZE + PAGE_SIZE
      <3>1. (v + 1) * PAGE_SIZE = v * PAGE_SIZE + PAGE_SIZE /\ v * PAGE_SIZE \in Int
        BY <2>3, SizeAssumption
      <3>2. RamStart * PAGE_SIZE <= text_start /\ pages_bottom <= RamEnd * PAGE_SIZE
        BY KernelAssumption
      <3>3. RamStart * PAGE_SIZE \in Int /\ RamEnd * PAGE_SIZE \in Int
        BY RamAssumption, SizeAssumption
      <3> QED BY <1>1, <2>1, <2>3, <3>1, <3>2, <3>3, SizeAssumption
    <2>5. RamStart <= v
      BY <2>3, <2>4, RamAssumption, SizeAssumption, MulCancel
    <2>6. v + 1 <= RamEnd
      <3>1. (v + 1) * PAGE_SIZE < RamEnd * PAGE_SIZE + PAGE_SIZE
        BY <2>3, <2>4, SizeAssumption
      <3> QED BY <2>3, <3>1, RamAssumption, SizeAssumption, MulCancel
    <2> QED BY <2>2, <2>3, <2>5, <2>6, RamAssumption DEF Ram
  <1>11. KernelPages \in Seq([virt : Ram, flags : SUBSET Flag])
    <2> DEFINE S == [virt : Ram, flags : SUBSET Flag]
    <2> HIDE DEF S
    <2>1. \A i \in 1 .. Len(KernelPages) : KernelPages[i] \in S
      BY <1>10 DEF Members, S
    <2>2. KernelPages \in Seq(S)
      BY <1>9, <2>1
    <2> QED BY <2>2 DEF S
  <1> QED BY <1>5, <1>6, <1>7, <1>9, <1>11 DEF fa, fb, fc

----------------------------------------------------------------------------
(* Words and stores *)

\* What mmu_entry links a table with, and what mmu_map stores at level 0.
LinkWord == [ppn : Ram, top : Top, flags : {{"VALID"}}]
MapFlagSets == {f \union {"VALID"} : f \in MapFlags \union
                   {KernelPages[i].flags : i \in 1 .. Len(KernelPages)}}
MapWord == [ppn : Ram, top : Top, flags : MapFlagSets]

\* How the words of a table read: the zero word is missing, a link is neither
\* missing nor a leaf, an entry of the top half is a leaf.
LEMMA WordsRead ==
    /\ Missing(NULL) /\ EntryFlags(NULL) = {}
    /\ NULL \notin LinkWord /\ NULL \notin MapWord
    /\ LinkWord \subseteq Pte /\ MapWord \subseteq Pte
    /\ \A w \in LinkWord : ~Missing(w) /\ ~IsLeaf(w)
    /\ \A s \in HighSlot : /\ TopHalfEntry(s) \in Pte /\ TopHalfEntry(s) \notin LinkWord
                           /\ ~Missing(TopHalfEntry(s)) /\ IsLeaf(TopHalfEntry(s))
                           /\ EntryFlags(TopHalfEntry(s)) = TopHalfEntry(s).flags
  <1>0. MapFlagSets \subseteq SUBSET Flag
    <2> DEFINE T == [virt : Ram, flags : SUBSET Flag]
    <2>1. \A i \in 1 .. Len(KernelPages) : KernelPages[i] \in T
      <3>1. KernelPages \in Seq(T)
        BY KernelCalls
      <3> HIDE DEF T
      <3> QED BY <3>1
    <2>2. "VALID" \in Flag
      BY DEF Flag
    <2> QED BY <2>1, <2>2, MapAssumption DEF MapFlagSets
  <1>1. LinkWord \subseteq Pte /\ MapWord \subseteq Pte
    <2>1. LinkWord \subseteq Pte
      BY Sizes DEF LinkWord, Pte, Flag
    <2>2. MapWord \subseteq Pte
      BY <1>0, Sizes DEF MapWord, Pte
    <2> QED BY <2>1, <2>2
  <1>2. NULL \notin Pte
    BY PteAssumption
  <1>3. Missing(NULL) /\ EntryFlags(NULL) = {}
    BY <1>2 DEF Missing, EntryFlags
  <1>4. ASSUME NEW w \in LinkWord PROVE ~Missing(w) /\ ~IsLeaf(w)
    <2>1. EntryFlags(w) = {"VALID"}
      BY <1>1 DEF EntryFlags, LinkWord
    <2> QED BY <2>1 DEF Missing, IsLeaf
  <1>5. ASSUME NEW s \in HighSlot
        PROVE  /\ TopHalfEntry(s) \in Pte /\ TopHalfEntry(s) \notin LinkWord
               /\ ~Missing(TopHalfEntry(s)) /\ IsLeaf(TopHalfEntry(s))
               /\ EntryFlags(TopHalfEntry(s)) = TopHalfEntry(s).flags
    <2> DEFINE h == ENTRY_COUNT \div 2
               n == (s - h) * GigaPage
    <2>1. s \in Int /\ h \in Nat /\ h <= s /\ s - h <= h - 1
      BY Sizes, SizeAssumption, GeometryAssumption DEF HighSlot
    <2>2. GigaPage \in Nat /\ LowHalf = h * GigaPage
      BY Sizes
    <2> HIDE DEF h
    <2>3. n \in Nat /\ n <= (h - 1) * GigaPage
      BY <2>1, <2>2
    <2>4. (h - 1) * GigaPage = h * GigaPage - GigaPage
      BY <2>1, <2>2
    <2>5. n \in 0 .. LowHalf - 1
      <3>1. GigaPage # 0
        BY Sizes
      <3> HIDE DEF n
      <3> QED BY <2>1, <2>2, <2>3, <2>4, <3>1
    <2>6. TopHalfEntry(s) = [ppn |-> n, top |-> "zero", flags |-> {"GLOBAL", "READ", "WRITE", "VALID"}]
      BY DEF TopHalfEntry, h
    <2> HIDE DEF n
    <2>7. TopHalfEntry(s) \in Pte
      BY <2>5, <2>6 DEF Pte, Top, Flag
    <2>8. TopHalfEntry(s).flags = {"GLOBAL", "READ", "WRITE", "VALID"}
      BY <2>6
    <2>9. TopHalfEntry(s) \notin LinkWord
      BY <2>8 DEF LinkWord
    <2>10. EntryFlags(TopHalfEntry(s)) = {"GLOBAL", "READ", "WRITE", "VALID"}
      BY <2>7, <2>8 DEF EntryFlags
    <2> QED BY <2>7, <2>8, <2>9, <2>10 DEF Missing, IsLeaf
  <1> QED BY <1>1, <1>2, <1>3, <1>4, <1>5

\* A store changes one word of memory.
LEMMA OneWord ==
    ASSUME mem \in [Ram -> [Slot -> Word]], NEW p \in Ram, NEW s \in Slot, NEW w,
           mem' = [mem EXCEPT ![p][s] = w]
    PROVE  /\ \A q \in Ram, t \in Slot :
                 mem'[q][t] = IF q = p /\ t = s THEN w ELSE mem[q][t]
           /\ \A q \in Ram : q # p => mem'[q] = mem[q]
  OBVIOUS

----------------------------------------------------------------------------
(* The invariant *)

\* The words that a table of level k may hold in slot s.
WordsOf(k, s) ==
    IF k = 2 THEN IF s \in LowSlot THEN {NULL} \union LinkWord
                  ELSE {NULL, TopHalfEntry(s)}
    ELSE IF k = 1 THEN {NULL} \union LinkWord
    ELSE {NULL} \union MapWord

\* Slot s of page p links table q.
Links(p, s, q) == mem[p][s] \in LinkWord /\ mem[p][s].ppn = q

\* Each table has a level (kind): the roots have level 2, every table holds words
\* of its level, and links lead one level down.
Leveled(kind) ==
    /\ \A p \in tables : kind[p] = 2 <=> p \in Roots
    /\ \A p \in tables, s \in Slot : mem[p][s] \in WordsOf(kind[p], s)
    /\ \A p \in tables, s \in Slot, q \in Ram :
          kind[p] > 0 /\ Links(p, s, q) => q \in tables /\ kind[q] = kind[p] - 1

\* No table is linked twice, and every table but a root is linked, except for the
\* one that mmu_entry is about to link.
LinkedOnce(kind) ==
    /\ \A p, r \in tables, s, t \in Slot, q \in Ram :
          kind[p] > 0 /\ kind[r] > 0 /\ Links(p, s, q) /\ Links(r, t, q) => p = r /\ s = t
    /\ \A q \in tables : kind[q] < 2 /\ ~(pc = "link" /\ q = page.page) =>
          \E p \in tables, s \in Slot : kind[p] > 0 /\ Links(p, s, q)

\* That one is empty, of the right level, and not linked.
NewTable(kind) ==
    pc = "link" =>
        /\ page.page \in tables /\ kind[page.page] = level - 1
        /\ \A s \in Slot : mem[page.page][s] = NULL
        /\ \A p \in tables, s \in Slot : kind[p] > 0 => ~Links(p, s, page.page)

\* The page tables are trees, whatever else the words in them may mean.
Shape == \E kind \in [tables -> 0 .. 2] : Leveled(kind) /\ LinkedOnce(kind) /\ NewTable(kind)

\* The way that mmu_entry has gone from the root to table q, at level i.
AtLevel(root, v, q, i) ==
    /\ i = 2 => q = root
    /\ i = 1 => Links(root, TableIndex(v, 2), q)
    /\ i = 0 => \E m \in tables : Links(root, TableIndex(v, 2), m) /\ Links(m, TableIndex(v, 1), q)

InMap == pc \in {"walk", "link"}

\* What is known of the tables and of the call in progress.
Owners ==
    /\ ready \subseteq owned
    /\ mmu # NULL => mmu \in owned
    /\ tables \subseteq OwnedPages
    /\ Roots \subseteq tables
    /\ status = "boot" => tables = {} /\ mmu = NULL /\ ready = {} /\ pc = "idle"
Control ==
    /\ pc \in {"idle", "fetch"} /\ mmu # NULL => mmu \in ready
    /\ pc \notin {"idle", "fetch"} => mmu # NULL
    /\ Members(todo) \subseteq Members(KernelPages)
    /\ pc = "tophalf" => /\ table \in Ptr /\ table.page = mmu.page
                         /\ level \in ENTRY_COUNT \div 2 .. ENTRY_COUNT
MapEntry == [ppn |-> arg.phys.page, top |-> arg.phys.top, flags |-> arg.flags]
Walk ==
    InMap =>
        /\ arg \in [virt : VirtPage, phys : Ptr, flags : SUBSET Flag]
        /\ arg.phys.page \in Ram /\ arg.flags \in MapFlagSets /\ MapEntry \in Data
        /\ caller = "idle" => mmu \in ready
        /\ level \in 0 .. 2 /\ table \in Ptr
        /\ arg.virt \in Window \/ (arg.virt >= LowHalf /\ level = 2 /\ pc = "walk")
        /\ AtLevel(mmu.page, arg.virt, table.page, level)
        /\ pc = "link" => /\ page \in Ptr /\ level > 0
                          /\ mem[table.page][Index] = NULL

\* The inductive invariant.
MInv == IInv /\ MmuTypeOK /\ Owners /\ Control /\ Walk /\ Shape

\* Tables are pages in RAM that somebody holds.
LEMMA TableHeld ==
    ASSUME MInv, NEW p \in tables
    PROVE  p \in Ram /\ p \notin FreePages /\ \E ptr \in owned : ptr.page = p
  <1>1. PICK ptr \in owned : ptr.page = p
    BY DEF MInv, Owners, OwnedPages
  <1> QED BY <1>1, HeldPage DEF MInv

\* Where mmu_entry stands, unless the next access traps.
LEMMA WalkFacts ==
    ASSUME MInv, NEW kind \in [tables -> 0 .. 2], Leveled(kind),
           InMap, pc = "link" \/ EntryPage(table, Index) \in Ram
    PROVE  /\ arg.virt \in Window /\ Index \in Slot
           /\ mmu.page \in tables /\ kind[mmu.page] = 2
           /\ table.page \in tables /\ kind[table.page] = level
           /\ EntryPage(table, Index) = table.page /\ EntrySlot(Index) = Index
           /\ level = 2 => Index \in LowSlot
  <1>1. mmu # NULL /\ mmu.page \in Roots /\ mmu.page \in tables /\ mmu.page \in Ram
    <2>1. mmu # NULL
      BY DEF MInv, Control, InMap
    <2>2. mmu.page \in Roots
      BY <2>1 DEF Roots
    <2>3. mmu.page \in tables
      BY <2>2 DEF MInv, Owners
    <2> QED BY <2>1, <2>2, <2>3, TableHeld
  <1>2. kind[mmu.page] = 2
    BY <1>1 DEF Leveled
  <1>3. arg.virt \in Window
    <2>1. SUFFICES ASSUME arg.virt >= LowHalf, level = 2, pc = "walk" PROVE FALSE
      BY DEF MInv, Walk
    <2>2. table.page = mmu.page /\ arg.virt \in VirtPage
      BY <2>1 DEF MInv, Walk, AtLevel
    <2>3. EntryPage(table, Index) \notin Ram
      BY <1>1, <2>1, <2>2, BeyondRam DEF Index
    <2> QED BY <2>1, <2>3
  <1>4. /\ TableIndex(arg.virt, 2) \in LowSlot /\ TableIndex(arg.virt, 1) \in Slot
        /\ TableIndex(arg.virt, 0) \in Slot /\ LowSlot \subseteq Slot
    BY <1>3, WindowIndices
  <1>5. level \in 0 .. 2 /\ AtLevel(mmu.page, arg.virt, table.page, level)
    BY DEF MInv, Walk
  <1>6. Index \in Slot /\ (level = 2 => Index \in LowSlot)
    BY <1>4, <1>5 DEF Index
  <1>7. \A p \in tables, s \in Slot : \A q :
           kind[p] > 0 /\ Links(p, s, q) => q \in tables /\ kind[q] = kind[p] - 1
    BY DEF Leveled, Links, LinkWord
  <1>8. table.page \in tables /\ kind[table.page] = level
    <2>1. CASE level = 2
      BY <1>1, <1>2, <1>5, <2>1 DEF AtLevel
    <2>2. CASE level = 1
      BY <1>1, <1>2, <1>4, <1>5, <1>7, <2>2 DEF AtLevel
    <2>3. CASE level = 0
      <3>1. PICK m \in tables : /\ Links(mmu.page, TableIndex(arg.virt, 2), m)
                                /\ Links(m, TableIndex(arg.virt, 1), table.page)
        BY <1>5, <2>3 DEF AtLevel
      <3>2. kind[m] = 1
        BY <1>1, <1>2, <1>4, <1>7, <3>1
      <3> QED BY <1>4, <1>7, <2>3, <3>1, <3>2
    <2> QED BY <1>5, <2>1, <2>2, <2>3
  <1>9. table.page \in Int
    BY <1>8, TableHeld, RamAssumption DEF Ram
  <1> QED BY <1>1, <1>2, <1>3, <1>6, <1>8, <1>9, InTable

----------------------------------------------------------------------------
(* Every step is one of the allocator's *)

\* A store into a table is a write by the holder of the page.
LEMMA StoreIsWrite ==
    ASSUME MInv, status = "running", NEW p \in tables, NEW s \in Slot, NEW w \in Data,
           mem' = [mem EXCEPT ![p][s] = w],
           UNCHANGED <<status, free_list, satp, region, chain, owned>>
    PROVE  AllocNext
  <1>1. PICK ptr \in owned : ptr.page = p
    BY TableHeld
  <1>2. OwnerWrite(ptr, s, w)
    BY <1>1 DEF OwnerWrite
  <1> QED BY <1>1, <1>2 DEF AllocNext

\* What mmu_entry links, what mmu_map stores and what the top half is filled with
\* are words that a holder may store.
LEMMA StoredWords ==
    /\ \A ptr \in Ptr : ptr.page \in Ram =>
          /\ [ppn |-> ptr.page, top |-> ptr.top, flags |-> {"VALID"}] \in Data
          /\ [ppn |-> ptr.page, top |-> ptr.top, flags |-> {"VALID"}] \in LinkWord
    /\ \A s \in HighSlot : TopHalfEntry(s) \in Data
  <1>1. ASSUME NEW ptr \in Ptr, ptr.page \in Ram
        PROVE  /\ [ppn |-> ptr.page, top |-> ptr.top, flags |-> {"VALID"}] \in Data
               /\ [ppn |-> ptr.page, top |-> ptr.top, flags |-> {"VALID"}] \in LinkWord
    <2>1. ptr.top \in Top
      BY DEF Ptr
    <2>2. Entry(ptr.page, ptr.top, {}) = [ppn |-> ptr.page, top |-> ptr.top, flags |-> {"VALID"}]
      BY DEF Entry
    <2>3. Entry(ptr.page, ptr.top, {}) \in Entries
      BY <1>1, <2>1 DEF Entries
    <2> QED BY <1>1, <2>1, <2>2, <2>3, EntriesAssumption DEF LinkWord
  <1>2. \A s \in HighSlot : TopHalfEntry(s) \in Data
    BY EntriesAssumption DEF Entries, HighSlot
  <1> QED BY <1>1, <1>2

\* The store of mmu_entry that links a table.
LEMMA LinkStore ==
    ASSUME MInv, mmu_entry_link, NEW kind \in [tables -> 0 .. 2], Leveled(kind), NewTable(kind)
    PROVE  LET w == [ppn |-> page.page, top |-> page.top, flags |-> {"VALID"}]
           IN  /\ w \in LinkWord /\ w \in Data /\ w.ppn = page.page /\ page.page \in tables
               /\ table.page \in tables /\ Index \in Slot
               /\ mem' = [mem EXCEPT ![table.page][Index] = w]
  <1>1. pc = "link" /\ InMap
    BY DEF mmu_entry_link, EntryLink, InMap
  <1>2. page \in Ptr /\ page.page \in tables /\ page.page \in Ram
    BY <1>1, TableHeld DEF MInv, Walk, NewTable
  <1>3. /\ table.page \in tables /\ Index \in Slot
        /\ EntryPage(table, Index) = table.page /\ EntrySlot(Index) = Index
    BY <1>1, WalkFacts
  <1>4. mem' = [mem EXCEPT ![table.page][Index] =
                   [ppn |-> page.page, top |-> page.top, flags |-> {"VALID"}]]
    BY <1>3 DEF mmu_entry_link, EntryLink, Store
  <1> QED BY <1>2, <1>3, <1>4, StoredWords

\* The store of mmu_map is at level 0: the levels above hold no leaf that an
\* address of the lower half could reach.
LEMMA MapStoreAt ==
    ASSUME MInv, mmu_map_store, NEW kind \in [tables -> 0 .. 2], Leveled(kind)
    PROVE  /\ level = 0 /\ pc = "walk"
           /\ table.page \in tables /\ kind[table.page] = 0 /\ Index \in Slot
           /\ MapEntry \in Data /\ MapEntry \in MapWord
           /\ mem' = [mem EXCEPT ![table.page][Index] = MapEntry]
  <1>1. pc = "walk" /\ InMap /\ EntryPage(table, Index) \in Ram
    BY DEF mmu_map_store, MapStore, EntryFound, InMap
  <1>2. /\ table.page \in tables /\ Index \in Slot /\ kind[table.page] = level
        /\ EntryPage(table, Index) = table.page /\ EntrySlot(Index) = Index
        /\ level = 2 => Index \in LowSlot
    BY <1>1, WalkFacts
  <1>3. level = 0
    <2>1. SUFFICES ASSUME level # 0 PROVE FALSE
      OBVIOUS
    <2>2. level \in {1, 2}
      BY <1>1, <2>1 DEF MInv, Walk
    <2>3. mem[table.page][Index] \in {NULL} \union LinkWord
      BY <1>2, <2>2 DEF Leveled, WordsOf
    <2>4. Load(table, Index) = mem[table.page][Index]
      BY <1>2 DEF Load
    <2>5. ~Missing(Load(table, Index)) /\ IsLeaf(Load(table, Index))
      BY <2>1 DEF mmu_map_store, MapStore, EntryFound
    <2> QED BY <2>3, <2>4, <2>5, WordsRead
  <1>4. mem' = [mem EXCEPT ![table.page][Index] = MapEntry]
    BY <1>2 DEF mmu_map_store, MapStore, Store, MapEntry
  <1>5. MapEntry \in Data /\ MapEntry \in MapWord
    BY <1>1 DEF MInv, Walk, MapEntry, MapWord, Ptr
  <1> QED BY <1>1, <1>2, <1>3, <1>4, <1>5

\* The stores of the loop over the top half go to the new root.
LEMMA TopHalfStore ==
    ASSUME MInv, map_top_half_entry
    PROVE  /\ pc = "tophalf" /\ mmu.page \in Roots /\ mmu.page \in tables
           /\ level \in HighSlot /\ level \in Slot /\ level \notin LowSlot
           /\ TopHalfEntry(level) \in Data
           /\ mem' = [mem EXCEPT ![mmu.page][level] = TopHalfEntry(level)]
  <1>1. pc = "tophalf" /\ level <= ENTRY_COUNT - 1
    BY DEF map_top_half_entry, StoreTopHalf
  <1>2. mmu # NULL /\ table.page = mmu.page /\ level \in ENTRY_COUNT \div 2 .. ENTRY_COUNT
    BY <1>1 DEF MInv, Control
  <1>3. level \in HighSlot /\ level \in Slot /\ level \notin LowSlot
    BY <1>1, <1>2, Sizes, SizeAssumption DEF HighSlot, Slot, LowSlot
  <1>4. mmu.page \in Roots /\ mmu.page \in tables
    BY <1>2 DEF MInv, Owners, Roots
  <1>5. mmu.page \in Int
    BY <1>4, TableHeld, RamAssumption DEF Ram
  <1>6. EntryPage(table, level) = mmu.page /\ EntrySlot(level) = level
    BY <1>2, <1>3, <1>5, InTable
  <1>7. mem' = [mem EXCEPT ![mmu.page][level] = TopHalfEntry(level)]
    BY <1>6 DEF map_top_half_entry, StoreTopHalf, Store
  <1> QED BY <1>1, <1>3, <1>4, <1>7, StoredWords

\* Every step of every call is one that the allocator allows its callers.
LEMMA AllocatorStep ==
    ASSUME MInv, [MmuNext]_mmuVars
    PROVE  [AllocNext]_allocVars
  <1> PICK kind \in [tables -> 0 .. 2] : Leveled(kind) /\ LinkedOnce(kind) /\ NewTable(kind)
    BY DEF MInv, Shape
  <1>1. CASE AllocatorCall
    BY <1>1 DEF AllocatorCall, AllocNext
  <1>2. CASE StartCall
    BY <1>2 DEF StartCall, mmu_new_page_table, mmu_new_page_table_panic, mmu_map, AllocNext, allocVars
  <1>3. ASSUME NEW root \in ready, activate(root) PROVE AllocNext
    <2>1. root \in owned
      BY DEF MInv, Owners
    <2> QED BY <1>3, <2>1 DEF activate, AllocNext
  <1>4. CASE mmu_entry_link
    <2> DEFINE w == [ppn |-> page.page, top |-> page.top, flags |-> {"VALID"}]
    <2>1. /\ w \in Data /\ table.page \in tables /\ Index \in Slot
          /\ mem' = [mem EXCEPT ![table.page][Index] = w]
      BY <1>4, LinkStore
    <2>2. status = "running" /\ UNCHANGED <<status, free_list, satp, region, chain, owned>>
      BY <1>4 DEF mmu_entry_link, EntryLink
    <2> HIDE DEF w
    <2> QED BY <2>1, <2>2, StoreIsWrite
  <1>5. CASE mmu_map_store
    <2>1. /\ MapEntry \in Data /\ table.page \in tables /\ Index \in Slot
          /\ mem' = [mem EXCEPT ![table.page][Index] = MapEntry]
      BY <1>5, MapStoreAt
    <2>2. status = "running" /\ UNCHANGED <<status, free_list, satp, region, chain, owned>>
      BY <1>5 DEF mmu_map_store, MapStore, EntryFound
    <2> QED BY <2>1, <2>2, StoreIsWrite
  <1>6. CASE map_top_half_entry
    <2>1. /\ TopHalfEntry(level) \in Data /\ mmu.page \in tables /\ level \in Slot
          /\ mem' = [mem EXCEPT ![mmu.page][level] = TopHalfEntry(level)]
      BY <1>6, TopHalfStore
    <2>2. status = "running" /\ UNCHANGED <<status, free_list, satp, region, chain, owned>>
      BY <1>6 DEF map_top_half_entry, StoreTopHalf
    <2> QED BY <2>1, <2>2, StoreIsWrite
  <1>7. CASE mmu_entry_alloc \/ mmu_entry_panic \/ mmu_entry_wild \/ fetch_fault \/ Interrupt
    BY <1>7 DEF mmu_entry_alloc, EntryAlloc, mmu_entry_panic, mmu_entry_wild, fetch_fault,
                Interrupt, AllocNext
  <1>8. CASE \/ mmu_entry_descend \/ identity_map \/ map_top_half
             \/ mmu_new_page_table_return \/ Stopped \/ UNCHANGED mmuVars
    BY <1>8 DEF mmu_entry_descend, identity_map, IdentityMapPage, map_top_half,
                mmu_new_page_table_return, Stopped, mmuVars, allocVars
  <1> QED BY <1>1, <1>2, <1>3, <1>4, <1>5, <1>6, <1>7, <1>8
          DEF MmuNext, MmuCall, CallStep, InnerStep

----------------------------------------------------------------------------
(* The trees *)

\* Steps that leave the tables alone.
LEMMA ShapeKept ==
    ASSUME MInv, tables' = tables, Roots' = Roots, \A p \in tables : mem'[p] = mem[p],
           pc' = "link" <=> pc = "link", pc = "link" => page' = page /\ level' = level
    PROVE  Shape'
  <1> PICK kind \in [tables -> 0 .. 2] : Leveled(kind) /\ LinkedOnce(kind) /\ NewTable(kind)
    BY DEF MInv, Shape
  <1>1. \A p \in tables : \A s, q : Links(p, s, q)' <=> Links(p, s, q)
    BY DEF Links
  <1>2. Leveled(kind)'
    BY <1>1 DEF Leveled
  <1>3. LinkedOnce(kind)'
    BY <1>1 DEF LinkedOnce
  <1>4. NewTable(kind)'
    BY <1>1 DEF NewTable
  <1> QED BY <1>2, <1>3, <1>4 DEF Shape

\* A cleared page becomes a table: a root, or one about to be linked.
LEMMA ShapeGrows ==
    ASSUME MInv, NEW q \in Ram, q \notin tables, tables' = tables \union {q},
           \A s \in Slot : mem'[q][s] = NULL, \A p \in tables : mem'[p] = mem[p],
           pc # "link",
           \/ Roots' = Roots \union {q} /\ pc' # "link"
           \/ Roots' = Roots /\ pc' = "link" /\ page'.page = q /\ level' \in {1, 2}
    PROVE  Shape'
  <1> PICK kind \in [tables -> 0 .. 2] : Leveled(kind) /\ LinkedOnce(kind) /\ NewTable(kind)
    BY DEF MInv, Shape
  <1>0. PICK k \in 0 .. 2 : k = IF pc' = "link" THEN level' - 1 ELSE 2
    OBVIOUS
  <1>1. PICK new \in [tables' -> 0 .. 2] : new = [p \in tables' |-> IF p = q THEN k ELSE kind[p]]
    OBVIOUS
  <1>2. new[q] = k /\ \A p \in tables : new[p] = kind[p] /\ p # q /\ p \in tables'
    BY <1>1
  <1>3. Roots \subseteq tables
    BY DEF MInv, Owners
  <1>4. /\ \A p \in tables : \A s, r : Links(p, s, r)' <=> Links(p, s, r)
        /\ \A s \in Slot : \A r : ~Links(q, s, r)'
    BY WordsRead DEF Links
  <1>5. \A p \in tables, s \in Slot : kind[p] > 0 => ~Links(p, s, q)
    BY DEF Leveled
  <1>6. Leveled(new)'
    <2>1. \A p \in tables' : new[p] = 2 <=> p \in Roots'
      BY <1>0, <1>2, <1>3 DEF Leveled
    <2>2. \A p \in tables', s \in Slot : mem'[p][s] \in WordsOf(new[p], s)
      <3>1. \A s \in Slot : NULL \in WordsOf(k, s)
        BY DEF WordsOf
      <3>2. \A p \in tables, s \in Slot : mem'[p][s] \in WordsOf(kind[p], s)
        BY DEF Leveled
      <3> QED BY <1>2, <3>1, <3>2
    <2>3. ASSUME NEW p \in tables', NEW s \in Slot, NEW r \in Ram, new[p] > 0, Links(p, s, r)'
          PROVE  r \in tables' /\ new[r] = new[p] - 1
      <3>1. p \in tables /\ Links(p, s, r)
        BY <1>4, <2>3
      <3> QED BY <1>2, <2>3, <3>1 DEF Leveled
    <2> QED BY SMTT(30), <2>1, <2>2, <2>3 DEF Leveled, WordsOf
  <1>7. LinkedOnce(new)'
    <2>1. ASSUME NEW p \in tables', NEW r \in tables', NEW s \in Slot, NEW t \in Slot, NEW x \in Ram,
                 new[p] > 0, new[r] > 0, Links(p, s, x)', Links(r, t, x)'
          PROVE  p = r /\ s = t
      <3>1. p \in tables /\ r \in tables /\ Links(p, s, x) /\ Links(r, t, x)
        BY <1>4, <2>1
      <3> QED BY <1>2, <2>1, <3>1 DEF LinkedOnce
    <2>2. ASSUME NEW x \in tables', new[x] < 2, ~(pc' = "link" /\ x = page'.page)
          PROVE  \E p \in tables', s \in Slot : new[p] > 0 /\ Links(p, s, x)'
      <3>1. x \in tables
        BY <1>0, <1>2, <2>2
      <3>2. PICK p \in tables, s \in Slot : kind[p] > 0 /\ Links(p, s, x)
        BY <1>2, <2>2, <3>1 DEF LinkedOnce
      <3> QED BY <1>2, <1>4, <3>2
    <2> QED BY <2>1, <2>2 DEF LinkedOnce
  <1>8. NewTable(new)'
    <2>1. ASSUME NEW p \in tables', NEW s \in Slot, new[p] > 0, Links(p, s, q)' PROVE FALSE
      BY <1>2, <1>4, <1>5, <2>1
    <2> QED BY <1>0, <1>2, <2>1 DEF NewTable
  <1> QED BY <1>6, <1>7, <1>8 DEF Shape

\* mmu_entry links the new table: it gets its only reference.
LEMMA ShapeLinked ==
    ASSUME MInv, mmu_entry_link
    PROVE  Shape'
  <1> PICK kind \in [tables -> 0 .. 2] : Leveled(kind) /\ LinkedOnce(kind) /\ NewTable(kind)
    BY DEF MInv, Shape
  <1>0. PICK w, a, i, q : /\ w = [ppn |-> page.page, top |-> page.top, flags |-> {"VALID"}]
                          /\ a = table.page /\ i = Index /\ q = page.page
    OBVIOUS
  <1>1. /\ pc = "link" /\ InMap /\ pc' = "walk" /\ tables' = tables /\ Roots' = Roots
    BY DEF mmu_entry_link, EntryLink, InMap, Roots
  <1>2. /\ w \in LinkWord /\ w.ppn = q /\ q \in tables
        /\ a \in tables /\ i \in Slot
        /\ mem' = [mem EXCEPT ![a][i] = w]
    BY <1>0, LinkStore
  <1>3. /\ kind[a] = level /\ (level = 2 => i \in LowSlot) /\ level \in {1, 2} /\ kind[q] = level - 1
        /\ \A p \in tables, s \in Slot : kind[p] > 0 => ~Links(p, s, q)
    BY <1>0, <1>1, WalkFacts DEF MInv, Walk, NewTable
  <1>4. mem[a][i] = NULL
    BY <1>0, <1>1 DEF MInv, Walk
  <1>5. tables \subseteq Ram /\ mem \in [Ram -> [Slot -> Word]]
    BY TableHeld DEF MInv, IInv, AllocTypeOK
  <1>6. \A p \in tables, s \in Slot : mem'[p][s] = IF p = a /\ s = i THEN w ELSE mem[p][s]
    BY <1>2, <1>5, OneWord
  <1>7. \A p \in tables, s \in Slot : \A x :
           Links(p, s, x)' <=> Links(p, s, x) \/ (p = a /\ s = i /\ x = q)
    BY <1>2, <1>4, <1>6, WordsRead DEF Links
  <1>8. Leveled(kind)'
    <2>1. \A p \in tables, s \in Slot : mem'[p][s] \in WordsOf(kind[p], s)
      <3>1. w \in WordsOf(kind[a], i)
        BY <1>2, <1>3 DEF WordsOf
      <3> QED BY <1>6, <3>1 DEF Leveled
    <2>2. ASSUME NEW p \in tables, NEW s \in Slot, NEW x \in Ram, kind[p] > 0, Links(p, s, x)'
          PROVE  x \in tables /\ kind[x] = kind[p] - 1
      BY <1>2, <1>3, <1>7, <2>2 DEF Leveled
    <2> QED BY <1>1, <2>1, <2>2 DEF Leveled, WordsOf
  <1>9. LinkedOnce(kind)'
    <2>1. ASSUME NEW p \in tables, NEW r \in tables, NEW s \in Slot, NEW t \in Slot, NEW x \in Ram,
                 kind[p] > 0, kind[r] > 0, Links(p, s, x)', Links(r, t, x)'
          PROVE  p = r /\ s = t
      BY <1>3, <1>7, <2>1 DEF LinkedOnce
    <2>2. ASSUME NEW x \in tables, kind[x] < 2
          PROVE  \E p \in tables, s \in Slot : kind[p] > 0 /\ Links(p, s, x)'
      <3>1. CASE x = q
        <4>1. kind[a] > 0 /\ Links(a, i, x)'
          BY <1>2, <1>3, <1>7, <3>1
        <4> QED BY <1>2, <4>1
      <3>2. CASE x # q
        <4>1. PICK p \in tables, s \in Slot : kind[p] > 0 /\ Links(p, s, x)
          BY <1>0, <2>2, <3>2 DEF LinkedOnce
        <4> QED BY <1>7, <4>1
      <3> QED BY <3>1, <3>2
    <2> QED BY <1>1, <2>1, <2>2 DEF LinkedOnce
  <1>10. NewTable(kind)'
    BY <1>1 DEF NewTable
  <1> QED BY <1>1, <1>8, <1>9, <1>10 DEF Shape

\* A store of a word of the right kind that links nothing and replaces no link:
\* mmu_map at level 0, and the loop over the top half.
LEMMA ShapeStored ==
    ASSUME MInv, NEW kind \in [tables -> 0 .. 2],
           Leveled(kind), LinkedOnce(kind), NewTable(kind),
           NEW p \in tables, NEW s \in Slot, NEW w,
           mem' = [mem EXCEPT ![p][s] = w], w \in WordsOf(kind[p], s),
           kind[p] = 0 \/ (w \notin LinkWord /\ mem[p][s] \notin LinkWord),
           tables' = tables, Roots' = Roots, pc # "link", pc' # "link"
    PROVE  Shape'
  <1>1. tables \subseteq Ram /\ mem \in [Ram -> [Slot -> Word]]
    BY TableHeld DEF MInv, IInv, AllocTypeOK
  <1>2. \A q \in tables, t \in Slot : mem'[q][t] = IF q = p /\ t = s THEN w ELSE mem[q][t]
    BY <1>1, OneWord
  <1>3. \A q \in tables, t \in Slot : \A x : kind[q] > 0 => (Links(q, t, x)' <=> Links(q, t, x))
    BY <1>2 DEF Links
  <1>4. Leveled(kind)'
    BY <1>2, <1>3 DEF Leveled, WordsOf
  <1>5. LinkedOnce(kind)'
    BY <1>3 DEF LinkedOnce
  <1>6. NewTable(kind)'
    BY DEF NewTable
  <1> QED BY <1>4, <1>5, <1>6 DEF Shape

----------------------------------------------------------------------------
(* The invariant holds initially, and every step preserves it *)

\* Before init_page_alloc there are no tables and no call.
LEMMA InitMInv == MmuInit => MInv
  <1> SUFFICES ASSUME MmuInit PROVE MInv
    OBVIOUS
  <1>1. IInv
    BY InitIInv DEF MmuInit
  <1>2. MmuTypeOK
    BY <1>1, SizeAssumption DEF MmuInit, MmuTypeOK, IInv
  <1>3. Owners /\ Control /\ Walk
    BY DEF MmuInit, Owners, Control, Walk, InMap, Roots, Members, AllocInit
  <1>4. Shape
    <2>1. tables = {} /\ pc # "link" /\ Roots = {}
      BY DEF MmuInit, Roots
    <2>2. [p \in tables |-> 0] \in [tables -> 0 .. 2]
      OBVIOUS
    <2>3. \A kind : Leveled(kind) /\ LinkedOnce(kind) /\ NewTable(kind)
      BY <2>1 DEF Leveled, LinkedOnce, NewTable
    <2> QED BY <2>2, <2>3 DEF Shape
  <1> QED BY <1>1, <1>2, <1>3, <1>4 DEF MInv

\* Steps that stop the kernel, or do nothing.
LEMMA StopStep ==
    ASSUME MInv, IInv', UNCHANGED <<callVars, tables, ready, mapped, mem, owned>>,
           status' = "boot" => status = "boot"
    PROVE  MInv'
  <1> USE DEF callVars
  <1>1. MmuTypeOK'
    BY DEF MInv, MmuTypeOK, IInv
  <1>2. Roots' = Roots
    BY DEF Roots
  <1>3. Owners' /\ Control'
    BY <1>2 DEF MInv, Owners, Control, OwnedPages, Members
  <1>4. Walk'
    BY DEF MInv, Walk, InMap, AtLevel, Links, Index, MapEntry
  <1>5. Shape'
    BY <1>2, ShapeKept
  <1> QED BY <1>1, <1>3, <1>4, <1>5 DEF MInv

\* What alloc_page changes: a page that was free, hence no table.
LEMMA AllocChanges ==
    ASSUME MInv, NEW clear \in BOOLEAN, alloc_page(clear)
    PROVE  /\ AllocatedPtr \in Ptr /\ AllocatedPtr.page \in Ram /\ AllocatedPtr.page \notin tables
           /\ status = "running" /\ status' = status
           /\ owned' = owned \union {AllocatedPtr}
           /\ OwnedPages' = OwnedPages \union {AllocatedPtr.page}
           /\ \A p \in Ram : p # AllocatedPtr.page => mem'[p] = mem[p]
           /\ \A p \in tables : mem'[p] = mem[p]
           /\ clear => \A s \in Slot : mem'[AllocatedPtr.page][s] = NULL
  <1>1. status = "running" /\ free_list # NULL /\ status' = status /\ owned' = owned \union {AllocatedPtr}
    BY DEF alloc_page
  <1>2. /\ AllocatedPtr \in Ptr /\ AllocatedPtr.page = free_list.page
        /\ free_list.page \in Ram /\ free_list.page \in FreePages
    BY <1>1, HeadOfList DEF MInv
  <1>3. AllocatedPtr.page \notin tables
    BY <1>2, TableHeld
  <1>4. mem \in [Ram -> [Slot -> Word]]
    BY DEF MInv, IInv, AllocTypeOK
  <1>5. \A p \in Ram : p # free_list.page => mem'[p] = mem[p]
    BY <1>2, <1>4 DEF alloc_page
  <1>6. clear => \A s \in Slot : mem'[free_list.page][s] = NULL
    BY <1>2, <1>4 DEF alloc_page, AllocatedWords
  <1>7. \A p \in tables : p \in Ram
    BY TableHeld
  <1>8. OwnedPages' = OwnedPages \union {AllocatedPtr.page}
    BY <1>1 DEF OwnedPages
  <1> QED BY <1>1, <1>2, <1>3, <1>5, <1>6, <1>7, <1>8

\* The kernel's own use of the allocator between calls.
LEMMA AllocatorCallStep ==
    ASSUME MInv, IInv', AllocatorCall
    PROVE  MInv'
  <1>1. pc = "idle" /\ UNCHANGED <<callVars, tables, ready, mapped>>
    BY DEF AllocatorCall
  <1> USE DEF callVars
  <1>2. Roots' = Roots
    BY <1>1 DEF Roots
  <1>3. MmuTypeOK'
    BY <1>1 DEF MInv, MmuTypeOK, IInv
  <1>4. Control' /\ Walk'
    BY <1>1 DEF MInv, Control, Walk, InMap, Members
  <1>5. /\ ready \subseteq owned' /\ (mmu # NULL => mmu \in owned') /\ tables \subseteq OwnedPages'
        /\ status' = "boot" => status = "boot"
        /\ \A p \in tables : mem'[p] = mem[p]
    <2>1. ASSUME NEW a \in InitArgs, init_page_alloc(a.start, a.size) PROVE <1>5!1 /\ <1>5!2 /\ <1>5!3
      BY <2>1 DEF init_page_alloc, MInv, Owners
    <2>2. CASE alloc_page(FALSE)
      BY <2>2, AllocChanges DEF MInv, Owners
    <2>3. CASE alloc_page_panic
      BY <2>3 DEF alloc_page_panic, MInv, Owners, OwnedPages
    <2>4. ASSUME NEW ptr \in owned, Unshared(ptr), free_page(ptr) PROVE <1>5!1 /\ <1>5!2 /\ <1>5!3
      <3>1. /\ status' = status /\ owned' = owned \ {ptr} /\ ptr.page \notin tables
            /\ mem' = [mem EXCEPT ![ptr.page][0] = free_list]
        BY <2>4 DEF free_page, Unshared
      <3>2. Roots \subseteq tables /\ tables \subseteq OwnedPages
        BY DEF MInv, Owners
      <3>3. \A r \in ready : r \in owned'
        BY <3>1, <3>2 DEF Roots, MInv, Owners
      <3>4. mmu # NULL => mmu \in owned'
        BY <3>1, <3>2 DEF Roots, MInv, Owners
      <3>5. tables \subseteq OwnedPages'
        BY <3>1, <3>2 DEF OwnedPages
      <3>6. \A p \in tables : mem'[p] = mem[p]
        <4>1. mem \in [Ram -> [Slot -> Word]] /\ tables \subseteq Ram
          BY TableHeld DEF MInv, IInv, AllocTypeOK
        <4> QED BY <3>1, <4>1
      <3> QED BY <3>1, <3>3, <3>4, <3>5, <3>6
    <2> QED BY <2>1, <2>2, <2>3, <2>4 DEF AllocatorCall
  <1>6. Owners'
    BY <1>1, <1>2, <1>5 DEF MInv, Owners
  <1>7. Shape'
    BY <1>1, <1>2, <1>5, ShapeKept
  <1> QED BY <1>3, <1>4, <1>6, <1>7 DEF MInv

\* The pages that identity_map has to map are virtual pages of the window.
LEMMA KernelInWindow ==
    /\ KernelPages \in Seq([virt : VirtPage, flags : SUBSET Flag])
    /\ \A e \in Members(KernelPages) :
          /\ e.virt \in Window /\ e.virt \in Ram /\ e.flags \in SUBSET Flag
          /\ e.flags \union {"VALID"} \in MapFlagSets
          /\ Entry(e.virt, "zero", e.flags) \in Data
  <1> DEFINE T == [virt : Ram, flags : SUBSET Flag]
             U == [virt : VirtPage, flags : SUBSET Flag]
  <1>1. KernelPages \in Seq(T)
    BY KernelCalls
  <1>2. Ram \subseteq VirtPage
    BY Sizes DEF VirtPage
  <1>3. T \subseteq U
    BY <1>2
  <1>4. KernelPages \in Seq(U)
    <2> HIDE DEF T, U
    <2>1. \A i \in 1 .. Len(KernelPages) : KernelPages[i] \in U
      BY <1>1, <1>3
    <2> QED BY <1>1, <2>1
  <1>5. ASSUME NEW i \in 1 .. Len(KernelPages)
        PROVE  KernelPages[i] \in T
    <2> HIDE DEF T
    <2> QED BY <1>1
  <1>6. \A i \in 1 .. Len(KernelPages) :
           /\ KernelPages[i].flags \union {"VALID"} \in MapFlagSets
           /\ Entry(KernelPages[i].virt, "zero", KernelPages[i].flags) \in Data
    BY SMTT(30), EntriesAssumption DEF MapFlagSets, Entries
  <1> QED BY <1>4, <1>5, <1>6, WindowAssumption DEF Members

\* mmu_new_page_table takes a page for the root.
LEMMA NewRootStep ==
    ASSUME MInv, IInv', mmu_new_page_table
    PROVE  MInv'
  <1>1. /\ pc = "idle" /\ pc' = "identity" /\ mmu' = AllocatedPtr
        /\ tables' = tables \union {AllocatedPtr.page} /\ todo' = KernelPages
        /\ alloc_page(TRUE)
        /\ UNCHANGED <<caller, arg, level, table, page, ready, mapped>>
    BY DEF mmu_new_page_table
  <1>2. PICK q \in Ram : q = AllocatedPtr.page
    BY <1>1, AllocChanges
  <1>3. /\ AllocatedPtr \in Ptr /\ q \notin tables /\ status' = "running"
        /\ owned' = owned \union {AllocatedPtr} /\ OwnedPages' = OwnedPages \union {q}
        /\ \A p \in tables : mem'[p] = mem[p]
        /\ \A s \in Slot : mem'[q][s] = NULL
    BY <1>1, <1>2, AllocChanges
  <1>4. mmu' # NULL /\ mmu'.page = q
    BY <1>1, <1>2, <1>3, NullAssumption
  <1>5. Roots' = Roots \union {q}
    <2>1. mmu # NULL => mmu \in ready
      BY <1>1 DEF MInv, Control
    <2>2. Roots = {root.page : root \in ready}
      BY <2>1 DEF Roots
    <2>3. Roots' = {root.page : root \in ready} \union {q}
      BY <1>1, <1>4 DEF Roots
    <2> QED BY <2>2, <2>3
  <1>6. MmuTypeOK'
    <2>1. AllocTypeOK'
      BY DEF IInv
    <2> QED BY <1>1, <1>2, <1>3, <2>1, KernelInWindow DEF MInv, MmuTypeOK
  <1>7. Owners'
    BY <1>1, <1>2, <1>3, <1>5 DEF MInv, Owners
  <1>8. Control' /\ Walk'
    BY <1>1, <1>4 DEF Control, Walk, InMap
  <1>9. Shape'
    BY <1>1, <1>2, <1>3, <1>5, ShapeGrows
  <1> QED BY <1>6, <1>7, <1>8, <1>9 DEF MInv

\* mmu_map and identity_map begin a walk at the root.
LEMMA StartMapStep ==
    ASSUME MInv, NEW root, NEW virt, NEW phys, NEW flags, NEW from,
           status = "running", pc # "link", UNCHANGED <<allocVars, page, tables, ready, mapped>>,
           StartMap(root, virt, phys, flags, from),
           root \in owned, Roots' = Roots, root.page \in Roots, from = "idle" => root \in ready,
           from \in {"idle", "identity"},
           virt \in VirtPage, virt < LowHalf => virt \in Window,
           phys \in Ptr, phys.page \in Ram, flags \in SUBSET Flag,
           flags \union {"VALID"} \in MapFlagSets, Entry(phys.page, phys.top, flags) \in Data,
           todo' \in Seq([virt : VirtPage, flags : SUBSET Flag]),
           Members(todo') \subseteq Members(KernelPages)
    PROVE  MInv'
  <1> USE DEF StartMap, allocVars
  <1>1. IInv'
    BY Inductive DEF MInv
  <1>2. root \in Ptr /\ root # NULL
    BY NullAssumption DEF MInv, IInv, AllocTypeOK
  <1>3. table' \in Ptr /\ table'.page = root.page
    BY <1>2 DEF make_accessible, phys2virt, Ptr, Top
  <1>4. arg' \in [virt : VirtPage, phys : Ptr, flags : SUBSET Flag]
    BY DEF Flag
  <1>5. MmuTypeOK'
    <2>1. AllocTypeOK'
      BY <1>1 DEF IInv
    <2>2. level' \in 0 .. ENTRY_COUNT
      BY SizeAssumption, GeometryAssumption
    <2> QED BY <1>2, <1>3, <1>4, <2>1, <2>2 DEF MInv, MmuTypeOK
  <1>6. Owners'
    BY <1>2 DEF MInv, Owners, OwnedPages
  <1>7. Control'
    BY <1>2 DEF MInv, Control
  <1>8. Walk'
    <2>1. arg'.virt = virt /\ arg'.phys = phys /\ arg'.flags = flags \union {"VALID"}
      OBVIOUS
    <2>2. MapEntry' = Entry(phys.page, phys.top, flags)
      BY <2>1 DEF MapEntry, Entry
    <2>3. arg'.virt \in Window \/ arg'.virt >= LowHalf
      BY <2>1, Sizes DEF VirtPage
    <2>4. AtLevel(mmu.page, arg.virt, table.page, level)'
      BY <1>3 DEF AtLevel
    <2> QED BY <1>3, <1>4, <2>1, <2>2, <2>3, <2>4 DEF Walk
  <1>9. Shape'
    BY ShapeKept
  <1> QED BY <1>1, <1>5, <1>6, <1>7, <1>8, <1>9 DEF MInv

\* A call of mmu_map by the kernel.
LEMMA MapCallStep ==
    ASSUME CallersInWindow, MInv, NEW root \in ready, NEW virt \in MapVirt, NEW phys \in DataPages,
           NEW flags \in MapFlags, mmu_map(root, virt, phys, flags)
    PROVE  MInv'
  <1>1. /\ status = "running" /\ pc = "idle" /\ todo' = todo
        /\ UNCHANGED <<allocVars, page, tables, ready, mapped>>
        /\ StartMap(root, virt, phys, flags, "idle")
    BY DEF mmu_map
  <1>2. root \in owned /\ phys \in owned
    BY DEF MInv, Owners, DataPages
  <1>3. phys \in Ptr /\ phys.page \in Ram
    BY <1>2, HeldPage DEF MInv
  <1>4. root.page \in Roots /\ Roots' = Roots
    <2>1. mmu # NULL => mmu \in ready
      BY <1>1 DEF MInv, Control
    <2>2. mmu' = root
      BY <1>1 DEF StartMap
    <2>3. Roots = {r.page : r \in ready}
      BY <2>1 DEF Roots
    <2>4. Roots' = {r.page : r \in ready}
      BY <1>1, <2>2 DEF Roots
    <2> QED BY <2>3, <2>4
  <1>5. virt \in VirtPage /\ (virt < LowHalf => virt \in Window)
    BY MapAssumption DEF CallersInWindow
  <1>6. flags \in SUBSET Flag /\ flags \union {"VALID"} \in MapFlagSets
    BY MapAssumption DEF MapFlagSets
  <1>7. Entry(phys.page, phys.top, flags) \in Data
    BY <1>3, EntriesAssumption DEF Entries, Ptr
  <1>8. Members(todo') \subseteq Members(KernelPages)
    BY <1>1 DEF MInv, Control
  <1>9. todo' \in Seq([virt : VirtPage, flags : SUBSET Flag])
    BY <1>1 DEF MInv, MmuTypeOK
  <1> QED BY <1>1, <1>2, <1>3, <1>4, <1>5, <1>6, <1>7, <1>8, <1>9, StartMapStep

\* The head of a sequence and the rest are among its members.
LEMMA HeadTail ==
    ASSUME NEW T, NEW s \in Seq(T), s # <<>>
    PROVE  /\ Head(s) \in Members(s) /\ Tail(s) \in Seq(T)
           /\ Members(s) = {Head(s)} \union Members(Tail(s))
  <1>1. /\ Len(s) \in Nat /\ Len(s) >= 1 /\ Head(s) = s[1] /\ Tail(s) \in Seq(T)
        /\ Len(Tail(s)) = Len(s) - 1 /\ \A i \in 1 .. Len(s) - 1 : Tail(s)[i] = s[i + 1]
    OBVIOUS
  <1>2. \A i \in 1 .. Len(s) : i = 1 \/ (i - 1 \in 1 .. Len(s) - 1 /\ Tail(s)[i - 1] = s[i])
    BY <1>1
  <1>3. \A i \in 1 .. Len(s) - 1 : i + 1 \in 1 .. Len(s)
    BY <1>1
  <1>4. Head(s) \in Members(s)
    BY <1>1 DEF Members
  <1>5. ASSUME NEW x \in Members(s) PROVE x = Head(s) \/ x \in Members(Tail(s))
    <2>1. PICK i \in 1 .. Len(s) : x = s[i]
      BY DEF Members
    <2> QED BY <1>1, <1>2, <2>1 DEF Members
  <1>6. ASSUME NEW x \in Members(Tail(s)) PROVE x \in Members(s)
    <2>1. PICK i \in 1 .. Len(s) - 1 : x = Tail(s)[i]
      BY <1>1 DEF Members
    <2> QED BY <1>1, <1>3, <2>1 DEF Members
  <1> QED BY <1>1, <1>4, <1>5, <1>6

\* identity_map calls mmu_map for the next page.
LEMMA IdentityMapStep ==
    ASSUME MInv, identity_map
    PROVE  MInv'
  <1> DEFINE e == Head(todo)
             phys == [page |-> e.virt, top |-> "zero"]
             T == [virt : VirtPage, flags : SUBSET Flag]
  <1>1. /\ status = "running" /\ pc = "identity" /\ todo # <<>> /\ todo' = Tail(todo)
        /\ UNCHANGED <<allocVars, page, tables, ready, mapped>>
        /\ StartMap(mmu, e.virt, phys, e.flags, "identity")
    BY DEF identity_map, IdentityMapPage
  <1>2. todo \in Seq(T)
    BY DEF MInv, MmuTypeOK
  <1>3. /\ e \in Members(todo) /\ Tail(todo) \in Seq(T) /\ Members(Tail(todo)) \subseteq Members(todo)
    <2> HIDE DEF T
    <2> QED BY <1>1, <1>2, HeadTail
  <1>4. e \in Members(KernelPages) /\ Members(todo') \subseteq Members(KernelPages)
    BY <1>1, <1>3 DEF MInv, Control
  <1>5. /\ e.virt \in Window /\ e.virt \in Ram /\ e.flags \in SUBSET Flag
        /\ e.flags \union {"VALID"} \in MapFlagSets
        /\ Entry(e.virt, "zero", e.flags) \in Data
    BY <1>4, KernelInWindow
  <1>6. mmu # NULL /\ mmu \in owned /\ mmu.page \in Roots /\ mmu' = mmu
    BY <1>1 DEF MInv, Control, Owners, Roots, StartMap
  <1>7. Roots' = Roots
    BY <1>1, <1>6 DEF Roots
  <1>8. phys \in Ptr /\ phys.page = e.virt /\ phys.top = "zero"
    BY <1>5, RamAssumption DEF Ptr, Top, Ram
  <1>9. e.virt \in VirtPage
    BY <1>5, WindowIndices
  <1> HIDE DEF e, phys
  <1> QED BY <1>1, <1>3, <1>4, <1>5, <1>6, <1>7, <1>8, <1>9, StartMapStep

\* The way to a table stays while links stay.
LEMMA WayKept ==
    ASSUME NEW root \in tables, NEW v, NEW q, NEW i,
           AtLevel(root, v, q, i), tables \subseteq tables',
           \A p \in tables : \A s, x : Links(p, s, x) => Links(p, s, x)'
    PROVE  AtLevel(root, v, q, i)'
  <1>1. i = 1 => Links(root, TableIndex(v, 2), q)'
    BY DEF AtLevel
  <1>2. i = 0 => \E m \in tables' : Links(root, TableIndex(v, 2), m)' /\ Links(m, TableIndex(v, 1), q)'
    BY DEF AtLevel
  <1> QED BY <1>1, <1>2 DEF AtLevel

\* The walk stands on a word of its level, NULL if the level is missing.
LEMMA WalkReads ==
    ASSUME MInv, NEW kind \in [tables -> 0 .. 2], Leveled(kind), InLoop
    PROVE  /\ InMap /\ pc = "walk" /\ level \in {1, 2}
           /\ mmu.page \in tables /\ table.page \in tables /\ Index \in Slot /\ arg.virt \in Window
           /\ kind[table.page] = level /\ Load(table, Index) = mem[table.page][Index]
           /\ \/ mem[table.page][Index] = NULL /\ Missing(Load(table, Index))
              \/ mem[table.page][Index] \in LinkWord /\ ~Missing(Load(table, Index))
  <1>1. InMap /\ pc = "walk" /\ EntryPage(table, Index) \in Ram /\ level > 0
    BY DEF InLoop, InMap
  <1>2. level \in {1, 2}
    BY <1>1 DEF MInv, Walk
  <1>3. /\ mmu.page \in tables /\ table.page \in tables /\ kind[table.page] = level
        /\ Index \in Slot /\ arg.virt \in Window
        /\ EntryPage(table, Index) = table.page /\ EntrySlot(Index) = Index
        /\ level = 2 => Index \in LowSlot
    BY <1>1, WalkFacts
  <1>4. mem[table.page][Index] \in {NULL} \union LinkWord
    BY <1>2, <1>3 DEF Leveled, WordsOf
  <1>5. Load(table, Index) = mem[table.page][Index]
    BY <1>3 DEF Load
  <1> QED BY <1>1, <1>2, <1>3, <1>4, <1>5, WordsRead

\* mmu_entry takes a page for a missing level.
LEMMA EntryAllocStep ==
    ASSUME MInv, IInv', mmu_entry_alloc
    PROVE  MInv'
  <1> PICK kind \in [tables -> 0 .. 2] : Leveled(kind) /\ LinkedOnce(kind) /\ NewTable(kind)
    BY DEF MInv, Shape
  <1>1. /\ InLoop /\ Missing(Load(table, Index)) /\ alloc_page(TRUE)
        /\ page' = AllocatedPtr /\ tables' = tables \union {AllocatedPtr.page} /\ pc' = "link"
        /\ UNCHANGED <<caller, mmu, arg, level, table, todo, ready, mapped>>
    BY DEF mmu_entry_alloc, EntryAlloc
  <1>2. /\ InMap /\ pc = "walk" /\ level \in {1, 2} /\ mmu.page \in tables
        /\ table.page \in tables /\ Index \in Slot /\ arg.virt \in Window
        /\ mem[table.page][Index] = NULL
    BY <1>1, WalkReads
  <1>3. PICK q \in Ram : q = AllocatedPtr.page
    BY <1>1, AllocChanges
  <1>4. /\ AllocatedPtr \in Ptr /\ q \notin tables /\ status' = "running"
        /\ owned' = owned \union {AllocatedPtr} /\ OwnedPages' = OwnedPages \union {q}
        /\ \A p \in tables : mem'[p] = mem[p]
        /\ \A s \in Slot : mem'[q][s] = NULL
    BY <1>1, <1>3, AllocChanges
  <1>5. Roots' = Roots
    BY <1>1 DEF Roots
  <1>6. MmuTypeOK'
    <2>1. AllocTypeOK'
      BY DEF IInv
    <2> QED BY <1>1, <1>3, <1>4, <2>1 DEF MInv, MmuTypeOK
  <1>7. Owners'
    BY <1>1, <1>3, <1>4, <1>5 DEF MInv, Owners
  <1>8. Control'
    BY <1>1, <1>2 DEF MInv, Control, Members
  <1>9. Walk'
    <2>1. AtLevel(mmu.page, arg.virt, table.page, level)
      BY <1>2 DEF MInv, Walk
    <2>2. \A p \in tables : \A s, x : Links(p, s, x) => Links(p, s, x)'
      BY <1>4 DEF Links
    <2>3. PICK r, v, t, i : r \in tables /\ r = mmu.page /\ v = arg.virt /\ t = table.page /\ i = level
      BY <1>2
    <2>4. AtLevel(r, v, t, i)'
      BY <1>1, <2>1, <2>2, <2>3, WayKept
    <2>5. AtLevel(mmu.page, arg.virt, table.page, level)'
      BY <1>1, <2>3, <2>4
    <2>6. Index' = Index /\ MapEntry' = MapEntry
      BY <1>1 DEF Index, MapEntry
    <2>7. mem'[table'.page][Index'] = NULL
      BY <1>1, <1>2, <1>4, <2>6
    <2> QED BY <1>1, <1>2, <1>4, <2>5, <2>6, <2>7 DEF MInv, Walk
  <1>10. Shape'
    BY <1>1, <1>2, <1>3, <1>4, <1>5, ShapeGrows
  <1> QED BY <1>6, <1>7, <1>8, <1>9, <1>10 DEF MInv

\* mmu_entry links it and goes down into it.
LEMMA EntryLinkStep ==
    ASSUME MInv, IInv', mmu_entry_link
    PROVE  MInv'
  <1> PICK kind \in [tables -> 0 .. 2] : Leveled(kind) /\ LinkedOnce(kind) /\ NewTable(kind)
    BY DEF MInv, Shape
  <1>1. /\ pc = "link" /\ pc' = "walk" /\ InMap /\ table' = make_accessible(page)
        /\ level' = level - 1
        /\ UNCHANGED <<status, owned, caller, mmu, arg, page, todo, tables, ready, mapped>>
    BY DEF mmu_entry_link, EntryLink, InMap
  <1>2. PICK w, a, i, q : /\ w = [ppn |-> page.page, top |-> page.top, flags |-> {"VALID"}]
                          /\ a = table.page /\ i = Index /\ q = page.page
    OBVIOUS
  <1>3. /\ w \in LinkWord /\ w.ppn = q /\ a \in tables /\ i \in Slot
        /\ mem' = [mem EXCEPT ![a][i] = w]
    BY <1>2, LinkStore
  <1>4. mem[a][i] = NULL /\ page \in Ptr /\ level \in {1, 2}
    BY <1>1, <1>2 DEF MInv, Walk
  <1>5. arg.virt \in Window /\ mmu.page \in tables
    BY <1>1, WalkFacts
  <1>6. tables \subseteq Ram /\ mem \in [Ram -> [Slot -> Word]]
    BY TableHeld DEF MInv, IInv, AllocTypeOK
  <1>7. \A p \in tables, s \in Slot : mem'[p][s] = IF p = a /\ s = i THEN w ELSE mem[p][s]
    BY <1>3, <1>6, OneWord
  <1>8. /\ \A p \in tables, s \in Slot : \A x : Links(p, s, x) => Links(p, s, x)'
        /\ Links(a, i, q)'
    BY <1>3, <1>4, <1>7, WordsRead DEF Links
  <1>9. Roots' = Roots
    BY <1>1 DEF Roots
  <1>10. table' \in Ptr /\ table'.page = q
    BY <1>1, <1>2, <1>4 DEF make_accessible, phys2virt, Ptr, Top
  <1>11. MmuTypeOK'
    <2>1. AllocTypeOK'
      BY DEF IInv
    <2>2. level' \in 0 .. ENTRY_COUNT
      BY <1>1, <1>4, SizeAssumption
    <2> QED BY <1>1, <1>10, <2>1, <2>2 DEF MInv, MmuTypeOK
  <1>12. Owners' /\ Control'
    BY <1>1, <1>9 DEF MInv, Owners, OwnedPages, Control, Members
  <1>13. Walk'
    <2>1. AtLevel(mmu.page, arg.virt, a, level)
      BY <1>1, <1>2 DEF MInv, Walk
    <2>2. TableIndex(arg.virt, 2) \in Slot /\ TableIndex(arg.virt, 1) \in Slot
      BY <1>5, WindowIndices
    <2>3. AtLevel(mmu.page, arg.virt, table.page, level)'
      <3>1. CASE level = 2
        <4>1. a = mmu.page /\ i = TableIndex(arg.virt, 2)
          BY <1>2, <2>1, <3>1 DEF AtLevel, Index
        <4>2. Links(mmu.page, TableIndex(arg.virt, 2), table.page)'
          BY <1>1, <1>8, <1>10, <4>1
        <4> QED BY <1>1, <3>1, <4>2 DEF AtLevel
      <3>2. CASE level = 1
        <4>1. Links(mmu.page, TableIndex(arg.virt, 2), a) /\ i = TableIndex(arg.virt, 1)
          BY <1>2, <2>1, <3>2 DEF AtLevel, Index
        <4>2. Links(mmu.page, TableIndex(arg.virt, 2), a)'
          <5>1. PICK r \in tables, s \in Slot : r = mmu.page /\ s = TableIndex(arg.virt, 2)
            BY <1>5, <2>2
          <5>2. Links(r, s, a)'
            BY <1>8, <4>1, <5>1
          <5> QED BY <1>1, <5>1, <5>2
        <4>3. Links(a, TableIndex(arg.virt, 1), table.page)'
          BY <1>1, <1>8, <1>10, <4>1
        <4> QED BY <1>1, <1>3, <3>2, <4>2, <4>3 DEF AtLevel
      <3> QED BY <1>4, <3>1, <3>2
    <2>4. MapEntry' = MapEntry
      BY <1>1 DEF MapEntry
    <2> QED BY <1>1, <1>4, <1>5, <1>10, <2>3, <2>4 DEF MInv, Walk
  <1>14. Shape'
    BY ShapeLinked
  <1> QED BY <1>11, <1>12, <1>13, <1>14 DEF MInv

\* mmu_entry goes down into a table that is there.
LEMMA EntryDescendStep ==
    ASSUME MInv, IInv', mmu_entry_descend
    PROVE  MInv'
  <1> PICK kind \in [tables -> 0 .. 2] : Leveled(kind) /\ LinkedOnce(kind) /\ NewTable(kind)
    BY DEF MInv, Shape
  <1>1. /\ InLoop /\ ~Missing(Load(table, Index)) /\ table' = TableOf(Load(table, Index))
        /\ level' = level - 1
        /\ UNCHANGED <<allocVars, pc, caller, mmu, arg, page, todo, tables, ready, mapped>>
    BY DEF mmu_entry_descend
  <1>2. PICK w, a, i : w = mem[table.page][Index] /\ a = table.page /\ i = Index
    OBVIOUS
  <1>3. /\ InMap /\ pc = "walk" /\ level \in {1, 2} /\ mmu.page \in tables
        /\ a \in tables /\ i \in Slot /\ arg.virt \in Window
        /\ w \in LinkWord /\ Load(table, Index) = w
    BY <1>1, <1>2, WalkReads
  <1>4. UNCHANGED <<status, owned, mem>>
    BY <1>1 DEF allocVars
  <1>5. table' \in Ptr /\ table'.page = w.ppn
    <2>1. [page |-> w.ppn, top |-> w.top] \in Ptr
      BY <1>3, RamAssumption DEF LinkWord, Ptr, Ram
    <2> QED BY <1>1, <1>3, <2>1 DEF TableOf, make_accessible, phys2virt, Ptr, Top
  <1>6. Links(a, i, w.ppn)
    BY <1>2, <1>3 DEF Links
  <1>7. Roots' = Roots
    BY <1>1 DEF Roots
  <1>8. MmuTypeOK'
    <2>1. AllocTypeOK'
      BY DEF IInv
    <2>2. level' \in 0 .. ENTRY_COUNT
      BY <1>1, <1>3, SizeAssumption
    <2> QED BY <1>1, <1>5, <2>1, <2>2 DEF MInv, MmuTypeOK
  <1>9. Owners' /\ Control'
    BY <1>1, <1>3, <1>4, <1>7 DEF MInv, Owners, OwnedPages, Control, Members
  <1>10. Walk'
    <2>1. AtLevel(mmu.page, arg.virt, a, level)
      BY <1>2, <1>3 DEF MInv, Walk
    <2>2. AtLevel(mmu.page, arg.virt, table.page, level)'
      <3>1. /\ mmu' = mmu /\ arg' = arg /\ tables' = tables /\ level' = level - 1 /\ table'.page = w.ppn
            /\ \A x, j, y : Links(x, j, y)' <=> Links(x, j, y)
        BY <1>1, <1>4, <1>5 DEF Links
      <3>2. i = TableIndex(arg.virt, level)
        BY <1>2 DEF Index
      <3>3. CASE level = 2
        <4>1. a = mmu.page /\ level' = 1
          BY <2>1, <3>1, <3>3 DEF AtLevel
        <4> QED BY <1>6, <3>1, <3>2, <3>3, <4>1 DEF AtLevel
      <3>4. CASE level = 1
        <4>1. Links(mmu.page, TableIndex(arg.virt, 2), a) /\ level' = 0
          BY <2>1, <3>1, <3>4 DEF AtLevel
        <4> QED BY <1>3, <1>6, <3>1, <3>2, <3>4, <4>1 DEF AtLevel
      <3> QED BY <1>3, <3>3, <3>4
    <2>3. MapEntry' = MapEntry
      BY <1>1 DEF MapEntry
    <2> QED BY <1>1, <1>3, <1>5, <2>2, <2>3 DEF MInv, Walk
  <1>11. Shape'
    BY <1>1, <1>3, <1>4, <1>7, ShapeKept
  <1> QED BY <1>8, <1>9, <1>10, <1>11 DEF MInv

\* mmu_map stores the entry and returns to its caller.
LEMMA MapStoreStep ==
    ASSUME MInv, IInv', mmu_map_store
    PROVE  MInv'
  <1> PICK kind \in [tables -> 0 .. 2] : Leveled(kind) /\ LinkedOnce(kind) /\ NewTable(kind)
    BY DEF MInv, Shape
  <1>1. /\ pc = "walk" /\ InMap /\ pc' = caller
        /\ UNCHANGED <<status, owned, caller, mmu, arg, level, table, page, todo, tables, ready>>
        /\ mapped' = {m \in mapped : m.mmu # mmu \/ m.virt # arg.virt} \union
                     {[mmu |-> mmu, virt |-> arg.virt, phys |-> arg.phys,
                       flags |-> arg.flags, early |-> ~mmu_enabled]}
    BY DEF mmu_map_store, MapStore, EntryFound, InMap
  <1>2. /\ table.page \in tables /\ kind[table.page] = 0 /\ Index \in Slot /\ MapEntry \in MapWord
        /\ mem' = [mem EXCEPT ![table.page][Index] = MapEntry]
    BY MapStoreAt
  <1>3. caller \in {"idle", "identity"} /\ mmu # NULL /\ (caller = "idle" => mmu \in ready)
    BY <1>1 DEF MInv, MmuTypeOK, Control, Walk
  <1>4. Roots' = Roots
    BY <1>1 DEF Roots
  <1>5. MmuTypeOK'
    <2>1. AllocTypeOK'
      BY DEF IInv
    <2>2. arg \in [virt : VirtPage, phys : Ptr, flags : SUBSET Flag] /\ mmu \in Ptr
      BY <1>1, <1>3 DEF MInv, MmuTypeOK, Walk
    <2>3. [mmu |-> mmu, virt |-> arg.virt, phys |-> arg.phys, flags |-> arg.flags, early |-> ~mmu_enabled]
             \in [mmu : Ptr, virt : VirtPage, phys : Ptr, flags : SUBSET Flag, early : BOOLEAN]
      BY <2>2 DEF mmu_enabled
    <2> QED BY <1>1, <1>3, <2>1, <2>3 DEF MInv, MmuTypeOK
  <1>6. Owners' /\ Control' /\ Walk'
    BY <1>1, <1>3, <1>4 DEF MInv, Owners, OwnedPages, Control, Members, Walk, InMap
  <1>7. Shape'
    <2>1. MapEntry \in WordsOf(0, Index)
      BY <1>2 DEF WordsOf
    <2>2. pc' # "link"
      BY <1>1, <1>3
    <2> QED BY <1>1, <1>2, <1>4, <2>1, <2>2, ShapeStored
  <1> QED BY <1>5, <1>6, <1>7 DEF MInv

\* The loop over the top half begins ...
LEMMA TopHalfBegins ==
    ASSUME MInv, IInv', map_top_half
    PROVE  MInv'
  <1>1. /\ pc = "identity" /\ pc' = "tophalf" /\ table' = make_accessible(mmu)
        /\ level' = ENTRY_COUNT \div 2
        /\ UNCHANGED <<status, owned, mem, caller, mmu, arg, page, todo, tables, ready, mapped>>
    BY DEF map_top_half, allocVars
  <1>2. mmu # NULL /\ mmu \in Ptr
    BY <1>1 DEF MInv, Control, MmuTypeOK
  <1>3. table' \in Ptr /\ table'.page = mmu.page
    BY <1>1, <1>2 DEF make_accessible, phys2virt, Ptr, Top
  <1>4. level' \in ENTRY_COUNT \div 2 .. ENTRY_COUNT /\ level' \in 0 .. ENTRY_COUNT
    BY <1>1, Sizes, SizeAssumption
  <1>5. Roots' = Roots
    BY <1>1 DEF Roots
  <1>6. MmuTypeOK'
    BY <1>1, <1>3, <1>4 DEF MInv, MmuTypeOK, IInv
  <1>7. Owners' /\ Control' /\ Walk'
    BY <1>1, <1>2, <1>3, <1>4, <1>5 DEF MInv, Owners, OwnedPages, Control, Members, Walk, InMap
  <1>8. Shape'
    BY <1>1, <1>5, ShapeKept
  <1> QED BY <1>6, <1>7, <1>8 DEF MInv

\* ... stores an entry ...
LEMMA TopHalfEntryStep ==
    ASSUME MInv, IInv', map_top_half_entry
    PROVE  MInv'
  <1> PICK kind \in [tables -> 0 .. 2] : Leveled(kind) /\ LinkedOnce(kind) /\ NewTable(kind)
    BY DEF MInv, Shape
  <1>1. /\ level <= ENTRY_COUNT - 1 /\ level' = level + 1
        /\ UNCHANGED <<status, owned, pc, caller, mmu, arg, table, page, todo, tables, ready, mapped>>
    BY DEF map_top_half_entry, StoreTopHalf
  <1>2. /\ pc = "tophalf" /\ mmu.page \in Roots /\ mmu.page \in tables
        /\ level \in HighSlot /\ level \in Slot /\ level \notin LowSlot
        /\ mem' = [mem EXCEPT ![mmu.page][level] = TopHalfEntry(level)]
    BY TopHalfStore
  <1>3. level' \in ENTRY_COUNT \div 2 .. ENTRY_COUNT /\ level' \in 0 .. ENTRY_COUNT
    BY <1>1, <1>2, Sizes, SizeAssumption DEF HighSlot
  <1>4. Roots' = Roots
    BY <1>1 DEF Roots
  <1>5. MmuTypeOK'
    BY <1>1, <1>3 DEF MInv, MmuTypeOK, IInv
  <1>6. Owners' /\ Control' /\ Walk'
    BY <1>1, <1>2, <1>3, <1>4 DEF MInv, Owners, OwnedPages, Control, Members, Walk, InMap
  <1>7. Shape'
    <2>1. kind[mmu.page] = 2
      BY <1>2 DEF Leveled
    <2>2. WordsOf(2, level) = {NULL, TopHalfEntry(level)}
      BY <1>2 DEF WordsOf
    <2>3. mem[mmu.page][level] \in {NULL, TopHalfEntry(level)}
      BY <1>2, <2>1, <2>2 DEF Leveled
    <2>4. TopHalfEntry(level) \notin LinkWord /\ NULL \notin LinkWord
      BY <1>2, WordsRead
    <2>5. TopHalfEntry(level) \in WordsOf(kind[mmu.page], level) /\ mem[mmu.page][level] \notin LinkWord
      BY <2>1, <2>2, <2>3, <2>4
    <2>6. PICK p \in tables, s \in Slot : p = mmu.page /\ s = level
      BY <1>2
    <2> QED BY <1>1, <1>2, <1>4, <2>4, <2>5, <2>6, ShapeStored
  <1> QED BY <1>5, <1>6, <1>7 DEF MInv

\* ... and mmu_new_page_table returns.
LEMMA NewReturns ==
    ASSUME MInv, IInv', mmu_new_page_table_return
    PROVE  MInv'
  <1>1. /\ pc = "tophalf" /\ pc' = "idle" /\ ready' = ready \union {mmu}
        /\ UNCHANGED <<status, owned, mem, caller, mmu, arg, level, table, page, todo, tables, mapped>>
    BY DEF mmu_new_page_table_return, allocVars
  <1>2. mmu # NULL /\ mmu \in owned /\ mmu \in Ptr
    BY <1>1 DEF MInv, Control, Owners, MmuTypeOK
  <1>3. Roots' = Roots
    BY <1>1, <1>2 DEF Roots
  <1>4. MmuTypeOK'
    BY <1>1, <1>2 DEF MInv, MmuTypeOK, IInv
  <1>5. Owners' /\ Control' /\ Walk'
    BY <1>1, <1>2, <1>3 DEF MInv, Owners, OwnedPages, Control, Members, Walk, InMap
  <1>6. Shape'
    BY <1>1, <1>3, ShapeKept
  <1> QED BY <1>4, <1>5, <1>6 DEF MInv

\* set_mmu switches to another page table, or off its own code.
LEMMA ActivateStep ==
    ASSUME MInv, IInv', NEW root \in ready, activate(root)
    PROVE  MInv'
  <1>1. /\ pc = "idle" /\ pc' \in {"idle", "fetch"}
        /\ UNCHANGED <<status, owned, mem, caller, mmu, arg, level, table, page, todo, tables,
                       ready, mapped>>
    BY DEF activate, set_mmu
  <1>2. Roots' = Roots
    BY <1>1 DEF Roots
  <1>3. MmuTypeOK'
    BY <1>1 DEF MInv, MmuTypeOK, IInv
  <1>4. Owners' /\ Control' /\ Walk'
    BY <1>1, <1>2 DEF MInv, Owners, OwnedPages, Control, Members, Walk, InMap
  <1>5. Shape'
    BY <1>1, <1>2, ShapeKept
  <1> QED BY <1>3, <1>4, <1>5 DEF MInv

\* MInv is inductive: every step of every call, the kernel's own use of the
\* allocator, traps and panics preserve it.
THEOREM MmuInductive ==
    ASSUME CallersInWindow
    PROVE  MInv /\ [MmuNext]_mmuVars => MInv'
  <1> SUFFICES ASSUME MInv, [MmuNext]_mmuVars PROVE MInv'
    OBVIOUS
  <1>0. IInv'
    BY AllocatorStep, Inductive DEF MInv
  <1>1. CASE AllocatorCall
    BY <1>0, <1>1, AllocatorCallStep
  <1>2. CASE mmu_new_page_table
    BY <1>0, <1>2, NewRootStep
  <1>3. CASE \/ mmu_new_page_table_panic \/ mmu_entry_panic \/ mmu_entry_wild
             \/ fetch_fault \/ Interrupt \/ Stopped \/ UNCHANGED mmuVars
    BY <1>0, <1>3, StopStep
       DEF mmu_new_page_table_panic, mmu_entry_panic, mmu_entry_wild, fetch_fault, Interrupt,
           Stopped, alloc_page_panic, Trap, mmuVars, allocVars
  <1>4. ASSUME NEW root \in ready, NEW virt \in MapVirt, NEW phys \in DataPages, NEW flags \in MapFlags,
               mmu_map(root, virt, phys, flags)
        PROVE  MInv'
    BY <1>4, MapCallStep
  <1>5. ASSUME NEW root \in ready, activate(root) PROVE MInv'
    BY <1>0, <1>5, ActivateStep
  <1>6. CASE mmu_entry_alloc \/ mmu_entry_link \/ mmu_entry_descend \/ mmu_map_store
    BY <1>0, <1>6, EntryAllocStep, EntryLinkStep, EntryDescendStep, MapStoreStep
  <1>7. CASE identity_map
    BY <1>7, IdentityMapStep
  <1>8. CASE map_top_half \/ map_top_half_entry \/ mmu_new_page_table_return
    BY <1>0, <1>8, TopHalfBegins, TopHalfEntryStep, NewReturns
  <1> QED BY <1>1, <1>2, <1>3, <1>4, <1>5, <1>6, <1>7, <1>8
          DEF MmuNext, MmuCall, StartCall, CallStep, InnerStep

\* Every reachable state satisfies the inductive invariant.
THEOREM MmuInvariance ==
    ASSUME CallersInWindow
    PROVE  MmuSafeSpec => []MInv
  BY InitMInv, MmuInductive, PTL DEF MmuSafeSpec

\* Every variable of the page table code always has its type.
THEOREM MmuTypeCorrect ==
    ASSUME CallersInWindow
    PROVE  MmuSafeSpec => []MmuTypeOK
  <1>1. MInv => MmuTypeOK
    BY DEF MInv
  <1> QED BY <1>1, MmuInvariance, PTL

\* For every geometry and every sequence of calls the page table code does to
\* memory only what the allocator allows the holders of its pages to do.
THEOREM MmuRefinesAlloc ==
    ASSUME CallersInWindow
    PROVE  MmuSafeSpec => ImplementsAlloc
  <1>1. MmuInit => AllocInit
    BY DEF MmuInit
  <1> QED BY <1>1, AllocatorStep, MmuInvariance, PTL DEF MmuSafeSpec, ImplementsAlloc, AllocSpec

\* No step of a call changes a page that is not a page table: neither the pages
\* that callers hold nor the free ones but the page it allocates.
THEOREM MmuWritesTables ==
    ASSUME CallersInWindow
    PROVE  MmuSafeSpec => OnlyTablesWritten
  <1> DEFINE Others == pc # "idle" => \A p \in Ram \ tables' : mem'[p] = mem[p]
  <1>1. ASSUME MInv, [MmuNext]_mmuVars PROVE [Others]_mmuVars
    <2> SUFFICES ASSUME MmuNext, pc # "idle", NEW p \in Ram, p \notin tables' PROVE mem'[p] = mem[p]
      BY <1>1
    <2> PICK kind \in [tables -> 0 .. 2] : Leveled(kind) /\ LinkedOnce(kind) /\ NewTable(kind)
      BY <1>1 DEF MInv, Shape
    <2>0. mem \in [Ram -> [Slot -> Word]] /\ tables \subseteq Ram
      BY <1>1, TableHeld DEF MInv, IInv, AllocTypeOK
    <2>1. CASE mmu_entry_alloc
      <3>1. alloc_page(TRUE) /\ tables' = tables \union {AllocatedPtr.page}
        BY <2>1 DEF mmu_entry_alloc, EntryAlloc
      <3> QED BY <1>1, <3>1, AllocChanges
    <2>2. ASSUME NEW q \in tables, NEW s \in Slot, NEW w, mem' = [mem EXCEPT ![q][s] = w],
                 tables' = tables
          PROVE  mem'[p] = mem[p]
      BY <2>0, <2>2
    <2>3. CASE mmu_entry_link
      BY <1>1, <2>2, <2>3, LinkStore DEF mmu_entry_link, EntryLink
    <2>4. CASE mmu_map_store
      BY <1>1, <2>2, <2>4, MapStoreAt DEF mmu_map_store, MapStore
    <2>5. CASE map_top_half_entry
      BY <1>1, <2>2, <2>5, TopHalfStore DEF map_top_half_entry, StoreTopHalf
    <2>6. CASE \/ mmu_entry_panic \/ mmu_entry_wild \/ mmu_entry_descend \/ identity_map
               \/ map_top_half \/ mmu_new_page_table_return \/ fetch_fault \/ Interrupt \/ Stopped
      BY <2>6 DEF mmu_entry_panic, mmu_entry_wild, mmu_entry_descend, identity_map,
                  IdentityMapPage, map_top_half, mmu_new_page_table_return, fetch_fault,
                  Interrupt, Stopped, alloc_page_panic, Trap, mmuVars, allocVars
    <2> QED BY <2>1, <2>3, <2>4, <2>5, <2>6
            DEF MmuNext, MmuCall, StartCall, CallStep, InnerStep, AllocatorCall, activate,
                mmu_new_page_table, mmu_new_page_table_panic, mmu_map
  <1> QED BY <1>1, MmuInvariance, PTL DEF MmuSafeSpec, OnlyTablesWritten

----------------------------------------------------------------------------
(* The trees that the hardware sees *)

\* The kernel's own flag sets are those of leaves, and so are the callers'.
LEMMA LeafFlags ==
    ASSUME CallersMapLeaves, NEW f \in MapFlagSets
    PROVE  /\ "VALID" \in f /\ f \intersect {"READ", "EXEC"} # {}
           /\ "READ" \notin f => "WRITE" \notin f
  <1>1. PICK g \in MapFlags \union {KernelPages[i].flags : i \in 1 .. Len(KernelPages)} :
           f = g \union {"VALID"}
    BY DEF MapFlagSets
  <1>2. CASE g \in MapFlags
    BY <1>1, <1>2 DEF CallersMapLeaves
  <1>3. CASE \E i \in 1 .. Len(KernelPages) : g = KernelPages[i].flags
    <2>1. PICK e \in Members(KernelPages) : g = e.flags
      BY <1>3 DEF Members
    <2>2. g \in {{"GLOBAL", "EXEC"}, {"GLOBAL", "READ"}, {"GLOBAL", "READ", "WRITE"}}
      BY <2>1, KernelCalls DEF Identity
    <2> QED BY <1>1, <2>2
  <1> QED BY <1>1, <1>2, <1>3

\* An entry that neither is missing nor is a leaf is a link of a level above 0.
LEMMA ReferencesAreLinks ==
    ASSUME CallersMapLeaves, NEW kind \in [tables -> 0 .. 2], Leveled(kind),
           NEW p \in tables, NEW s \in Slot
    PROVE  ~Missing(mem[p][s]) /\ ~IsLeaf(mem[p][s]) <=> kind[p] > 0 /\ mem[p][s] \in LinkWord
  <1>1. mem[p][s] \in WordsOf(kind[p], s) /\ kind[p] \in 0 .. 2
    BY DEF Leveled
  <1>2. ASSUME NEW w \in MapWord PROVE IsLeaf(w)
    <2>1. w \in Pte /\ w.flags \in MapFlagSets
      BY WordsRead DEF MapWord
    <2> QED BY <2>1, LeafFlags DEF IsLeaf, EntryFlags
  <1>3. CASE kind[p] = 0
    BY <1>1, <1>2, <1>3, WordsRead DEF WordsOf
  <1>4. CASE kind[p] > 0
    <2>1. s \in LowSlot \/ s \in HighSlot
      BY Sizes DEF Slot, LowSlot, HighSlot
    <2> QED BY <1>1, <1>4, <2>1, WordsRead DEF WordsOf
  <1> QED BY <1>1, <1>3, <1>4

\* For every geometry the page tables are trees of depth two, whatever is mapped
\* and however a call is cut short: mmu_entry never links a table twice, and never
\* loses one.
THEOREM MmuTrees ==
    ASSUME CallersInWindow, CallersMapLeaves
    PROVE  MmuSafeSpec => []TableTree
  <1>1. ASSUME MInv PROVE TableTree
    <2> PICK kind \in [tables -> 0 .. 2] : Leveled(kind) /\ LinkedOnce(kind) /\ NewTable(kind)
      BY <1>1 DEF MInv, Shape
    <2>0. tables \subseteq Ram
      BY <1>1, TableHeld
    <2>1. \A p, q \in tables, s \in Slot :
             <<p, s>> \in References(q) <=> kind[p] > 0 /\ Links(p, s, q)
      <3> SUFFICES ASSUME NEW p \in tables, NEW q \in tables, NEW s \in Slot
                   PROVE  <<p, s>> \in References(q) <=> kind[p] > 0 /\ Links(p, s, q)
        OBVIOUS
      <3>1. <<p, s>> \in References(q) <=>
               ~Missing(mem[p][s]) /\ ~IsLeaf(mem[p][s]) /\ mem[p][s].ppn = q
        BY DEF References
      <3>2. ~Missing(mem[p][s]) /\ ~IsLeaf(mem[p][s]) <=> kind[p] > 0 /\ mem[p][s] \in LinkWord
        BY ReferencesAreLinks
      <3> QED BY <3>1, <3>2 DEF Links
    <2>2. \A q \in tables : \A e \in References(q) :
             /\ e[1] \in tables /\ e[2] \in Slot /\ e = <<e[1], e[2]>>
             /\ kind[e[1]] > 0 /\ Links(e[1], e[2], q)
      <3> SUFFICES ASSUME NEW q \in tables, NEW e \in References(q)
                   PROVE  /\ e[1] \in tables /\ e[2] \in Slot /\ e = <<e[1], e[2]>>
                          /\ kind[e[1]] > 0 /\ Links(e[1], e[2], q)
        OBVIOUS
      <3>1. e \in tables \X Slot
        BY DEF References
      <3>2. e[1] \in tables /\ e[2] \in Slot /\ e = <<e[1], e[2]>>
        BY <3>1
      <3> QED BY <2>1, <3>2
    <2>3. \A p, q \in tables, s \in Slot : kind[p] > 0 /\ Links(p, s, q) => kind[q] = kind[p] - 1
      BY <2>0 DEF Leveled
    <2>4. \A p \in tables : kind[p] \in 0 .. 2 /\ (kind[p] = 2 <=> p \in Roots)
      BY DEF Leveled
    <2>5. SUFFICES ASSUME NEW q \in tables
                   PROVE  IF q \in Roots \/ (pc = "link" /\ q = page.page)
                          THEN References(q) = {}
                          ELSE \E e \in tables \X Slot :
                                  /\ References(q) = {e}
                                  /\ e[1] \in Roots \/ \E f \in References(e[1]) : f[1] \in Roots
      BY DEF TableTree
    <2>6. CASE q \in Roots
      <3>1. kind[q] = 2
        BY <2>4, <2>6
      <3>2. ASSUME NEW e \in References(q) PROVE FALSE
        BY <2>2, <2>3, <2>4, <3>1
      <3> QED BY <2>6, <3>2
    <2>7. CASE pc = "link" /\ q = page.page
      <3>1. ASSUME NEW e \in References(q) PROVE FALSE
        BY <2>2, <2>7 DEF NewTable
      <3> QED BY <2>7, <3>1
    <2>8. CASE q \notin Roots /\ ~(pc = "link" /\ q = page.page)
      <3>1. PICK p \in tables, s \in Slot : kind[p] > 0 /\ Links(p, s, q)
        BY <2>4, <2>8 DEF LinkedOnce
      <3>2. <<p, s>> \in References(q)
        BY <2>1, <3>1
      <3>3. ASSUME NEW e \in References(q) PROVE e = <<p, s>>
        <4>1. e[1] \in tables /\ e[2] \in Slot /\ kind[e[1]] > 0 /\ Links(e[1], e[2], q) /\ q \in Ram
          BY <2>0, <2>2
        <4>2. e[1] = p /\ e[2] = s
          BY <3>1, <4>1 DEF LinkedOnce
        <4> QED BY <2>2, <4>2
      <3>4. References(q) = {<<p, s>>}
        BY <3>2, <3>3
      <3>5. p \in Roots \/ \E f \in References(p) : f[1] \in Roots
        <4>1. CASE kind[p] = 2
          BY <2>4, <4>1
        <4>2. CASE kind[p] = 1
          <5>1. ~(pc = "link" /\ p = page.page)
            BY <3>1, WordsRead DEF NewTable, Links
          <5>2. PICK r \in tables, t \in Slot : kind[r] > 0 /\ Links(r, t, p)
            BY <4>2, <5>1 DEF LinkedOnce
          <5>3. kind[r] = 2
            BY <2>3, <2>4, <4>2, <5>2
          <5>4. <<r, t>> \in References(p) /\ <<r, t>>[1] \in Roots
            BY <2>1, <2>4, <5>2, <5>3
          <5> QED BY <5>4
        <4> QED BY <2>4, <3>1, <4>1, <4>2
      <3>6. <<p, s>> \in tables \X Slot /\ <<p, s>>[1] = p
        OBVIOUS
      <3> QED BY <2>8, <3>4, <3>5, <3>6
    <2> QED BY <2>6, <2>7, <2>8
  <1> QED BY <1>1, MmuInvariance, PTL

----------------------------------------------------------------------------
(* What the page tables translate *)

\* The pointers that are root tables.
Live == ready \union (IF mmu # NULL THEN {mmu} ELSE {})

\* mmu_entry for page v goes from the root over table a to table b.
Reaches(root, v, a, b) == Links(root, TableIndex(v, 2), a) /\ Links(a, TableIndex(v, 1), b)

\* The two links on the way and the root can be used by the hardware as stored.
Physical(root, v, a) ==
    root.top = "zero" /\ mem[root.page][TableIndex(v, 2)].top = "zero"
                      /\ mem[a][TableIndex(v, 1)].top = "zero"

\* Every mapping recorded is in memory ...
InMemory(m) ==
    \E a, b \in tables :
        /\ Reaches(m.mmu.page, m.virt, a, b)
        /\ mem[b][TableIndex(m.virt, 0)] = [ppn |-> m.phys.page, top |-> m.phys.top, flags |-> m.flags]
        /\ m.early => Physical(m.mmu, m.virt, a) /\ m.phys.top = "zero"
Recorded ==
    \A m \in mapped : /\ m.mmu \in Live /\ m.virt \in Window
                      /\ m.phys.page \in Ram /\ m.flags \in MapFlagSets
                      /\ InMemory(m)

\* ... and nothing else is.
Unrecorded ==
    \A root \in Live, v \in Window, a, b \in tables :
        Reaches(root.page, v, a, b) /\ mem[b][TableIndex(v, 0)] # NULL =>
            \E m \in mapped : m.mmu = root /\ m.virt = v

\* Before translation is on every address is a physical one.
AllPhysical ==
    satp = NULL =>
        /\ \A ptr \in owned : ptr.top = "zero"
        /\ free_list # NULL => free_list.top = "zero"
        /\ \A p \in FreePages : mem[p][0] # NULL => mem[p][0].top = "zero"
        /\ \A p \in tables, s \in Slot : mem[p][s] # NULL => mem[p][s].top = "zero"
        /\ InMap => arg.phys.top = "zero"
        /\ pc = "link" => page.top = "zero"

\* The arguments with which identity_map calls mmu_map for e, and the record of it.
KernelArg(e) == [virt |-> e.virt, phys |-> [page |-> e.virt, top |-> "zero"],
                 flags |-> e.flags \union {"VALID"}]
KernelRecord(root, e) ==
    \E m \in mapped : /\ m.mmu = root /\ m.virt = KernelArg(e).virt
                      /\ m.phys = KernelArg(e).phys /\ m.flags = KernelArg(e).flags
                      /\ root.top = "zero" => m.early

\* Every finished root maps the kernel; the one that is being built maps what
\* identity_map has done, which leaves what is still to do.
Building == pc \in {"identity", "tophalf"} \/ (InMap /\ caller = "identity")
KernelRecorded ==
    /\ \A root \in ready, e \in Members(KernelPages) : KernelRecord(root, e)
    /\ Building =>
          /\ mmu \notin ready
          /\ mmu.top = "zero" => satp = NULL
          /\ \A e \in Members(KernelPages) :
                e \in Members(todo) \/ (InMap /\ arg = KernelArg(e)) \/ KernelRecord(mmu, e)
    /\ InMap /\ caller = "identity" => \E e \in Members(KernelPages) : arg = KernelArg(e)
    /\ InMap /\ caller = "idle" => arg.virt \in MapVirt
    /\ pc = "tophalf" => todo = <<>>

\* The top half of every finished root maps all of physical memory.
TopHalfFilled ==
    /\ \A root \in ready, s \in HighSlot : mem[root.page][s] = TopHalfEntry(s)
    /\ pc = "tophalf" =>
          \A s \in HighSlot : s < level => mem[mmu.page][s] = TopHalfEntry(s)

\* The inductive invariant, on top of MInv.
MapInv == Recorded /\ Unrecorded /\ AllPhysical /\ KernelRecorded /\ TopHalfFilled

----------------------------------------------------------------------------
(* Roots and ways *)

\* Roots are tables that somebody holds, each under one pointer.
LEMMA LiveRoots ==
    ASSUME MInv
    PROVE  /\ \A root \in Live : /\ root \in owned /\ root \in Ptr /\ root # NULL
                                 /\ root.page \in Roots /\ root.page \in tables /\ root.page \in Ram
           /\ \A r, t \in Live : r.page = t.page => r = t
           /\ ready \subseteq Live
  <1>1. ASSUME NEW root \in Live
        PROVE  /\ root \in owned /\ root \in Ptr /\ root # NULL
               /\ root.page \in Roots /\ root.page \in tables /\ root.page \in Ram
    <2>1. root \in owned
      BY DEF Live, MInv, Owners
    <2>2. root \in Ptr /\ root # NULL
      BY <2>1, NullAssumption DEF MInv, IInv, AllocTypeOK
    <2>3. root.page \in Roots
      BY <2>2 DEF Live, Roots
    <2>4. root.page \in tables
      BY <2>3 DEF MInv, Owners
    <2> QED BY <2>1, <2>2, <2>3, <2>4, TableHeld
  <1>2. ASSUME NEW r \in Live, NEW t \in Live, r.page = t.page PROVE r = t
    BY <1>1, <1>2 DEF MInv, IInv, EveryPageOnce
  <1> QED BY <1>1, <1>2 DEF Live

\* The tables on the way of a page of the window have the levels they should.
LEMMA WayLevels ==
    ASSUME MInv, NEW kind \in [tables -> 0 .. 2], Leveled(kind),
           NEW root \in Live, NEW v \in Window, NEW a, NEW b, Reaches(root.page, v, a, b)
    PROVE  /\ root.page \in tables /\ kind[root.page] = 2
           /\ a \in tables /\ kind[a] = 1 /\ b \in tables /\ kind[b] = 0
           /\ TableIndex(v, 2) \in Slot /\ TableIndex(v, 2) \in LowSlot
           /\ TableIndex(v, 1) \in Slot /\ TableIndex(v, 0) \in Slot
  <1>1. root.page \in tables /\ kind[root.page] = 2
    BY LiveRoots DEF Leveled
  <1>2. /\ TableIndex(v, 2) \in Slot /\ TableIndex(v, 2) \in LowSlot
        /\ TableIndex(v, 1) \in Slot /\ TableIndex(v, 0) \in Slot
    BY WindowIndices
  <1>3. \A p \in tables, s \in Slot : \A q :
           kind[p] > 0 /\ Links(p, s, q) => q \in tables /\ kind[q] = kind[p] - 1
    BY DEF Leveled, Links, LinkWord
  <1>4. a \in tables /\ kind[a] = 1
    BY <1>1, <1>2, <1>3 DEF Reaches
  <1>5. b \in tables /\ kind[b] = 0
    BY <1>2, <1>3, <1>4 DEF Reaches
  <1> QED BY <1>1, <1>2, <1>4, <1>5

\* Different roots or different pages of the window never share an entry.
LEMMA OneWay ==
    ASSUME MInv, NEW kind \in [tables -> 0 .. 2], Leveled(kind), LinkedOnce(kind),
           NEW root \in Live, NEW v \in Window, NEW a, NEW b, Reaches(root.page, v, a, b),
           NEW other \in Live, NEW w \in Window, NEW c, Reaches(other.page, w, c, b),
           TableIndex(v, 0) = TableIndex(w, 0)
    PROVE  root = other /\ v = w /\ a = c
  <1>0. \A r \in Live, u \in Window : \A d, e : Reaches(r.page, u, d, e) =>
          /\ r.page \in tables /\ kind[r.page] = 2 /\ d \in tables /\ kind[d] = 1 /\ e \in tables
          /\ TableIndex(u, 2) \in Slot /\ TableIndex(u, 1) \in Slot
    BY WayLevels
  <1>1. /\ root.page \in tables /\ kind[root.page] = 2 /\ a \in tables /\ kind[a] = 1 /\ b \in tables
        /\ TableIndex(v, 2) \in Slot /\ TableIndex(v, 1) \in Slot
    BY <1>0
  <1>2. /\ other.page \in tables /\ kind[other.page] = 2 /\ c \in tables /\ kind[c] = 1
        /\ TableIndex(w, 2) \in Slot /\ TableIndex(w, 1) \in Slot
    BY <1>0
  <1>3. tables \subseteq Ram
    BY TableHeld
  <1>4. a = c /\ TableIndex(v, 1) = TableIndex(w, 1)
    BY <1>1, <1>2, <1>3 DEF LinkedOnce, Reaches
  <1>5. root.page = other.page /\ TableIndex(v, 2) = TableIndex(w, 2)
    BY <1>1, <1>2, <1>3, <1>4 DEF LinkedOnce, Reaches
  <1>6. root = other
    BY <1>5, LiveRoots
  <1>7. /\ v \div GigaPage = w \div GigaPage
        /\ (v \div ENTRY_COUNT) % ENTRY_COUNT = (w \div ENTRY_COUNT) % ENTRY_COUNT
        /\ v % ENTRY_COUNT = w % ENTRY_COUNT
        /\ v \in Nat /\ w \in Nat
    BY <1>4, <1>5, WindowIndices
  <1>8. v = w
    BY <1>7, IndicesTell
  <1> QED BY <1>4, <1>6, <1>8

\* Steps that keep every word that is not zero keep what is recorded.
LEMMA RecordedKept ==
    ASSUME MInv, Recorded, tables \subseteq tables', Live \subseteq Live', mapped' = mapped,
           \A p \in tables, s \in Slot : mem[p][s] # NULL => mem'[p][s] = mem[p][s]
    PROVE  Recorded'
  <1> PICK kind \in [tables -> 0 .. 2] : Leveled(kind) /\ LinkedOnce(kind) /\ NewTable(kind)
    BY DEF MInv, Shape
  <1> SUFFICES ASSUME NEW m \in mapped
               PROVE  /\ m.mmu \in Live' /\ m.virt \in Window
                      /\ m.phys.page \in Ram /\ m.flags \in MapFlagSets
                      /\ InMemory(m)'
    BY DEF Recorded
  <1>1. /\ m.mmu \in Live /\ m.virt \in Window
        /\ m.phys.page \in Ram /\ m.flags \in MapFlagSets /\ InMemory(m)
    BY DEF Recorded
  <1>2. PICK a, b \in tables :
          /\ Reaches(m.mmu.page, m.virt, a, b)
          /\ mem[b][TableIndex(m.virt, 0)] =
                [ppn |-> m.phys.page, top |-> m.phys.top, flags |-> m.flags]
          /\ m.early => Physical(m.mmu, m.virt, a) /\ m.phys.top = "zero"
    BY <1>1 DEF InMemory
  <1>3. PICK r, s, t, u : /\ r = m.mmu.page /\ s = TableIndex(m.virt, 2)
                          /\ t = TableIndex(m.virt, 1) /\ u = TableIndex(m.virt, 0)
    OBVIOUS
  <1>4. r \in tables /\ s \in Slot /\ t \in Slot /\ u \in Slot
    BY <1>1, <1>2, <1>3, WayLevels
  <1>5. mem[r][s] \in LinkWord /\ mem[a][t] \in LinkWord
    BY <1>2, <1>3 DEF Reaches, Links
  <1>6. mem[b][u] # NULL
    <2>1. m \in [mmu : Ptr, virt : VirtPage, phys : Ptr, flags : SUBSET Flag, early : BOOLEAN]
      BY DEF MInv, MmuTypeOK
    <2>2. mem[b][u] \in MapWord
      BY <1>1, <1>2, <1>3, <2>1 DEF MapWord, Ptr
    <2> QED BY <2>2, WordsRead
  <1>7. mem'[r][s] = mem[r][s] /\ mem'[a][t] = mem[a][t] /\ mem'[b][u] = mem[b][u]
    BY <1>4, <1>5, <1>6, WordsRead
  <1>8. Reaches(r, m.virt, a, b)'
    BY <1>2, <1>3, <1>7 DEF Reaches, Links
  <1>9. m.early => Physical(m.mmu, m.virt, a)'
    BY <1>2, <1>3, <1>7 DEF Physical
  <1>10. InMemory(m)'
    BY <1>2, <1>3, <1>7, <1>8, <1>9 DEF InMemory
  <1> QED BY <1>1, <1>10

\* Steps that open no new way keep it complete.
LEMMA UnrecordedKept ==
    ASSUME Unrecorded, mapped' = mapped,
           \A root \in Live', v \in Window, a, b \in tables' :
              Reaches(root.page, v, a, b)' /\ mem'[b][TableIndex(v, 0)] # NULL =>
                 /\ root \in Live /\ a \in tables /\ b \in tables
                 /\ Reaches(root.page, v, a, b) /\ mem[b][TableIndex(v, 0)] # NULL
    PROVE  Unrecorded'
  BY DEF Unrecorded

\* Steps that leave the tables alone, but for new ones that are empty.
LEMMA TablesAlone ==
    ASSUME MInv, Recorded, Unrecorded, tables \subseteq tables', mapped' = mapped,
           Live \subseteq Live', \A p \in tables : mem'[p] = mem[p],
           \A root \in Live' : root \in Live \/ \A s \in Slot : mem'[root.page][s] = NULL
    PROVE  Recorded' /\ Unrecorded'
  <1> PICK kind \in [tables -> 0 .. 2] : Leveled(kind) /\ LinkedOnce(kind) /\ NewTable(kind)
    BY DEF MInv, Shape
  <1>1. Recorded'
    BY RecordedKept
  <1>2. ASSUME NEW root \in Live', NEW v \in Window, NEW a \in tables', NEW b \in tables',
               Reaches(root.page, v, a, b)', mem'[b][TableIndex(v, 0)] # NULL
        PROVE  /\ root \in Live /\ a \in tables /\ b \in tables
               /\ Reaches(root.page, v, a, b) /\ mem[b][TableIndex(v, 0)] # NULL
    <2>1. /\ TableIndex(v, 2) \in Slot /\ TableIndex(v, 1) \in Slot /\ TableIndex(v, 0) \in Slot
      BY WindowIndices
    <2>2. root \in Live
      BY <1>2, <2>1, WordsRead DEF Reaches, Links
    <2>3. root.page \in tables /\ kind[root.page] = 2
      BY <2>2, LiveRoots DEF Leveled
    <2>4. \A p \in tables, s \in Slot : \A q :
             kind[p] > 0 /\ Links(p, s, q) => q \in tables /\ kind[q] = kind[p] - 1
      BY DEF Leveled, Links, LinkWord
    <2>5. Links(root.page, TableIndex(v, 2), a)
      BY <1>2, <2>3 DEF Reaches, Links
    <2>6. a \in tables /\ kind[a] = 1
      BY <2>1, <2>3, <2>4, <2>5
    <2>7. Links(a, TableIndex(v, 1), b)
      BY <1>2, <2>6 DEF Reaches, Links
    <2>8. b \in tables
      BY <2>1, <2>4, <2>6, <2>7
    <2> QED BY <1>2, <2>2, <2>5, <2>6, <2>7, <2>8 DEF Reaches
  <1>3. Unrecorded'
    BY <1>2, UnrecordedKept
  <1> QED BY <1>1, <1>3

----------------------------------------------------------------------------
(* The stores of mmu_entry, mmu_map and the loop over the top half *)

\* Where no call adds a root.
LEMMA SameLive ==
    ASSUME ready' = ready, mmu' = mmu
    PROVE  Live' = Live
  BY DEF Live

\* mmu_entry links an empty table: no way through it leads to an entry.
LEMMA LinkMaps ==
    ASSUME MInv, Recorded, Unrecorded, mmu_entry_link
    PROVE  /\ Recorded' /\ Unrecorded'
           /\ \A p \in tables, s \in Slot : mem[p][s] # NULL => mem'[p][s] = mem[p][s]
  <1> PICK kind \in [tables -> 0 .. 2] : Leveled(kind) /\ LinkedOnce(kind) /\ NewTable(kind)
    BY DEF MInv, Shape
  <1>1. pc = "link" /\ InMap /\ UNCHANGED <<mmu, tables, ready, mapped>>
    BY DEF mmu_entry_link, EntryLink, InMap
  <1>2. PICK w, c, i, q : /\ w = [ppn |-> page.page, top |-> page.top, flags |-> {"VALID"}]
                          /\ c = table.page /\ i = Index /\ q = page.page
    OBVIOUS
  <1>3. /\ w \in LinkWord /\ w.ppn = q /\ c \in tables /\ i \in Slot /\ q \in tables
        /\ mem' = [mem EXCEPT ![c][i] = w]
    BY <1>2, LinkStore
  <1>4. mem[c][i] = NULL /\ \A s \in Slot : mem[q][s] = NULL
    BY <1>1, <1>2 DEF MInv, Walk, NewTable
  <1>5. kind[c] = level /\ level \in {1, 2} /\ kind[q] = level - 1
    BY <1>1, <1>2, WalkFacts DEF MInv, Walk, NewTable
  <1>6. tables \subseteq Ram /\ mem \in [Ram -> [Slot -> Word]]
    BY TableHeld DEF MInv, IInv, AllocTypeOK
  <1>7. \A p \in tables, s \in Slot : mem'[p][s] = IF p = c /\ s = i THEN w ELSE mem[p][s]
    BY <1>3, <1>6, OneWord
  <1>8. \A p \in tables, s \in Slot : mem[p][s] # NULL => mem'[p][s] = mem[p][s]
    BY <1>4, <1>7
  <1>9. Live' = Live
    BY <1>1, SameLive
  <1>10. Recorded'
    BY <1>1, <1>8, <1>9, RecordedKept
  <1>11. \A p \in tables, s \in Slot : \A x :
            Links(p, s, x)' <=> Links(p, s, x) \/ (p = c /\ s = i /\ x = q)
    BY <1>3, <1>4, <1>7, WordsRead DEF Links
  <1>12. ASSUME NEW root \in Live, NEW v \in Window, NEW a \in tables, NEW b \in tables,
                Reaches(root.page, v, a, b)', mem'[b][TableIndex(v, 0)] # NULL
         PROVE  Reaches(root.page, v, a, b) /\ mem[b][TableIndex(v, 0)] # NULL
    <2>1. /\ TableIndex(v, 2) \in Slot /\ TableIndex(v, 1) \in Slot /\ TableIndex(v, 0) \in Slot
      BY WindowIndices
    <2>2. root.page \in tables /\ kind[root.page] = 2
      BY LiveRoots DEF Leveled
    <2>3. Links(root.page, TableIndex(v, 2), a)' /\ Links(a, TableIndex(v, 1), b)'
      BY <1>12 DEF Reaches
    <2>4. q # c /\ \A s \in Slot : mem'[q][s] = NULL
      BY <1>3, <1>4, <1>5, <1>7
    <2>5. a # q /\ b # q
      BY <1>12, <2>1, <2>3, <2>4, WordsRead DEF Links
    <2>6. Links(root.page, TableIndex(v, 2), a) /\ Links(a, TableIndex(v, 1), b)
      BY <1>11, <2>1, <2>2, <2>3, <2>5
    <2>7. b # c
      <3>1. a \in tables /\ kind[a] = 1 /\ kind[b] = 0
        BY <2>6, WayLevels DEF Reaches
      <3> QED BY <1>5, <3>1
    <2> QED BY <1>7, <1>12, <2>1, <2>6, <2>7 DEF Reaches
  <1>13. Unrecorded'
    BY <1>1, <1>9, <1>12, UnrecordedKept
  <1> QED BY <1>8, <1>10, <1>13

\* The loop over the top half touches no entry for the lower half.
LEMMA TopHalfMaps ==
    ASSUME MInv, Recorded, Unrecorded, map_top_half_entry
    PROVE  /\ Recorded' /\ Unrecorded'
           /\ \A p \in tables, s \in Slot : mem[p][s] # NULL => mem'[p][s] = mem[p][s]
           /\ mem'[mmu.page][level] = TopHalfEntry(level) /\ level \in HighSlot
  <1> PICK kind \in [tables -> 0 .. 2] : Leveled(kind) /\ LinkedOnce(kind) /\ NewTable(kind)
    BY DEF MInv, Shape
  <1>1. UNCHANGED <<mmu, tables, ready, mapped>>
    BY DEF map_top_half_entry, StoreTopHalf
  <1>2. PICK c, i, w : c = mmu.page /\ i = level /\ w = TopHalfEntry(level)
    OBVIOUS
  <1>3. /\ c \in Roots /\ c \in tables /\ i \in HighSlot /\ i \in Slot /\ i \notin LowSlot
        /\ mem' = [mem EXCEPT ![c][i] = w]
    BY <1>2, TopHalfStore
  <1>4. kind[c] = 2 /\ mem[c][i] \in {NULL, w} /\ w \notin LinkWord
    BY <1>2, <1>3, WordsRead DEF Leveled, WordsOf
  <1>5. tables \subseteq Ram /\ mem \in [Ram -> [Slot -> Word]]
    BY TableHeld DEF MInv, IInv, AllocTypeOK
  <1>6. \A p \in tables, s \in Slot : mem'[p][s] = IF p = c /\ s = i THEN w ELSE mem[p][s]
    BY <1>3, <1>5, OneWord
  <1>7. \A p \in tables, s \in Slot : mem[p][s] # NULL => mem'[p][s] = mem[p][s]
    BY <1>4, <1>6
  <1>8. Live' = Live
    BY <1>1, SameLive
  <1>9. Recorded'
    BY <1>1, <1>7, <1>8, RecordedKept
  <1>10. \A p \in tables, s \in Slot : \A x : Links(p, s, x)' => Links(p, s, x)
    BY <1>4, <1>6 DEF Links
  <1>11. ASSUME NEW root \in Live, NEW v \in Window, NEW a \in tables, NEW b \in tables,
                Reaches(root.page, v, a, b)', mem'[b][TableIndex(v, 0)] # NULL
         PROVE  Reaches(root.page, v, a, b) /\ mem[b][TableIndex(v, 0)] # NULL
    <2>1. /\ TableIndex(v, 2) \in Slot /\ TableIndex(v, 1) \in Slot /\ TableIndex(v, 0) \in Slot
      BY WindowIndices
    <2>2. root.page \in tables
      BY LiveRoots
    <2>3. Reaches(root.page, v, a, b)
      BY <1>10, <1>11, <2>1, <2>2 DEF Reaches
    <2>4. kind[b] = 0
      BY <2>3, WayLevels
    <2> QED BY <1>4, <1>6, <1>11, <2>1, <2>3, <2>4
  <1>12. Unrecorded'
    BY <1>1, <1>8, <1>11, UnrecordedKept
  <1> QED BY <1>2, <1>3, <1>6, <1>7, <1>9, <1>12

\* What mmu_map changes: one entry of level 0, on the way of its page alone.
LEMMA MapStoreChanges ==
    ASSUME MInv, mmu_map_store
    PROVE  /\ \A p \in tables, s \in Slot :
                 mem'[p][s] = IF p = table.page /\ s = TableIndex(arg.virt, 0)
                              THEN MapEntry ELSE mem[p][s]
           /\ \A kind \in [tables -> 0 .. 2] : Leveled(kind) => kind[table.page] = 0
           /\ table.page \in tables /\ MapEntry \in MapWord
           /\ mmu \in Live /\ arg.virt \in Window
           /\ \E a \in tables : Reaches(mmu.page, arg.virt, a, table.page)
  <1> PICK kind \in [tables -> 0 .. 2] : Leveled(kind) /\ LinkedOnce(kind) /\ NewTable(kind)
    BY DEF MInv, Shape
  <1>1. pc = "walk" /\ InMap /\ EntryPage(table, Index) \in Ram
    BY DEF mmu_map_store, MapStore, EntryFound, InMap
  <1>2. PICK c, i, w : c = table.page /\ i = Index /\ w = MapEntry
    OBVIOUS
  <1>3. /\ level = 0 /\ c \in tables /\ i \in Slot /\ w \in MapWord
        /\ mem' = [mem EXCEPT ![c][i] = w]
    BY <1>2, MapStoreAt
  <1>4. \A k \in [tables -> 0 .. 2] : Leveled(k) => k[c] = 0
    BY <1>2, MapStoreAt
  <1>5. tables \subseteq Ram /\ mem \in [Ram -> [Slot -> Word]]
    BY TableHeld DEF MInv, IInv, AllocTypeOK
  <1>6. \A p \in tables, s \in Slot : mem'[p][s] = IF p = c /\ s = i THEN w ELSE mem[p][s]
    BY <1>3, <1>5, OneWord
  <1>7. arg.virt \in Window
    BY <1>1, WalkFacts
  <1>8. mmu \in Live
    BY <1>1 DEF MInv, Control, Live, InMap
  <1>9. \E a \in tables : Reaches(mmu.page, arg.virt, a, c)
    BY <1>1, <1>2, <1>3 DEF MInv, Walk, AtLevel, Reaches
  <1>10. i = TableIndex(arg.virt, 0)
    BY <1>2, <1>3 DEF Index
  <1> QED BY <1>2, <1>3, <1>4, <1>6, <1>7, <1>8, <1>9, <1>10

\* mmu_map's store agrees with the record it leaves.
LEMMA MapStoreMaps ==
    ASSUME MInv, Recorded, Unrecorded, AllPhysical, mmu_map_store
    PROVE  Recorded' /\ Unrecorded'
  <1> PICK kind \in [tables -> 0 .. 2] : Leveled(kind) /\ LinkedOnce(kind) /\ NewTable(kind)
    BY DEF MInv, Shape
  <1>1. /\ InMap /\ UNCHANGED <<mmu, tables, ready>>
        /\ mapped' = {m \in mapped : m.mmu # mmu \/ m.virt # arg.virt} \union
                     {[mmu |-> mmu, virt |-> arg.virt, phys |-> arg.phys,
                       flags |-> arg.flags, early |-> ~mmu_enabled]}
    BY DEF mmu_map_store, MapStore, EntryFound, InMap
  <1>2. PICK root, virt, phys, flags, early, c, w, new :
          /\ root = mmu /\ virt = arg.virt /\ phys = arg.phys /\ flags = arg.flags
          /\ early = ~mmu_enabled /\ c = table.page /\ w = MapEntry
          /\ new = [mmu |-> root, virt |-> virt, phys |-> phys, flags |-> flags, early |-> early]
    OBVIOUS
  <1>3. /\ \A p \in tables, s \in Slot :
              mem'[p][s] = IF p = c /\ s = TableIndex(virt, 0) THEN w ELSE mem[p][s]
        /\ kind[c] = 0 /\ c \in tables /\ w \in MapWord /\ root \in Live /\ virt \in Window
    BY <1>2, MapStoreChanges
  <1>4. PICK d \in tables : Reaches(root.page, virt, d, c)
    BY <1>2, MapStoreChanges
  <1>5. Live' = Live
    BY <1>1, SameLive
  <1>6. w = [ppn |-> phys.page, top |-> phys.top, flags |-> flags]
    BY <1>2 DEF MapEntry
  <1>7. ASSUME NEW r \in Live, NEW v \in Window, NEW a, NEW b
        PROVE  Reaches(r.page, v, a, b)' <=> Reaches(r.page, v, a, b)
    <2>1. TableIndex(v, 2) \in Slot /\ TableIndex(v, 1) \in Slot
      BY WindowIndices
    <2>2. r.page \in tables /\ kind[r.page] = 2
      BY LiveRoots DEF Leveled
    <2>3. Links(r.page, TableIndex(v, 2), a)' <=> Links(r.page, TableIndex(v, 2), a)
      BY <1>3, <2>1, <2>2 DEF Links
    <2>4. Links(r.page, TableIndex(v, 2), a) => a \in tables /\ kind[a] = 1
      BY <2>1, <2>2 DEF Leveled, Links, LinkWord
    <2>5. a \in tables /\ kind[a] = 1 =>
             (Links(a, TableIndex(v, 1), b)' <=> Links(a, TableIndex(v, 1), b))
      BY <1>3, <2>1 DEF Links
    <2> QED BY <2>3, <2>4, <2>5 DEF Reaches
  <1>unique. ASSUME NEW r \in Live, NEW v \in Window, NEW a, Reaches(r.page, v, a, c),
               TableIndex(v, 0) = TableIndex(virt, 0)
        PROVE  r = root /\ v = virt
    <2>1. root \in Live /\ virt \in Window
      BY <1>3
    <2> QED BY SMTT(30), <1>unique, <1>4, <2>1, OneWay
  <1>8. ASSUME NEW m \in mapped, m.mmu # root \/ m.virt # virt
        PROVE  InMemory(m)'
    <2>1. m.mmu \in Live /\ m.virt \in Window
      BY DEF Recorded
    <2>2. PICK a, b \in tables :
            /\ Reaches(m.mmu.page, m.virt, a, b)
            /\ mem[b][TableIndex(m.virt, 0)] =
                  [ppn |-> m.phys.page, top |-> m.phys.top, flags |-> m.flags]
            /\ m.early => Physical(m.mmu, m.virt, a) /\ m.phys.top = "zero"
      BY DEF Recorded, InMemory
    <2>3. PICK r, s, t, u : /\ r = m.mmu.page /\ s = TableIndex(m.virt, 2)
                            /\ t = TableIndex(m.virt, 1) /\ u = TableIndex(m.virt, 0)
      OBVIOUS
    <2>4. r \in tables /\ kind[r] = 2 /\ kind[a] = 1 /\ s \in Slot /\ t \in Slot /\ u \in Slot
      BY <2>1, <2>2, <2>3, WayLevels
    <2>5. ~(b = c /\ u = TableIndex(virt, 0))
      BY <1>unique, <1>8, <2>1, <2>2, <2>3
    <2>6. mem'[r][s] = mem[r][s] /\ mem'[a][t] = mem[a][t] /\ mem'[b][u] = mem[b][u]
      BY <1>3, <2>4, <2>5
    <2>7. Reaches(r, m.virt, a, b)'
      BY <1>7, <2>1, <2>2, <2>3
    <2>8. m.early => Physical(m.mmu, m.virt, a)'
      BY <2>2, <2>3, <2>6 DEF Physical
    <2> QED BY <1>1, <2>2, <2>3, <2>6, <2>7, <2>8 DEF InMemory
  <1>9. InMemory(new)'
    <2>1. /\ new.mmu = root /\ new.virt = virt /\ new.phys = phys /\ new.flags = flags
          /\ new.early = early
      BY <1>2
    <2>2. PICK s, t, u : s = TableIndex(virt, 2) /\ t = TableIndex(virt, 1) /\ u = TableIndex(virt, 0)
      OBVIOUS
    <2>3. /\ root.page \in tables /\ kind[root.page] = 2 /\ kind[d] = 1
          /\ s \in Slot /\ t \in Slot /\ u \in Slot
      BY <1>3, <1>4, <2>2, WayLevels
    <2>4. mem'[root.page][s] = mem[root.page][s] /\ mem'[d][t] = mem[d][t] /\ mem'[c][u] = w
      BY <1>3, <2>2, <2>3
    <2>5. early => phys.top = "zero" /\ Physical(root, virt, d)'
      <3>1. SUFFICES ASSUME early PROVE phys.top = "zero" /\ Physical(root, virt, d)'
        OBVIOUS
      <3>2. satp = NULL
        BY <1>2, <3>1 DEF mmu_enabled
      <3>3. phys.top = "zero" /\ root.top = "zero"
        BY <1>1, <1>2, <1>3, <3>2, LiveRoots DEF AllPhysical
      <3>4. mem[root.page][s] # NULL /\ mem[d][t] # NULL
        BY <1>4, <2>2, WordsRead DEF Reaches, Links
      <3>5. mem[root.page][s].top = "zero" /\ mem[d][t].top = "zero"
        BY <2>3, <3>2, <3>4 DEF AllPhysical
      <3> QED BY <2>2, <2>4, <3>3, <3>5 DEF Physical
    <2>6. Reaches(root.page, virt, d, c)'
      BY <1>3, <1>4, <1>7
    <2> QED BY <1>1, <1>3, <1>6, <2>1, <2>2, <2>4, <2>5, <2>6 DEF InMemory
  <1>10. Recorded'
    <2> SUFFICES ASSUME NEW m \in mapped'
                 PROVE  /\ m.mmu \in Live' /\ m.virt \in Window
                        /\ m.phys.page \in Ram /\ m.flags \in MapFlagSets /\ InMemory(m)'
      BY DEF Recorded
    <2>1. CASE m = new
      <3>1. phys.page \in Ram /\ flags \in MapFlagSets
        BY <1>1, <1>2 DEF MInv, Walk
      <3> QED BY <1>2, <1>3, <1>5, <1>9, <2>1, <3>1
    <2>2. CASE m \in mapped /\ (m.mmu # root \/ m.virt # virt)
      BY <1>5, <1>8, <2>2 DEF Recorded
    <2> QED BY <1>1, <1>2, <2>1, <2>2
  <1>11. Unrecorded'
    <2> SUFFICES ASSUME NEW r \in Live, NEW v \in Window, NEW a \in tables, NEW b \in tables,
                        Reaches(r.page, v, a, b)', mem'[b][TableIndex(v, 0)] # NULL
                 PROVE  \E m \in mapped' : m.mmu = r /\ m.virt = v
      BY <1>1, <1>5 DEF Unrecorded
    <2>1. Reaches(r.page, v, a, b) /\ TableIndex(v, 0) \in Slot
      BY <1>7, WindowIndices
    <2>2. new \in mapped' /\ new.mmu = root /\ new.virt = virt
      BY <1>1, <1>2
    <2>3. CASE b = c /\ TableIndex(v, 0) = TableIndex(virt, 0)
      <3>1. r = root /\ v = virt
        BY <1>unique, <2>1, <2>3
      <3> QED BY <2>2, <3>1
    <2>4. CASE ~(b = c /\ TableIndex(v, 0) = TableIndex(virt, 0))
      <3>1. mem[b][TableIndex(v, 0)] # NULL
        BY <1>3, <2>1, <2>4
      <3>2. PICK m \in mapped : m.mmu = r /\ m.virt = v
        BY <2>1, <3>1 DEF Unrecorded
      <3> QED BY <1>1, <1>2, <2>2, <3>2
    <2> QED BY <2>3, <2>4
  <1> QED BY <1>10, <1>11

----------------------------------------------------------------------------
(* Physical addresses *)

\* What alloc_page takes from the list is physical, and so is what it leaves.
LEMMA AllocPhysical ==
    ASSUME MInv, IInv', AllPhysical, satp = NULL, NEW clear \in BOOLEAN, alloc_page(clear)
    PROVE  /\ AllocatedPtr.top = "zero" /\ \A ptr \in owned' : ptr.top = "zero"
           /\ free_list' # NULL => free_list'.top = "zero"
           /\ \A p \in FreePages' : mem'[p][0] # NULL => mem'[p][0].top = "zero"
  <1> PICK h : h = free_list.page
    OBVIOUS
  <1>1. /\ status = "running" /\ free_list # NULL /\ free_list' = mem[h][0]
        /\ owned' = owned \union {AllocatedPtr} /\ region' = region
    BY DEF alloc_page
  <1>2. free_list \in Ptr /\ h \in FreePages /\ AllocatedPtr.page = h
    BY <1>1, HeadOfList DEF MInv
  <1>3. AllocatedPtr.top = "zero"
    <2>1. make_accessible(free_list) = free_list /\ free_list.top = "zero"
      BY <1>1 DEF make_accessible, mmu_enabled, AllPhysical
    <2> QED BY <1>2, <2>1 DEF AllocatedPtr, virt2phys, Ptr
  <1>4. \A p \in Ram : p # h => mem'[p] = mem[p]
    BY <1>2, AllocChanges
  <1>5. FreePages' = FreePages \ {h} /\ FreePages \subseteq Ram
    <2>1. FreePages = region \ OwnedPages /\ region \subseteq Ram
      BY FreeIsTheRest DEF MInv, IInv, AllocTypeOK
    <2>2. FreePages' = region' \ OwnedPages'
      BY DEF IInv, EveryPageOnce
    <2>3. OwnedPages' = OwnedPages \union {h}
      BY <1>2, AllocChanges
    <2> QED BY <1>1, <2>1, <2>2, <2>3
  <1> QED BY <1>1, <1>2, <1>3, <1>4, <1>5 DEF AllPhysical

\* Steps that change at most words of tables, to words with physical addresses.
LEMMA PhysicalKept ==
    ASSUME MInv, AllPhysical, UNCHANGED <<free_list, satp, chain, owned, tables>>,
           \A p \in Ram \ tables : mem'[p] = mem[p],
           satp = NULL =>
              /\ \A p \in tables, s \in Slot :
                    mem'[p][s] = mem[p][s] \/ mem'[p][s].top = "zero"
              /\ InMap' => arg'.phys.top = "zero"
              /\ pc' = "link" => page'.top = "zero"
    PROVE  AllPhysical'
  <1> SUFFICES ASSUME satp = NULL
               PROVE  /\ \A ptr \in owned' : ptr.top = "zero"
                      /\ free_list' # NULL => free_list'.top = "zero"
                      /\ \A p \in FreePages' : mem'[p][0] # NULL => mem'[p][0].top = "zero"
                      /\ \A p \in tables', s \in Slot : mem'[p][s] # NULL => mem'[p][s].top = "zero"
                      /\ InMap' => arg'.phys.top = "zero"
                      /\ pc' = "link" => page'.top = "zero"
    BY DEF AllPhysical
  <1>1. FreePages' = FreePages
    BY DEF FreePages
  <1>2. \A p \in FreePages : p \in Ram /\ p \notin tables
    <2>1. FreePages \subseteq Ram
      BY FreeIsTheRest DEF MInv, IInv, AllocTypeOK
    <2> QED BY <2>1, TableHeld
  <1>3. \A p \in FreePages' : mem'[p][0] # NULL => mem'[p][0].top = "zero"
    BY <1>1, <1>2 DEF AllPhysical
  <1> QED BY <1>3 DEF AllPhysical

\* The kernel's own use of the allocator.
LEMMA AllocatorCallPhysical ==
    ASSUME MInv, IInv', AllPhysical, AllocatorCall
    PROVE  AllPhysical'
  <1>1. pc = "idle" /\ UNCHANGED <<callVars, tables, ready, mapped>>
    BY DEF AllocatorCall
  <1> USE DEF callVars
  <1>2. ASSUME /\ \A ptr \in owned' : ptr.top = "zero"
               /\ free_list' # NULL => free_list'.top = "zero"
               /\ \A p \in FreePages' : mem'[p][0] # NULL => mem'[p][0].top = "zero",
               \A p \in tables : mem'[p] = mem[p], satp' = satp, satp = NULL
        PROVE  AllPhysical'
    BY <1>1, <1>2 DEF AllPhysical, InMap
  <1>3. satp' = NULL => satp = NULL /\ satp' = satp
    BY DEF AllocatorCall, init_page_alloc, alloc_page, alloc_page_panic, free_page
  <1>4. SUFFICES ASSUME satp = NULL, satp' = satp PROVE AllPhysical'
    BY <1>3 DEF AllPhysical
  <1>5. ASSUME NEW a \in InitArgs, init_page_alloc(a.start, a.size) PROVE AllPhysical'
    <2> DEFINE first == FirstPage(a.start)
               last == first + PageCount(a.start, a.size) - 1
    <2>1. /\ status = "boot" /\ owned' = owned /\ free_list' = [page |-> first, top |-> "zero"]
          /\ mem' = Linked(first, last) /\ region' = first .. last
      BY <1>5 DEF init_page_alloc
    <2>2. tables = {} /\ owned = {}
      BY <2>1 DEF MInv, Owners, IInv, NothingOwnedAtBoot
    <2>3. FreePages' \subseteq first .. last /\ region' \subseteq Ram
      <3>1. FreePages' = region' \ OwnedPages' /\ region' \subseteq Ram
        BY DEF IInv, AllocTypeOK, EveryPageOnce
      <3> QED BY <2>1, <3>1
    <2> HIDE DEF first, last
    <2>4. ASSUME NEW p \in FreePages', mem'[p][0] # NULL PROVE mem'[p][0].top = "zero"
      <3>1. p \in Ram /\ p \in first .. last
        BY <2>1, <2>3
      <3>2. mem \in [Ram -> [Slot -> Word]] /\ 0 \in Slot
        BY SizeAssumption DEF MInv, IInv, AllocTypeOK, Slot
      <3>3. mem'[p][0] = Link(p, last)
        BY <2>1, <3>1, <3>2 DEF Linked
      <3> QED BY <2>4, <3>3 DEF Link
    <2> QED BY <1>2, <1>4, <2>1, <2>2, <2>4
  <1>6. CASE alloc_page(FALSE)
    BY <1>2, <1>4, <1>6, AllocPhysical, AllocChanges
  <1>7. CASE alloc_page_panic
    BY <1>1, <1>7, PhysicalKept DEF alloc_page_panic, AllPhysical, InMap
  <1>8. ASSUME NEW ptr \in owned, Unshared(ptr), free_page(ptr) PROVE AllPhysical'
    <2>1. /\ owned' = owned \ {ptr} /\ ptr.page \notin tables /\ free_list' = ptr /\ region' = region
          /\ mem' = [mem EXCEPT ![ptr.page][0] = free_list]
      BY <1>8 DEF free_page, Unshared
    <2>2. /\ mem \in [Ram -> [Slot -> Word]] /\ tables \subseteq Ram /\ 0 \in Slot /\ ptr.page \in Ram
      BY TableHeld, HeldPage, SizeAssumption DEF MInv, IInv, AllocTypeOK, Slot
    <2>3. mem'[ptr.page][0] = free_list /\ \A p \in Ram : p # ptr.page => mem'[p] = mem[p]
      BY <2>1, <2>2
    <2>4. \A p \in FreePages' : p = ptr.page \/ (p \in FreePages /\ p \in Ram)
      <3>1. FreePages = region \ OwnedPages /\ region \subseteq Ram
        BY FreeIsTheRest DEF MInv, IInv, AllocTypeOK
      <3>2. FreePages' = region' \ OwnedPages'
        BY DEF IInv, EveryPageOnce
      <3>3. OwnedPages \ {ptr.page} \subseteq OwnedPages'
        BY <2>1 DEF OwnedPages
      <3> QED BY <2>1, <3>1, <3>2, <3>3
    <2>5. \A p \in FreePages' : mem'[p][0] # NULL => mem'[p][0].top = "zero"
      BY <1>4, <2>3, <2>4 DEF AllPhysical
    <2>6. \A p \in tables : mem'[p] = mem[p]
      BY <2>1, <2>2, <2>3
    <2>7. ptr.top = "zero" /\ \A q \in owned' : q.top = "zero"
      BY <1>4, <2>1 DEF AllPhysical
    <2> QED BY <1>2, <1>4, <2>1, <2>5, <2>6, <2>7
  <1> QED BY <1>5, <1>6, <1>7, <1>8 DEF AllocatorCall

\* Tables are allocated with physical addresses ...
LEMMA TablePhysical ==
    ASSUME MInv, IInv', AllPhysical, mmu_new_page_table \/ mmu_entry_alloc
    PROVE  AllPhysical'
  <1>1. /\ alloc_page(TRUE) /\ tables' = tables \union {AllocatedPtr.page} /\ satp' = satp
        /\ pc' = "link" => page' = AllocatedPtr
        /\ arg' = arg /\ (InMap' => InMap)
    BY DEF mmu_new_page_table, mmu_entry_alloc, EntryAlloc, alloc_page, InMap, InLoop
  <1>2. SUFFICES ASSUME satp = NULL PROVE AllPhysical'
    BY <1>1 DEF AllPhysical
  <1>3. /\ AllocatedPtr.top = "zero" /\ \A ptr \in owned' : ptr.top = "zero"
        /\ free_list' # NULL => free_list'.top = "zero"
        /\ \A p \in FreePages' : mem'[p][0] # NULL => mem'[p][0].top = "zero"
    BY <1>1, <1>2, AllocPhysical
  <1>4. /\ \A p \in tables : mem'[p] = mem[p]
        /\ \A s \in Slot : mem'[AllocatedPtr.page][s] = NULL
    BY <1>1, AllocChanges
  <1>5. \A p \in tables', s \in Slot : mem'[p][s] # NULL => mem'[p][s].top = "zero"
    BY <1>1, <1>2, <1>4 DEF AllPhysical
  <1> QED BY <1>1, <1>2, <1>3, <1>5 DEF AllPhysical

\* ... and only physical addresses are stored in them.
LEMMA StorePhysical ==
    ASSUME MInv, AllPhysical, mmu_entry_link \/ mmu_map_store \/ map_top_half_entry
    PROVE  AllPhysical'
  <1> PICK kind \in [tables -> 0 .. 2] : Leveled(kind) /\ LinkedOnce(kind) /\ NewTable(kind)
    BY DEF MInv, Shape
  <1>1. UNCHANGED <<free_list, satp, chain, owned, tables, arg, page>>
    BY DEF mmu_entry_link, EntryLink, mmu_map_store, MapStore, map_top_half_entry, StoreTopHalf
  <1>2. mem \in [Ram -> [Slot -> Word]] /\ tables \subseteq Ram
    BY TableHeld DEF MInv, IInv, AllocTypeOK
  <1>3. ASSUME NEW c \in tables, NEW i \in Slot, NEW w, mem' = [mem EXCEPT ![c][i] = w],
               satp = NULL => w.top = "zero", InMap' => InMap, pc' # "link"
        PROVE  AllPhysical'
    <2>1. /\ \A p \in Ram, s \in Slot : mem'[p][s] = IF p = c /\ s = i THEN w ELSE mem[p][s]
          /\ \A p \in Ram : p # c => mem'[p] = mem[p]
      BY <1>2, <1>3, OneWord
    <2>2. \A p \in Ram \ tables : mem'[p] = mem[p]
      BY <2>1
    <2>3. satp = NULL => \A p \in tables, s \in Slot : mem'[p][s] = mem[p][s] \/ mem'[p][s].top = "zero"
      BY <1>2, <1>3, <2>1
    <2>4. satp = NULL => (InMap' => arg'.phys.top = "zero")
      BY <1>1, <1>3 DEF AllPhysical
    <2> QED BY <1>1, <1>3, <2>2, <2>3, <2>4, PhysicalKept
  <1>4. CASE mmu_entry_link
    <2> PICK w : w = [ppn |-> page.page, top |-> page.top, flags |-> {"VALID"}]
      OBVIOUS
    <2>1. table.page \in tables /\ Index \in Slot /\ mem' = [mem EXCEPT ![table.page][Index] = w]
      BY <1>4, LinkStore
    <2>2. pc = "link" /\ pc' = "walk"
      BY <1>4 DEF mmu_entry_link, EntryLink
    <2>3. satp = NULL => w.top = "zero"
      BY <2>2 DEF AllPhysical
    <2> QED BY <1>3, <2>1, <2>2, <2>3 DEF InMap
  <1>5. CASE mmu_map_store
    <2>1. /\ table.page \in tables /\ Index \in Slot /\ pc = "walk"
          /\ mem' = [mem EXCEPT ![table.page][Index] = MapEntry]
      BY <1>5, MapStoreAt
    <2>2. satp = NULL => MapEntry.top = "zero"
      BY <2>1 DEF AllPhysical, MapEntry, InMap
    <2>3. pc' # "link"
      BY <1>5 DEF mmu_map_store, MapStore, MInv, MmuTypeOK
    <2> QED BY <1>3, <2>1, <2>2, <2>3 DEF InMap
  <1>6. CASE map_top_half_entry
    <2>1. /\ pc = "tophalf" /\ mmu.page \in tables /\ level \in Slot
          /\ mem' = [mem EXCEPT ![mmu.page][level] = TopHalfEntry(level)]
      BY <1>6, TopHalfStore
    <2>2. TopHalfEntry(level).top = "zero" /\ pc' = pc
      BY <1>6 DEF TopHalfEntry, map_top_half_entry, StoreTopHalf
    <2> QED BY <1>3, <2>1, <2>2 DEF InMap
  <1> QED BY <1>4, <1>5, <1>6

\* The steps that change no word of memory.
Stops ==
    \/ mmu_new_page_table_panic \/ mmu_entry_panic \/ mmu_entry_wild \/ fetch_fault
    \/ Interrupt \/ Stopped \/ UNCHANGED mmuVars
MapCalls ==
    \E root \in ready, virt \in MapVirt, phys \in DataPages, flags \in MapFlags :
        mmu_map(root, virt, phys, flags)
Activates == \E root \in ready : activate(root)
Quiet ==
    \/ Stops \/ MapCalls \/ Activates \/ identity_map \/ mmu_entry_descend
    \/ map_top_half \/ mmu_new_page_table_return

\* The other steps change no word.
LEMMA QuietPhysical ==
    ASSUME MInv, AllPhysical, Quiet
    PROVE  AllPhysical'
  <1>1. CASE Activates
    <2>1. satp' # NULL
      BY <1>1, LiveRoots DEF Activates, activate, set_mmu
    <2> QED BY <2>1 DEF AllPhysical
  <1>2. CASE MapCalls
    <2>1. PICK phys \in DataPages :
             /\ UNCHANGED <<free_list, satp, mem, chain, owned, tables>>
             /\ arg'.phys = phys /\ phys \in owned /\ pc' = "walk"
      BY <1>2 DEF MapCalls, mmu_map, StartMap, allocVars, DataPages
    <2> QED BY <2>1, PhysicalKept DEF AllPhysical
  <1>3. CASE identity_map
    <2>1. /\ UNCHANGED <<free_list, satp, mem, chain, owned, tables>>
          /\ arg'.phys.top = "zero" /\ pc' = "walk"
      BY <1>3 DEF identity_map, IdentityMapPage, StartMap, allocVars
    <2> QED BY <2>1, PhysicalKept
  <1>4. ASSUME UNCHANGED <<free_list, satp, mem, chain, owned, tables, arg, page>>,
               InMap' => InMap, pc' = "link" => pc = "link"
        PROVE  AllPhysical'
    BY <1>4, PhysicalKept DEF AllPhysical
  <1>5. CASE mmu_entry_descend \/ map_top_half \/ mmu_new_page_table_return
    BY <1>4, <1>5 DEF mmu_entry_descend, map_top_half, mmu_new_page_table_return, InMap, allocVars
  <1>6. CASE Stops
    BY <1>4, <1>6 DEF Stops, mmu_new_page_table_panic, mmu_entry_panic, mmu_entry_wild,
       fetch_fault, Interrupt, Stopped, alloc_page_panic, Trap, mmuVars, allocVars, callVars, InMap
  <1> QED BY <1>1, <1>2, <1>3, <1>5, <1>6 DEF Quiet

----------------------------------------------------------------------------
(* The kernel's pages *)

\* A page that begins before an aligned address ends there or before.
LEMMA EndsBefore ==
    ASSUME NEW p \in Int, NEW b \in Nat, b % PAGE_SIZE = 0, p * PAGE_SIZE < b
    PROVE  (p + 1) * PAGE_SIZE <= b
  <1> DEFINE k == b \div PAGE_SIZE
  <1>1. b = k * PAGE_SIZE + (b % PAGE_SIZE) /\ k \in Int
    BY SizeAssumption, ModBounds, DivBounds
  <1>2. b = k * PAGE_SIZE
    BY <1>1, SizeAssumption
  <1> HIDE DEF k
  <1>3. p < k
    <2>1. SUFFICES ASSUME k <= p PROVE FALSE
      BY <1>1
    <2>2. k * PAGE_SIZE <= p * PAGE_SIZE
      BY <1>1, <2>1, SizeAssumption
    <2>3. p * PAGE_SIZE \in Int
      BY SizeAssumption
    <2> QED BY <1>2, <2>2, <2>3
  <1>4. p + 1 <= k
    BY <1>1, <1>3
  <1> QED BY <1>1, <1>2, <1>4, SizeAssumption

\* The sections are aligned, so identity_map maps no page twice.
LEMMA KernelPagesDiffer ==
    ASSUME NEW e \in Members(KernelPages), NEW f \in Members(KernelPages), e.virt = f.virt
    PROVE  e = f
  <1> DEFINE fa == {"GLOBAL", "EXEC"}
             fb == {"GLOBAL", "READ"}
             fc == {"GLOBAL", "READ", "WRITE"}
             A == Identity(text_start, ro_data_start, fa)
             B == Identity(ro_data_start, data_start, fb)
             C == Identity(data_start, pages_bottom, fc)
  <1>1. text_start \in Nat /\ ro_data_start \in Nat /\ data_start \in Nat /\ pages_bottom \in Nat
    BY KernelAssumption
  <1>2. /\ ro_data_start <= data_start
        /\ ro_data_start % PAGE_SIZE = 0 /\ data_start % PAGE_SIZE = 0
    BY KernelAssumption
  <1>3. e \in A \union B \union C /\ f \in A \union B \union C
    BY KernelCalls
  <1>4. ASSUME NEW s \in Nat, NEW t \in Nat, NEW g, NEW x \in Identity(s, t, g)
        PROVE  /\ x.virt \in Int /\ s < (x.virt + 1) * PAGE_SIZE /\ x.virt * PAGE_SIZE < t
               /\ x = [virt |-> x.virt, flags |-> g]
    <2>1. PICK v \in First(s) .. After(t) - 1 : x = [virt |-> v, flags |-> g]
      BY DEF Identity
    <2>2. v \in Int /\ s < (v + 1) * PAGE_SIZE /\ v * PAGE_SIZE < t
      BY PagesTouched
    <2> QED BY <2>1, <2>2
  <1> HIDE DEF fa, fb, fc
  <1>5. \A x \in A : /\ x.virt \in Int /\ (x.virt + 1) * PAGE_SIZE <= ro_data_start
                     /\ x = [virt |-> x.virt, flags |-> fa]
    BY <1>1, <1>2, <1>4, EndsBefore
  <1>6. \A x \in B : /\ x.virt \in Int /\ (x.virt + 1) * PAGE_SIZE <= data_start
                     /\ ro_data_start < (x.virt + 1) * PAGE_SIZE
                     /\ x = [virt |-> x.virt, flags |-> fb]
    BY <1>1, <1>2, <1>4, EndsBefore
  <1>7. \A x \in C : /\ x.virt \in Int /\ data_start < (x.virt + 1) * PAGE_SIZE
                     /\ x = [virt |-> x.virt, flags |-> fc]
    BY <1>1, <1>4
  <1> HIDE DEF A, B, C
  <1>8. ASSUME NEW x \in Int PROVE (x + 1) * PAGE_SIZE \in Int
    BY SizeAssumption
  <1>9. CASE e \in A
    BY <1>1, <1>2, <1>3, <1>5, <1>6, <1>7, <1>8, <1>9
  <1>10. CASE e \in B
    BY <1>1, <1>2, <1>3, <1>5, <1>6, <1>7, <1>8, <1>10
  <1>11. CASE e \in C
    BY <1>1, <1>2, <1>3, <1>5, <1>6, <1>7, <1>8, <1>11
  <1> QED BY <1>3, <1>9, <1>10, <1>11

\* Steps inside a call, or outside of all, that leave the records alone.
LEMMA KernelKept ==
    ASSUME KernelRecorded, UNCHANGED <<caller, mmu, arg, todo, ready, mapped>>,
           Building' => Building /\ satp' = satp, InMap' <=> InMap,
           pc' = "tophalf" => todo = <<>>
    PROVE  KernelRecorded'
  <1>1. \A root, e : KernelRecord(root, e)' <=> KernelRecord(root, e)
    BY DEF KernelRecord
  <1>2. Members(todo)' = Members(todo)
    BY DEF Members
  <1> QED BY <1>1, <1>2 DEF KernelRecorded

\* mmu_new_page_table starts with everything to do, and with a root that has a
\* physical address only if translation is off.
LEMMA KernelNewRoot ==
    ASSUME MInv, KernelRecorded, mmu_new_page_table
    PROVE  KernelRecorded'
  <1>1. /\ pc' = "identity" /\ mmu' = AllocatedPtr /\ todo' = KernelPages /\ alloc_page(TRUE)
        /\ UNCHANGED <<satp, caller, arg, ready, mapped>>
    BY DEF mmu_new_page_table, alloc_page
  <1>2. AllocatedPtr.page \notin tables
    BY <1>1, AllocChanges
  <1>3. AllocatedPtr \notin ready
    BY <1>2, LiveRoots
  <1>4. AllocatedPtr.top = "zero" => satp = NULL
    <2>1. free_list \in Ptr
      BY <1>1, HeadOfList DEF MInv, alloc_page
    <2> QED BY <2>1 DEF AllocatedPtr, make_accessible, mmu_enabled, phys2virt, virt2phys, Ptr
  <1>5. \A root, e : KernelRecord(root, e)' <=> KernelRecord(root, e)
    BY <1>1 DEF KernelRecord
  <1> QED BY <1>1, <1>3, <1>4, <1>5 DEF KernelRecorded, InMap, Members

\* The steps that begin or end a part of a call.
LEMMA KernelQuiet ==
    ASSUME MInv, KernelRecorded, Quiet
    PROVE  KernelRecorded'
  <1>0. mapped' = mapped => \A root, e : KernelRecord(root, e)' <=> KernelRecord(root, e)
    BY DEF KernelRecord
  <1>1. CASE Stops
    <2>1. UNCHANGED <<satp, callVars, ready, mapped>>
      BY <1>1 DEF Stops, mmu_new_page_table_panic, mmu_entry_panic, mmu_entry_wild, fetch_fault,
                  Interrupt, Stopped, alloc_page_panic, Trap, mmuVars, allocVars
    <2> QED BY <2>1, KernelKept DEF callVars, Building, InMap, KernelRecorded
  <1>2. CASE mmu_entry_descend
    <2>1. UNCHANGED <<satp, pc, caller, mmu, arg, todo, ready, mapped>>
      BY <1>2 DEF mmu_entry_descend, allocVars
    <2> QED BY <2>1, KernelKept DEF Building, InMap, KernelRecorded
  <1>3. CASE map_top_half
    <2>1. /\ UNCHANGED <<satp, caller, mmu, arg, todo, ready, mapped>>
          /\ pc = "identity" /\ pc' = "tophalf" /\ todo = <<>>
      BY <1>3 DEF map_top_half, allocVars
    <2> QED BY <2>1, KernelKept DEF Building, InMap
  <1>4. CASE Activates
    <2>1. UNCHANGED <<caller, mmu, arg, todo, ready, mapped>> /\ pc = "idle" /\ pc' \in {"idle", "fetch"}
      BY <1>4 DEF Activates, activate
    <2> QED BY <2>1, KernelKept DEF Building, InMap
  <1>5. CASE MapCalls
    <2>1. /\ UNCHANGED <<ready, mapped>> /\ pc' = "walk" /\ caller' = "idle" /\ arg'.virt \in MapVirt
      BY <1>5 DEF MapCalls, mmu_map, StartMap
    <2> QED BY <1>0, <2>1 DEF KernelRecorded, Building, InMap
  <1>6. CASE identity_map
    <2> PICK h : h = Head(todo)
      OBVIOUS
    <2>1. /\ pc = "identity" /\ pc' = "walk" /\ caller' = "identity" /\ mmu' = mmu
          /\ todo # <<>> /\ todo' = Tail(todo) /\ arg' = KernelArg(h)
          /\ UNCHANGED <<satp, ready, mapped>>
      BY <1>6 DEF identity_map, IdentityMapPage, StartMap, KernelArg, allocVars
    <2>2. Members(todo) = {h} \union Members(Tail(todo)) /\ h \in Members(KernelPages)
      <3> DEFINE T == [virt : VirtPage, flags : SUBSET Flag]
      <3>1. todo \in Seq(T) /\ Members(todo) \subseteq Members(KernelPages)
        BY DEF MInv, MmuTypeOK, Control
      <3> HIDE DEF T
      <3> QED BY <2>1, <3>1, HeadTail
    <2>3. Members(todo)' = Members(Tail(todo))
      BY <2>1 DEF Members
    <2> QED BY <1>0, <2>1, <2>2, <2>3 DEF KernelRecorded, Building, InMap
  <1>7. CASE mmu_new_page_table_return
    <2>1. /\ pc = "tophalf" /\ pc' = "idle" /\ ready' = ready \union {mmu} /\ mapped' = mapped
      BY <1>7 DEF mmu_new_page_table_return
    <2>2. \A e \in Members(KernelPages) : KernelRecord(mmu, e)
      <3>1. Members(todo) = {}
        BY <2>1 DEF KernelRecorded, Members
      <3> QED BY <2>1, <3>1 DEF KernelRecorded, Building, InMap
    <2>3. \A root \in ready', e \in Members(KernelPages) : KernelRecord(root, e)
      BY <2>1, <2>2 DEF KernelRecorded
    <2>4. \A root \in ready', e \in Members(KernelPages) : KernelRecord(root, e)'
      BY <1>0, <2>1, <2>3
    <2> QED BY <2>1, <2>4 DEF KernelRecorded, Building, InMap
  <1> QED BY <1>1, <1>2, <1>3, <1>4, <1>5, <1>6, <1>7 DEF Quiet

\* mmu_map replaces no record of the kernel.
LEMMA KernelMapStore ==
    ASSUME CallersSpareKernel, MInv, KernelRecorded, mmu_map_store
    PROVE  KernelRecorded'
  <1>1. PICK root, virt, new :
          /\ root = mmu /\ virt = arg.virt
          /\ new = [mmu |-> mmu, virt |-> arg.virt, phys |-> arg.phys,
                    flags |-> arg.flags, early |-> ~mmu_enabled]
    OBVIOUS
  <1>2. /\ pc = "walk" /\ pc' = caller /\ InMap
        /\ UNCHANGED <<satp, caller, mmu, arg, todo, ready>>
        /\ mapped' = {m \in mapped : m.mmu # root \/ m.virt # virt} \union {new}
    BY <1>1 DEF mmu_map_store, MapStore, EntryFound, InMap
  <1>3. /\ new \in mapped' /\ new.mmu = root /\ new.virt = virt /\ new.phys = arg.phys
        /\ new.flags = arg.flags /\ new.early = ~mmu_enabled
    BY <1>1, <1>2
  <1>4. ASSUME NEW r, NEW e, KernelRecord(r, e), r # root \/ e.virt # virt
        PROVE  KernelRecord(r, e)'
    <2>1. PICK m \in mapped : /\ m.mmu = r /\ m.virt = KernelArg(e).virt
                              /\ m.phys = KernelArg(e).phys /\ m.flags = KernelArg(e).flags
                              /\ r.top = "zero" => m.early
      BY <1>4 DEF KernelRecord
    <2>2. m \in mapped'
      BY <1>2, <1>4, <2>1 DEF KernelArg
    <2> QED BY <2>1, <2>2 DEF KernelRecord, KernelArg
  <1>5. CASE caller = "idle"
    <2>1. virt \in MapVirt
      BY <1>1, <1>2, <1>5 DEF KernelRecorded
    <2>2. \A e \in Members(KernelPages) : e.virt # virt
      BY <2>1 DEF CallersSpareKernel, Members
    <2>3. \A r \in ready, e \in Members(KernelPages) : KernelRecord(r, e)'
      BY <1>4, <2>2 DEF KernelRecorded
    <2> QED BY <1>2, <1>5, <2>3 DEF KernelRecorded, Building, InMap
  <1>6. CASE caller = "identity"
    <2>1. Building /\ root \notin ready /\ (root.top = "zero" => satp = NULL)
      BY <1>1, <1>2, <1>6 DEF KernelRecorded, Building
    <2>2. \A r \in ready, e \in Members(KernelPages) : KernelRecord(r, e)'
      BY <1>4, <2>1 DEF KernelRecorded
    <2>3. PICK f \in Members(KernelPages) : arg = KernelArg(f)
      BY <1>2, <1>6 DEF KernelRecorded
    <2>4. KernelRecord(root, f)'
      <3>1. root.top = "zero" => new.early
        BY <1>3, <2>1 DEF mmu_enabled
      <3>2. virt = KernelArg(f).virt /\ arg.phys = KernelArg(f).phys /\ arg.flags = KernelArg(f).flags
        BY <1>1, <2>3
      <3> QED BY <1>3, <3>1, <3>2 DEF KernelRecord, KernelArg
    <2>5. ASSUME NEW e \in Members(KernelPages), e \notin Members(todo) PROVE KernelRecord(root, e)'
      <3>1. f.virt = virt
        BY <1>1, <2>3 DEF KernelArg
      <3>2. CASE e.virt = virt
        BY <2>4, <3>1, <3>2, KernelPagesDiffer
      <3>3. CASE e.virt # virt
        <4>1. arg # KernelArg(e)
          BY <1>1, <3>3 DEF KernelArg
        <4>2. KernelRecord(root, e)
          BY <1>1, <2>1, <2>5, <4>1 DEF KernelRecorded
        <4> QED BY <1>4, <3>3, <4>2
      <3> QED BY <3>2, <3>3
    <2>6. Members(todo)' = Members(todo)
      BY <1>2 DEF Members
    <2> QED BY <1>1, <1>2, <1>6, <2>1, <2>2, <2>5, <2>6 DEF KernelRecorded, Building, InMap
  <1> QED BY <1>5, <1>6 DEF MInv, MmuTypeOK

----------------------------------------------------------------------------
(* The top half, and the whole invariant *)

\* Steps that keep every word that is not zero keep the entries of the top half.
LEMMA TopHalfKept ==
    ASSUME MInv, TopHalfFilled, ready' = ready,
           \A p \in tables, s \in Slot : mem[p][s] # NULL => mem'[p][s] = mem[p][s],
           pc' = "tophalf" => pc = "tophalf" /\ level' = level /\ mmu' = mmu
    PROVE  TopHalfFilled'
  <1>1. \A s \in HighSlot : s \in Slot /\ TopHalfEntry(s) # NULL
    <2>1. HighSlot \subseteq Slot
      BY Sizes, SizeAssumption DEF HighSlot, Slot
    <2> QED BY <2>1, WordsRead, PteAssumption
  <1>2. \A root \in Live, s \in HighSlot :
           mem[root.page][s] = TopHalfEntry(s) => mem'[root.page][s] = TopHalfEntry(s)
    BY <1>1, LiveRoots
  <1>3. pc = "tophalf" => mmu \in Live
    BY DEF MInv, Control, Live
  <1> QED BY <1>2, <1>3, LiveRoots DEF TopHalfFilled

\* The loop over the top half stores its next entry.
LEMMA TopHalfGrows ==
    ASSUME MInv, Recorded, Unrecorded, TopHalfFilled, map_top_half_entry
    PROVE  TopHalfFilled'
  <1>1. /\ level' = level + 1 /\ pc = "tophalf" /\ UNCHANGED <<mmu, ready>>
    BY DEF map_top_half_entry, StoreTopHalf
  <1>2. /\ \A p \in tables, s \in Slot : mem[p][s] # NULL => mem'[p][s] = mem[p][s]
        /\ mem'[mmu.page][level] = TopHalfEntry(level) /\ level \in HighSlot
    BY TopHalfMaps
  <1>3. \A s \in HighSlot : s \in Slot /\ TopHalfEntry(s) # NULL /\ s \in Int
    <2>1. HighSlot \subseteq Slot
      BY Sizes, SizeAssumption DEF HighSlot, Slot
    <2> QED BY <2>1, WordsRead, PteAssumption DEF Slot
  <1>4. \A root \in Live, s \in HighSlot :
           mem[root.page][s] = TopHalfEntry(s) => mem'[root.page][s] = TopHalfEntry(s)
    BY <1>2, <1>3, LiveRoots
  <1>5. mmu \in Live
    BY <1>1 DEF MInv, Control, Live
  <1>6. \A s \in HighSlot : s < level + 1 => s < level \/ s = level
    BY <1>2, <1>3
  <1>7. \A s \in HighSlot : s < level' => mem'[mmu.page][s] = TopHalfEntry(s)
    BY <1>1, <1>2, <1>4, <1>5, <1>6 DEF TopHalfFilled
  <1>8. \A root \in ready, s \in HighSlot : mem'[root.page][s] = TopHalfEntry(s)
    BY <1>4, LiveRoots DEF TopHalfFilled
  <1> QED BY <1>1, <1>7, <1>8 DEF TopHalfFilled

\* The steps that change no word.
LEMMA TopHalfQuiet ==
    ASSUME MInv, TopHalfFilled, Quiet
    PROVE  TopHalfFilled' /\ mem' = mem /\ tables' = tables /\ mapped' = mapped
  <1>1. mem' = mem /\ tables' = tables /\ mapped' = mapped
    BY DEF Quiet, Stops, MapCalls, Activates, mmu_new_page_table_panic, mmu_entry_panic,
           mmu_entry_wild, fetch_fault, Interrupt, Stopped, alloc_page_panic, Trap, mmu_map,
           activate, set_mmu, identity_map, IdentityMapPage, mmu_entry_descend, map_top_half,
           mmu_new_page_table_return, mmuVars, allocVars
  <1>2. CASE mmu_new_page_table_return
    <2>1. /\ pc = "tophalf" /\ level = ENTRY_COUNT /\ pc' = "idle" /\ ready' = ready \union {mmu}
      BY <1>2 DEF mmu_new_page_table_return
    <2>2. \A s \in HighSlot : mem[mmu.page][s] = TopHalfEntry(s)
      BY <2>1, Sizes, SizeAssumption DEF TopHalfFilled, HighSlot
    <2> QED BY <1>1, <2>1, <2>2 DEF TopHalfFilled
  <1>3. CASE map_top_half
    <2>1. /\ level' = ENTRY_COUNT \div 2 /\ ready' = ready
      BY <1>3 DEF map_top_half
    <2>2. \A s \in HighSlot : ~(s < level')
      BY <2>1, Sizes, SizeAssumption DEF HighSlot
    <2> QED BY <1>1, <2>1, <2>2 DEF TopHalfFilled
  <1>4. ASSUME ready' = ready, pc' = "tophalf" => pc = "tophalf" /\ level' = level /\ mmu' = mmu
        PROVE  TopHalfFilled'
    BY <1>1, <1>4, TopHalfKept
  <1>5. CASE Stops
    BY <1>1, <1>4, <1>5 DEF Stops, mmu_new_page_table_panic, mmu_entry_panic, mmu_entry_wild,
       fetch_fault, Interrupt, Stopped, mmuVars, callVars
  <1>6. CASE MapCalls \/ Activates \/ identity_map \/ mmu_entry_descend
    <2>1. ready' = ready /\ pc' # "tophalf"
      BY <1>6 DEF MapCalls, mmu_map, StartMap, Activates, activate, identity_map, IdentityMapPage,
                  mmu_entry_descend, InLoop
    <2> QED BY <1>1, <1>4, <2>1
  <1> QED BY <1>1, <1>2, <1>3, <1>5, <1>6 DEF Quiet

\* The kernel's own use of the allocator leaves the tables alone.
LEMMA AllocatorSpares ==
    ASSUME MInv, AllocatorCall
    PROVE  /\ pc = "idle" /\ UNCHANGED <<callVars, satp, tables, ready, mapped>>
           /\ \A p \in tables : mem'[p] = mem[p]
  <1>1. pc = "idle" /\ UNCHANGED <<callVars, satp, tables, ready, mapped>>
    BY DEF AllocatorCall, init_page_alloc, alloc_page, alloc_page_panic, free_page
  <1>2. ASSUME NEW a \in InitArgs, init_page_alloc(a.start, a.size)
        PROVE  \A p \in tables : mem'[p] = mem[p]
    BY <1>2 DEF init_page_alloc, MInv, Owners
  <1>3. CASE alloc_page(FALSE)
    BY <1>1, <1>3, AllocChanges
  <1>4. CASE alloc_page_panic
    BY <1>1, <1>4 DEF alloc_page_panic
  <1>5. ASSUME NEW ptr \in owned, Unshared(ptr), free_page(ptr)
        PROVE  \A p \in tables : mem'[p] = mem[p]
    <2>1. mem \in [Ram -> [Slot -> Word]] /\ tables \subseteq Ram
      BY TableHeld DEF MInv, IInv, AllocTypeOK
    <2> QED BY <1>5, <2>1 DEF free_page, Unshared
  <1> QED BY <1>1, <1>2, <1>3, <1>4, <1>5 DEF AllocatorCall

\* Nothing is mapped initially.
LEMMA InitMapInv == MmuInit => MapInv
  <1> SUFFICES ASSUME MmuInit PROVE MapInv
    OBVIOUS
  <1>1. /\ pc = "idle" /\ mmu = NULL /\ ready = {} /\ mapped = {} /\ tables = {} /\ owned = {}
        /\ free_list = NULL /\ chain = <<>>
    BY DEF MmuInit, AllocInit
  <1>2. Recorded /\ Unrecorded
    BY <1>1 DEF Recorded, Unrecorded, Live
  <1>3. AllPhysical
    BY <1>1 DEF AllPhysical, FreePages, InMap
  <1>4. KernelRecorded /\ TopHalfFilled
    BY <1>1 DEF KernelRecorded, Building, InMap, TopHalfFilled
  <1> QED BY <1>2, <1>3, <1>4 DEF MapInv

\* Every step keeps the maps right.
THEOREM MapInductive ==
    ASSUME CallersInWindow, CallersSpareKernel
    PROVE  MInv /\ MapInv /\ [MmuNext]_mmuVars => MapInv'
  <1> SUFFICES ASSUME MInv, MapInv, [MmuNext]_mmuVars PROVE MapInv'
    OBVIOUS
  <1>0. IInv' /\ Recorded /\ Unrecorded /\ AllPhysical /\ KernelRecorded /\ TopHalfFilled
    BY MmuInductive DEF MInv, MapInv
  <1>1. CASE AllocatorCall
    <2>1. /\ pc = "idle" /\ UNCHANGED <<callVars, satp, tables, ready, mapped>>
          /\ \A p \in tables : mem'[p] = mem[p]
      BY <1>1, AllocatorSpares
    <2>2. Live' = Live
      BY <2>1, SameLive DEF callVars
    <2>3. Recorded' /\ Unrecorded'
      BY <1>0, <2>1, <2>2, TablesAlone
    <2>4. KernelRecorded' /\ TopHalfFilled'
      BY <1>0, <2>1, KernelKept, TopHalfKept DEF callVars, Building, InMap
    <2> QED BY <1>0, <1>1, <2>3, <2>4, AllocatorCallPhysical DEF MapInv
  <1>2. CASE mmu_new_page_table
    <2>1. /\ alloc_page(TRUE) /\ mmu' = AllocatedPtr /\ pc = "idle" /\ pc' = "identity"
          /\ tables' = tables \union {AllocatedPtr.page} /\ UNCHANGED <<ready, mapped>>
      BY <1>2 DEF mmu_new_page_table
    <2>2. /\ \A p \in tables : mem'[p] = mem[p]
          /\ \A s \in Slot : mem'[AllocatedPtr.page][s] = NULL
      BY <2>1, AllocChanges
    <2>3. Live \subseteq Live' /\ \A root \in Live' : root \in Live \/ root = AllocatedPtr
      <3>1. Live = ready
        BY <2>1 DEF Live, MInv, Control
      <3> QED BY <2>1, <3>1 DEF Live
    <2>4. Recorded' /\ Unrecorded'
      BY <1>0, <2>1, <2>2, <2>3, TablesAlone
    <2>5. TopHalfFilled'
      BY <1>0, <2>1, <2>2, TopHalfKept
    <2> QED BY <1>0, <1>2, <2>4, <2>5, TablePhysical, KernelNewRoot DEF MapInv
  <1>3. CASE mmu_entry_alloc
    <2>1. /\ alloc_page(TRUE) /\ tables' = tables \union {AllocatedPtr.page} /\ satp' = satp
          /\ pc = "walk" /\ pc' = "link" /\ UNCHANGED <<caller, mmu, arg, todo, ready, mapped>>
      BY <1>3 DEF mmu_entry_alloc, EntryAlloc, InLoop, alloc_page
    <2>2. \A p \in tables : mem'[p] = mem[p]
      BY <2>1, AllocChanges
    <2>3. Live' = Live
      BY <2>1, SameLive
    <2>4. Recorded' /\ Unrecorded'
      BY <1>0, <2>1, <2>2, <2>3, TablesAlone
    <2>5. KernelRecorded' /\ TopHalfFilled'
      BY <1>0, <2>1, <2>2, KernelKept, TopHalfKept DEF Building, InMap
    <2> QED BY <1>0, <1>3, <2>4, <2>5, TablePhysical DEF MapInv
  <1>4. CASE mmu_entry_link
    <2>1. /\ pc = "link" /\ pc' = "walk" /\ UNCHANGED <<satp, caller, mmu, arg, todo, ready, mapped>>
      BY <1>4 DEF mmu_entry_link, EntryLink
    <2>2. /\ Recorded' /\ Unrecorded'
          /\ \A p \in tables, s \in Slot : mem[p][s] # NULL => mem'[p][s] = mem[p][s]
      BY <1>0, <1>4, LinkMaps
    <2>3. KernelRecorded' /\ TopHalfFilled'
      BY <1>0, <2>1, <2>2, KernelKept, TopHalfKept DEF Building, InMap
    <2> QED BY <1>0, <1>4, <2>2, <2>3, StorePhysical DEF MapInv
  <1>5. CASE mmu_map_store
    <2>1. Recorded' /\ Unrecorded'
      BY <1>0, <1>5, MapStoreMaps
    <2>2. TopHalfFilled'
      <3> PICK kind \in [tables -> 0 .. 2] : Leveled(kind) /\ LinkedOnce(kind) /\ NewTable(kind)
        BY DEF MInv, Shape
      <3>1. ready' = ready /\ pc' # "tophalf"
        BY <1>5 DEF mmu_map_store, MapStore, MInv, MmuTypeOK
      <3>2. /\ \A p \in tables, s \in Slot :
                  mem'[p][s] = IF p = table.page /\ s = TableIndex(arg.virt, 0)
                               THEN MapEntry ELSE mem[p][s]
            /\ kind[table.page] = 0
        BY <1>5, MapStoreChanges
      <3>3. \A root \in ready : root.page \in tables /\ kind[root.page] = 2
        BY LiveRoots DEF Leveled
      <3>4. HighSlot \subseteq Slot
        BY Sizes, SizeAssumption DEF HighSlot, Slot
      <3> QED BY <1>0, <3>1, <3>2, <3>3, <3>4 DEF TopHalfFilled
    <2> QED BY <1>0, <1>5, <2>1, <2>2, StorePhysical, KernelMapStore DEF MapInv
  <1>6. CASE map_top_half_entry
    <2>1. Recorded' /\ Unrecorded'
      BY <1>0, <1>6, TopHalfMaps
    <2>2. KernelRecorded'
      <3>1. /\ UNCHANGED <<satp, pc, caller, mmu, arg, todo, ready, mapped>> /\ pc = "tophalf"
        BY <1>6 DEF map_top_half_entry, StoreTopHalf
      <3> QED BY <1>0, <3>1, KernelKept DEF Building, InMap, KernelRecorded
    <2> QED BY <1>0, <1>6, <2>1, <2>2, StorePhysical, TopHalfGrows DEF MapInv
  <1>7. CASE Quiet
    <2>1. TopHalfFilled' /\ mem' = mem /\ tables' = tables /\ mapped' = mapped
      BY <1>0, <1>7, TopHalfQuiet
    <2>2. Live' = Live
      <3>1. CASE mmu_new_page_table_return
        BY <3>1 DEF mmu_new_page_table_return, Live, MInv, Control
      <3>2. CASE MapCalls
        <4>1. pc = "idle" /\ ready' = ready /\ mmu' \in ready /\ mmu' # NULL
          BY <3>2, LiveRoots DEF MapCalls, mmu_map, StartMap
        <4>2. Live = ready
          BY <4>1 DEF Live, MInv, Control
        <4> QED BY <4>1, <4>2 DEF Live
      <3>3. CASE Stops \/ Activates \/ identity_map \/ mmu_entry_descend \/ map_top_half
        BY <3>3, SameLive DEF Stops, mmu_new_page_table_panic, mmu_entry_panic, mmu_entry_wild,
           fetch_fault, Interrupt, Stopped, Activates, activate, identity_map, IdentityMapPage,
           StartMap, mmu_entry_descend, map_top_half, mmuVars, callVars
      <3> QED BY <1>7, <3>1, <3>2, <3>3 DEF Quiet
    <2>3. Recorded' /\ Unrecorded'
      BY <1>0, <2>1, <2>2, TablesAlone
    <2> QED BY <1>0, <1>7, <2>1, <2>3, QuietPhysical, KernelQuiet DEF MapInv
  <1> QED BY <1>1, <1>2, <1>3, <1>4, <1>5, <1>6, <1>7
          DEF MmuNext, MmuCall, StartCall, CallStep, InnerStep, Quiet, Stops, MapCalls, Activates

\* Every reachable state satisfies both invariants.
THEOREM MapInvariance ==
    ASSUME CallersInWindow, CallersSpareKernel
    PROVE  MmuSafeSpec => [](MInv /\ MapInv)
  BY InitMInv, InitMapInv, MmuInductive, MapInductive, PTL DEF MmuSafeSpec

----------------------------------------------------------------------------
(* What the hardware finds *)

\* A way over two tables to a leaf at level 0 that the hardware can follow.
LEMMA HwLeaf ==
    ASSUME NEW root, root.top = "zero", root.page \in Ram, NEW v \in Nat,
           NEW a, mem[root.page][HwIndex(v, 2)] = a, ~Missing(a), ~IsLeaf(a),
           a.top = "zero", a.ppn \in Ram,
           NEW b, mem[a.ppn][HwIndex(v, 1)] = b, ~Missing(b), ~IsLeaf(b),
           b.top = "zero", b.ppn \in Ram,
           NEW w, mem[b.ppn][HwIndex(v, 0)] = w, ~Missing(w), IsLeaf(w),
           w.top = "zero", w.ppn \in Nat
    PROVE  HwWalk(root, v) = [page |-> w.ppn, flags |-> w.flags]
  <1>1. w.ppn % HwSpan(0) = 0 /\ w.ppn + (v % HwSpan(0)) = w.ppn
    BY DEF HwSpan
  <1> QED BY <1>1, Zenon DEF HwWalk

\* A leaf in the root.
LEMMA HwGiga ==
    ASSUME NEW root, root.top = "zero", root.page \in Ram, NEW v \in Nat,
           NEW w, mem[root.page][HwIndex(v, 2)] = w, ~Missing(w), IsLeaf(w),
           w.top = "zero", w.ppn \in Nat, w.ppn % HwSpan(2) = 0
    PROVE  HwWalk(root, v) = [page |-> w.ppn + (v % HwSpan(2)), flags |-> w.flags]
  BY DEF HwWalk

\* A map made while every address was physical is the hardware's translation.
LEMMA EarlyReaches ==
    ASSUME CallersMapLeaves, MInv, Recorded, NEW m \in mapped, m.early
    PROVE  HwWalk(m.mmu, m.virt) = [page |-> m.phys.page, flags |-> m.flags]
  <1> PICK kind \in [tables -> 0 .. 2] : Leveled(kind) /\ LinkedOnce(kind) /\ NewTable(kind)
    BY DEF MInv, Shape
  <1>1. /\ m.mmu \in Live /\ m.virt \in Window
        /\ m.phys.page \in Ram /\ m.flags \in MapFlagSets /\ InMemory(m)
    BY DEF Recorded
  <1>2. PICK root, v, w : /\ root = m.mmu /\ v = m.virt
                          /\ w = [ppn |-> m.phys.page, top |-> m.phys.top, flags |-> m.flags]
    OBVIOUS
  <1>3. PICK a, b \in tables : /\ Reaches(root.page, v, a, b) /\ mem[b][TableIndex(v, 0)] = w
                               /\ Physical(root, v, a) /\ m.phys.top = "zero"
    BY <1>1, <1>2 DEF InMemory
  <1>4. /\ HwIndex(v, 2) = TableIndex(v, 2) /\ HwIndex(v, 1) = TableIndex(v, 1)
        /\ HwIndex(v, 0) = TableIndex(v, 0) /\ v \in Nat
    BY <1>1, <1>2, WindowIndices DEF Window, HwIndex
  <1>5. PICK x, y : x = mem[root.page][HwIndex(v, 2)] /\ y = mem[a][HwIndex(v, 1)]
    OBVIOUS
  <1>6. /\ x \in LinkWord /\ x.ppn = a /\ x.top = "zero"
        /\ y \in LinkWord /\ y.ppn = b /\ y.top = "zero" /\ root.top = "zero"
    BY <1>3, <1>4, <1>5 DEF Reaches, Links, Physical
  <1>7. ~Missing(x) /\ ~IsLeaf(x) /\ ~Missing(y) /\ ~IsLeaf(y)
    BY <1>6, WordsRead
  <1>8. root.page \in Ram /\ a \in Ram /\ b \in Ram /\ m.phys.page \in Nat
    <2>1. Ram \subseteq Nat
      BY RamAssumption DEF Ram
    <2>2. root.page \in Ram
      BY <1>1, <1>2, LiveRoots
    <2> QED BY <1>1, <2>1, <2>2, TableHeld
  <1>9. w.top = "zero" /\ w.ppn = m.phys.page /\ w.flags = m.flags
    BY <1>2, <1>3
  <1>10. w \in MapWord
    BY <1>1, <1>2, <1>3 DEF MapWord, Top
  <1>11. ~Missing(w) /\ IsLeaf(w)
    <2>1. EntryFlags(w) = w.flags
      BY <1>10, WordsRead DEF EntryFlags
    <2> QED BY <1>1, <1>9, <2>1, LeafFlags DEF Missing, IsLeaf
  <1>12. HwWalk(root, v) = [page |-> w.ppn, flags |-> w.flags]
    BY <1>3, <1>4, <1>5, <1>6, <1>7, <1>8, <1>9, <1>11, HwLeaf
  <1> QED BY <1>2, <1>9, <1>12

\* What is mapped before translation is on is what the hardware will find.
THEOREM EarlyMapsReach ==
    ASSUME CallersInWindow, CallersSpareKernel, CallersMapLeaves
    PROVE  MmuSafeSpec => []EarlyMapsReachHardware
  <1>1. MInv /\ MapInv => EarlyMapsReachHardware
    BY EarlyReaches DEF MapInv, EarlyMapsReachHardware
  <1> QED BY <1>1, MapInvariance, PTL

\* Adding whole gigapages shifts the quotient and keeps the remainder.
LEMMA ShiftDiv ==
    ASSUME NEW h \in Nat, NEW p \in Nat, NEW g \in Nat \ {0}
    PROVE  (h * g + p) \div g = h + (p \div g) /\ (h * g + p) % g = p % g
  <1> DEFINE q == p \div g
             r == (h * g + p) \div g
  <1>0. PICK z \in Nat : z = h * g
    OBVIOUS
  <1>1. q \in Int /\ q * g <= p /\ p < q * g + g
    BY DivBounds
  <1>2. r \in Int /\ r * g <= z + p /\ z + p < r * g + g
    BY <1>0, DivBounds
  <1>3. p = q * g + (p % g) /\ z + p = r * g + ((z + p) % g)
    BY <1>0, ModBounds
  <1> HIDE DEF q, r
  <1>4. (h + q) * g = z + q * g /\ q * g \in Int /\ r * g \in Int
    BY <1>0, <1>1, <1>2
  <1>5. h + q <= r
    <2>1. (h + q) * g < r * g + g
      BY <1>0, <1>1, <1>2, <1>4
    <2> QED BY <1>1, <1>2, <2>1, MulCancel
  <1>6. r <= h + q
    <2>1. r * g < (h + q) * g + g
      BY <1>0, <1>1, <1>2, <1>4
    <2> QED BY <1>1, <1>2, <2>1, MulCancel
  <1>7. r = h + q
    BY <1>1, <1>2, <1>5, <1>6
  <1>8. (z + p) % g = p % g
    <2>1. (z + p) % g \in Int /\ p % g \in Int
      BY <1>0, ModBounds
    <2>2. r * g = z + q * g
      BY <1>4, <1>7
    <2> QED BY <1>0, <1>3, <1>4, <2>1, <2>2
  <1> QED BY <1>0, <1>7, <1>8 DEF q, r

\* The upper half of a root whose top half is filled translates to all of RAM.
LEMMA HighMapped ==
    ASSUME NEW root, root.top = "zero", root.page \in Ram,
           \A s \in HighSlot : mem[root.page][s] = TopHalfEntry(s), NEW p \in Ram
    PROVE  HwWalk(root, High(p)) = [page |-> p, flags |-> {"VALID", "GLOBAL", "READ", "WRITE"}]
  <1> DEFINE h == ENTRY_COUNT \div 2
             q == p \div GigaPage
             v == High(p)
             s == h + q
  <1>1. h \in Nat /\ GigaPage \in Nat \ {0} /\ LowHalf = h * GigaPage /\ p \in Nat /\ p < LowHalf
    BY Sizes
  <1>2. h + h = ENTRY_COUNT
    BY SizeAssumption, GeometryAssumption
  <1>3. /\ q \in Nat /\ q < h /\ p = q * GigaPage + (p % GigaPage) /\ p % GigaPage \in Nat
    <2>1. q \in Int /\ q < h
      <3>1. p < h * GigaPage
        BY <1>1
      <3>2. q \in Int
        BY <1>1, DivBounds
      <3> HIDE DEF h
      <3> QED BY <1>1, <3>1, <3>2, DivLess
    <2>2. 0 <= q
      <3>1. 0 * GigaPage <= p
        BY <1>1
      <3> QED BY SMTT(30), <1>1, <3>1, DivLess
    <2>3. PICK g \in Nat \ {0} : g = GigaPage
      BY <1>1
    <2>4. p % g \in 0 .. g - 1 /\ p = (p \div g) * g + (p % g)
      <3>1. p \in Int
        BY <1>1
      <3> QED BY <3>1, ModBounds
    <2>5. p % g \in Nat
      BY <2>4
    <2> QED BY <2>1, <2>2, <2>3, <2>4, <2>5
  <1>4. v \in Nat /\ v \div GigaPage = s /\ v % GigaPage = p % GigaPage
    <2>1. v = h * GigaPage + p
      BY <1>1 DEF High
    <2>2. h * GigaPage + p \in Nat
      BY <1>1
    <2> HIDE DEF v, h
    <2>3. (h * GigaPage + p) \div GigaPage = h + q /\ (h * GigaPage + p) % GigaPage = p % GigaPage
      BY <1>1, ShiftDiv
    <2> QED BY <2>1, <2>2, <2>3
  <1> HIDE DEF v, q, h
  <1>5. s \in HighSlot /\ s - h = q
    BY <1>1, <1>2, <1>3 DEF HighSlot, h
  <1>6. PICK w : w = TopHalfEntry(s)
    OBVIOUS
  <1>7. /\ w.ppn = q * GigaPage /\ w.top = "zero" /\ w.flags = {"GLOBAL", "READ", "WRITE", "VALID"}
    BY <1>5, <1>6 DEF TopHalfEntry, h
  <1>8. ~Missing(w) /\ IsLeaf(w)
    BY <1>5, <1>6, WordsRead
  <1>9. w.ppn \in Nat /\ w.ppn % GigaPage = 0
    <2>1. (q * GigaPage) \div GigaPage = q
      BY <1>1, <1>3, MulDiv
    <2>2. q * GigaPage \in Nat
      BY <1>1, <1>3
    <2>3. PICK n \in Nat : n = q * GigaPage
      BY <2>2
    <2>4. n = (n \div GigaPage) * GigaPage + (n % GigaPage) /\ n % GigaPage \in Int
      BY <1>1, ModBounds
    <2>5. (n \div GigaPage) * GigaPage = n
      BY <2>1, <2>3
    <2> QED BY <1>7, <2>2, <2>3, <2>4, <2>5
  <1>10. HwIndex(v, 2) = s /\ HwSpan(2) = GigaPage
    BY <1>4 DEF HwIndex, HwSpan
  <1>11. HwWalk(root, v) = [page |-> w.ppn + (v % GigaPage), flags |-> w.flags]
    BY <1>4, <1>5, <1>6, <1>7, <1>8, <1>9, <1>10, HwGiga
  <1>12. w.ppn + (v % GigaPage) = p
    BY <1>3, <1>4, <1>7
  <1>13. w.flags = {"VALID", "GLOBAL", "READ", "WRITE"}
    BY <1>7
  <1> QED BY <1>11, <1>12, <1>13 DEF v

\* The page of a section is one that identity_map maps.
LEMMA SectionMapped ==
    ASSUME NEW start \in Nat, NEW end \in Nat, NEW flags, NEW v \in Section(start, end)
    PROVE  [virt |-> v, flags |-> flags] \in Identity(start, end, flags)
  <1>1. v \in Int /\ v * PAGE_SIZE < end /\ start < (v + 1) * PAGE_SIZE
    BY RamAssumption DEF Section, Ram
  <1>2. v \in First(start) .. After(end) - 1
    BY <1>1, PagesTouched
  <1> QED BY <1>2 DEF Identity

\* In every state of the invariant, what can be activated has the kernel mapped.
LEMMA KernelStaysNow ==
    ASSUME CallersMapLeaves, MInv, MapInv
    PROVE  KernelStaysMapped
  <1> SUFFICES ASSUME NEW root \in ready, root.top = "zero" PROVE KernelMapped(root)
    BY DEF KernelStaysMapped
  <1>0. Recorded /\ KernelRecorded /\ TopHalfFilled
    BY DEF MapInv
  <1>1. ASSUME NEW e \in Members(KernelPages)
        PROVE  HwWalk(root, e.virt) = [page |-> e.virt, flags |-> e.flags \union {"VALID"}]
    <2>1. PICK m \in mapped : /\ m.mmu = root /\ m.virt = KernelArg(e).virt
                              /\ m.phys = KernelArg(e).phys /\ m.flags = KernelArg(e).flags
                              /\ m.early
      BY <1>0 DEF KernelRecorded, KernelRecord
    <2>2. m.virt = e.virt /\ m.phys.page = e.virt /\ m.flags = e.flags \union {"VALID"}
      BY <2>1 DEF KernelArg
    <2>3. HwWalk(m.mmu, m.virt) = [page |-> m.phys.page, flags |-> m.flags]
      BY <1>0, <2>1, EarlyReaches
    <2> QED BY <2>1, <2>2, <2>3
  <1>2. ASSUME NEW start \in Nat, NEW end \in Nat, NEW flags, NEW v \in Section(start, end),
               Identity(start, end, flags) \subseteq Members(KernelPages)
        PROVE  HwWalk(root, v) = [page |-> v, flags |-> flags \union {"VALID"}]
    <2>1. PICK e : e = [virt |-> v, flags |-> flags]
      OBVIOUS
    <2>2. e \in Members(KernelPages) /\ e.virt = v /\ e.flags = flags
      BY <1>2, <2>1, SectionMapped
    <2> QED BY <1>1, <2>2
  <1>3. {text_start, ro_data_start, data_start, pages_bottom} \subseteq Nat
    BY KernelAssumption
  <1>4. ASSUME NEW v \in Section(text_start, ro_data_start)
        PROVE  HwWalk(root, v) = [page |-> v, flags |-> {"EXEC"} \union {"VALID", "GLOBAL"}]
    <2>1. HwWalk(root, v) = [page |-> v, flags |-> {"GLOBAL", "EXEC"} \union {"VALID"}]
      BY <1>2, <1>3, KernelCalls
    <2>2. {"GLOBAL", "EXEC"} \union {"VALID"} = {"EXEC"} \union {"VALID", "GLOBAL"}
      OBVIOUS
    <2> QED BY <2>1, <2>2
  <1>5. ASSUME NEW v \in Section(ro_data_start, data_start)
        PROVE  HwWalk(root, v) = [page |-> v, flags |-> {"READ"} \union {"VALID", "GLOBAL"}]
    <2>1. HwWalk(root, v) = [page |-> v, flags |-> {"GLOBAL", "READ"} \union {"VALID"}]
      BY <1>2, <1>3, KernelCalls
    <2>2. {"GLOBAL", "READ"} \union {"VALID"} = {"READ"} \union {"VALID", "GLOBAL"}
      OBVIOUS
    <2> QED BY <2>1, <2>2
  <1>6. ASSUME NEW v \in Section(data_start, pages_bottom)
        PROVE  HwWalk(root, v) = [page |-> v, flags |-> {"READ", "WRITE"} \union {"VALID", "GLOBAL"}]
    <2>1. HwWalk(root, v) = [page |-> v, flags |-> {"GLOBAL", "READ", "WRITE"} \union {"VALID"}]
      BY <1>2, <1>3, KernelCalls
    <2>2. {"GLOBAL", "READ", "WRITE"} \union {"VALID"} = {"READ", "WRITE"} \union {"VALID", "GLOBAL"}
      OBVIOUS
    <2> QED BY <2>1, <2>2
  <1>7. ASSUME NEW p \in Ram
        PROVE  HwWalk(root, High(p)) = [page |-> p, flags |-> {"VALID", "GLOBAL", "READ", "WRITE"}]
    <2>1. root.page \in Ram
      BY LiveRoots
    <2> QED BY <1>0, <2>1, HighMapped DEF TopHalfFilled
  <1> QED BY <1>4, <1>5, <1>6, <1>7 DEF KernelMapped

\* A finished page table that can be activated keeps the kernel mapped.
THEOREM KernelStays ==
    ASSUME CallersInWindow, CallersSpareKernel, CallersMapLeaves
    PROVE  MmuSafeSpec => []KernelStaysMapped
  <1>1. MInv /\ MapInv => KernelStaysMapped
    BY KernelStaysNow
  <1> QED BY <1>1, MapInvariance, PTL

----------------------------------------------------------------------------
(* What mmu_walk finds *)

\* The way of mmu_entry over the words x and y that it reads.
LEMMA EntryWay ==
    ASSUME NEW root, NEW v, NEW t, t = make_accessible(root),
           EntryPage(t, TableIndex(v, 2)) \in Ram,
           NEW x, x = Load(t, TableIndex(v, 2))
    PROVE  /\ Missing(x) => mmu_entry(root, v) = NULL
           /\ \A u, y : /\ ~Missing(x) /\ ~IsLeaf(x) /\ u = TableOf(x)
                        /\ EntryPage(u, TableIndex(v, 1)) \in Ram
                        /\ y = Load(u, TableIndex(v, 1))
                 => /\ Missing(y) => mmu_entry(root, v) = NULL
                    /\ ~Missing(y) /\ ~IsLeaf(y) =>
                          mmu_entry(root, v) = At(TableOf(y), TableIndex(v, 0))
  BY DEF mmu_entry

\* What mmu_walk makes of the entry found.
LEMMA WalkEnd ==
    ASSUME NEW root, NEW v
    PROVE  /\ mmu_entry(root, v) = NULL => mmu_walk(root, v) = NULL
           /\ \A p \in Ram, s \in Slot :
                 mmu_entry(root, v) = [entry |-> [page |-> p, slot |-> s]] =>
                    mmu_walk(root, v) =
                       IF "VALID" \notin EntryFlags(mem[p][s]) THEN NULL ELSE TableOf(mem[p][s])
  <1>1. mmu_entry(root, v) = NULL => mmu_walk(root, v) = NULL
    BY DEF mmu_walk
  <1>2. ASSUME NEW p \in Ram, NEW s \in Slot,
               mmu_entry(root, v) = [entry |-> [page |-> p, slot |-> s]]
        PROVE  mmu_walk(root, v) =
                  IF "VALID" \notin EntryFlags(mem[p][s]) THEN NULL ELSE TableOf(mem[p][s])
    <2>1. mmu_entry(root, v) # NULL
      BY <1>2, PteAssumption
    <2>2. mmu_entry(root, v) # Trapped
      <3>1. DOMAIN mmu_entry(root, v) = {"entry"} /\ DOMAIN Trapped = {"trap"}
        BY <1>2 DEF Trapped
      <3> QED BY <3>1
    <2>3. mmu_entry(root, v).entry.page = p /\ mmu_entry(root, v).entry.slot = s
      BY <1>2
    <2> QED BY <2>1, <2>2, <2>3 DEF mmu_walk
  <1> QED BY <1>1, <1>2

\* Pointers keep their page when they are made accessible.
LEMMA Accessible ==
    ASSUME NEW ptr \in Ptr
    PROVE  make_accessible(ptr).page = ptr.page /\ make_accessible(ptr) \in Ptr
  BY DEF make_accessible, phys2virt, Ptr, Top

\* mmu_walk of a page of the window ends without a trap: at the word of a table
\* of level 0, or NULL when no table leads there.
LEMMA WalkWindow ==
    ASSUME MInv, NEW root \in ready, NEW v \in Window
    PROVE  \/ mmu_walk(root, v) = NULL /\ \A a, b : ~Reaches(root.page, v, a, b)
           \/ \E a, b \in tables :
                 /\ Reaches(root.page, v, a, b)
                 /\ mem[b][TableIndex(v, 0)] \in {NULL} \union MapWord
                 /\ mmu_walk(root, v) =
                       IF "VALID" \notin EntryFlags(mem[b][TableIndex(v, 0)]) THEN NULL
                       ELSE TableOf(mem[b][TableIndex(v, 0)])
  <1> PICK kind \in [tables -> 0 .. 2] : Leveled(kind) /\ LinkedOnce(kind) /\ NewTable(kind)
    BY DEF MInv, Shape
  <1>0. PICK i2, i1, i0 : i2 = TableIndex(v, 2) /\ i1 = TableIndex(v, 1) /\ i0 = TableIndex(v, 0)
    OBVIOUS
  <1>1. i2 \in LowSlot /\ i2 \in Slot /\ i1 \in Slot /\ i0 \in Slot
    BY <1>0, WindowIndices
  <1>2. root \in Ptr /\ root.page \in tables /\ kind[root.page] = 2
    BY LiveRoots DEF Leveled
  <1>3. tables \subseteq Ram /\ Ram \subseteq Int
    BY TableHeld, RamAssumption DEF Ram
  <1>4. ASSUME NEW t \in Ptr, t.page \in tables, NEW i \in Slot
        PROVE  EntryPage(t, i) = t.page /\ EntryPage(t, i) \in Ram /\ Load(t, i) = mem[t.page][i]
    <2>1. EntryPage(t, i) = t.page /\ EntrySlot(i) = i
      BY <1>3, <1>4, InTable
    <2> QED BY <1>3, <1>4, <2>1 DEF Load
  <1>5. ASSUME NEW w \in LinkWord, w.ppn \in tables
        PROVE  TableOf(w) \in Ptr /\ TableOf(w).page = w.ppn
    <2>1. PICK ptr : ptr = [page |-> w.ppn, top |-> w.top]
      OBVIOUS
    <2>2. ptr \in Ptr /\ ptr.page = w.ppn
      BY <1>3, <1>5, <2>1, RamAssumption DEF LinkWord, Ptr, Ram
    <2> QED BY <2>1, <2>2, Accessible DEF TableOf
  <1>6. PICK t, x : t = make_accessible(root) /\ x = mem[root.page][i2]
    OBVIOUS
  <1>7. t \in Ptr /\ t.page = root.page /\ EntryPage(t, i2) \in Ram /\ Load(t, i2) = x
    BY <1>1, <1>2, <1>4, <1>6, Accessible
  <1>8. x \in {NULL} \union LinkWord
    BY <1>1, <1>2, <1>6 DEF Leveled, WordsOf
  <1>9. CASE x = NULL
    <2>1. mmu_walk(root, v) = NULL
      BY <1>0, <1>6, <1>7, <1>9, EntryWay, WalkEnd, WordsRead
    <2>2. \A a, b : ~Reaches(root.page, v, a, b)
      BY <1>0, <1>6, <1>9, WordsRead DEF Reaches, Links
    <2> QED BY <2>1, <2>2
  <1>10. CASE x \in LinkWord
    <2>1. PICK a : a = x.ppn
      OBVIOUS
    <2>2. a \in tables /\ kind[a] = 1 /\ Links(root.page, i2, a)
      <3>1. a \in Ram /\ Links(root.page, i2, a)
        BY <1>6, <1>10, <2>1 DEF Links, LinkWord
      <3> QED BY <1>1, <1>2, <3>1 DEF Leveled
    <2>3. PICK u, y : u = TableOf(x) /\ y = mem[a][i1]
      OBVIOUS
    <2>4. /\ u \in Ptr /\ u.page = a /\ EntryPage(u, i1) \in Ram /\ Load(u, i1) = y
          /\ ~Missing(x) /\ ~IsLeaf(x)
      BY <1>1, <1>4, <1>5, <1>10, <2>1, <2>2, <2>3, WordsRead
    <2>5. y \in {NULL} \union LinkWord
      <3>1. mem[a][i1] \in WordsOf(1, i1)
        BY <1>1, <2>2 DEF Leveled
      <3> QED BY <2>3, <3>1 DEF WordsOf
    <2>6. CASE y = NULL
      <3>1. mmu_walk(root, v) = NULL
        <4>1. mmu_entry(root, v) = NULL
          BY <1>0, <1>6, <1>7, <2>3, <2>4, <2>6, EntryWay, WordsRead
        <4> QED BY <4>1, WalkEnd
      <3>2. \A c, b : ~Reaches(root.page, v, c, b)
        BY <1>0, <1>6, <2>1, <2>3, <2>6, WordsRead DEF Reaches, Links
      <3> QED BY <3>1, <3>2
    <2>7. CASE y \in LinkWord
      <3>1. PICK b : b = y.ppn
        OBVIOUS
      <3>2. b \in tables /\ kind[b] = 0 /\ Links(a, i1, b)
        <4>1. b \in Ram /\ Links(a, i1, b)
          BY <2>3, <2>7, <3>1 DEF Links, LinkWord
        <4> QED BY <1>1, <2>2, <4>1 DEF Leveled
      <3>3. Reaches(root.page, v, a, b)
        BY <1>0, <2>2, <3>2 DEF Reaches
      <3>4. mem[b][i0] \in {NULL} \union MapWord
        <4>1. mem[b][i0] \in WordsOf(0, i0)
          BY <1>1, <3>2 DEF Leveled
        <4> QED BY <4>1 DEF WordsOf
      <3>5. ~Missing(y) /\ ~IsLeaf(y) /\ TableOf(y) \in Ptr /\ TableOf(y).page = b
        BY <1>5, <2>7, <3>1, <3>2, WordsRead
      <3>6. At(TableOf(y), i0) = [entry |-> [page |-> b, slot |-> i0]]
        <4>1. EntryPage(TableOf(y), i0) = b /\ EntrySlot(i0) = i0
          BY <1>1, <1>3, <3>2, <3>5, InTable
        <4> QED BY <4>1 DEF At
      <3>7. mmu_entry(root, v) = [entry |-> [page |-> b, slot |-> i0]]
        BY <1>0, <1>6, <1>7, <2>3, <2>4, <3>5, <3>6, EntryWay
      <3>8. b \in Ram
        BY <1>3, <3>2
      <3> QED BY <1>0, <1>1, <2>2, <3>2, <3>3, <3>4, <3>7, <3>8, WalkEnd
    <2> QED BY <2>5, <2>6, <2>7
  <1> QED BY <1>8, <1>9, <1>10

\* mmu_walk finds what the latest mmu_map of the address stored, or NULL.
THEOREM WalkFinds ==
    ASSUME CallersInWindow, CallersSpareKernel
    PROVE  MmuSafeSpec => []WalkFindsMaps
  <1>1. ASSUME MInv, MapInv PROVE WalkFindsMaps
    <2> DEFINE Maps(root, v) == {m \in mapped : m.mmu = root /\ m.virt = v}
    <2>0. Recorded /\ Unrecorded
      BY <1>1 DEF MapInv
    <2> SUFFICES ASSUME NEW root \in ready, NEW v \in MapVirt, v < LowHalf
                 PROVE  /\ Maps(root, v) = {} => mmu_walk(root, v) = NULL
                        /\ \A m \in Maps(root, v) : mmu_walk(root, v) = make_accessible(m.phys)
      BY DEF WalkFindsMaps
    <2>1. v \in Window /\ root \in Live
      BY <1>1, LiveRoots DEF CallersInWindow
    <2>2. ASSUME NEW m \in Maps(root, v)
          PROVE  \E a, b \in tables :
                    /\ Reaches(root.page, v, a, b)
                    /\ mem[b][TableIndex(v, 0)] =
                          [ppn |-> m.phys.page, top |-> m.phys.top, flags |-> m.flags]
                    /\ m.phys \in Ptr
      <3>1. m.phys \in Ptr
        BY <1>1 DEF MInv, MmuTypeOK
      <3>2. InMemory(m) /\ m.mmu = root /\ m.virt = v
        BY <2>0 DEF Recorded
      <3> QED BY <3>1, <3>2 DEF InMemory
    <2>3. CASE mmu_walk(root, v) = NULL /\ \A a, b : ~Reaches(root.page, v, a, b)
      BY <2>2, <2>3
    <2>4. ASSUME NEW a \in tables, NEW b \in tables, Reaches(root.page, v, a, b),
                 NEW w, w = mem[b][TableIndex(v, 0)], w \in {NULL} \union MapWord,
                 mmu_walk(root, v) = IF "VALID" \notin EntryFlags(w) THEN NULL ELSE TableOf(w)
          PROVE  /\ Maps(root, v) = {} => mmu_walk(root, v) = NULL
                 /\ \A m \in Maps(root, v) : mmu_walk(root, v) = make_accessible(m.phys)
      <3>1. w # NULL => Maps(root, v) # {}
        BY <2>0, <2>1, <2>4 DEF Unrecorded
      <3>2. w = NULL => mmu_walk(root, v) = NULL
        BY <2>4, WordsRead
      <3>3. ASSUME NEW m \in Maps(root, v) PROVE mmu_walk(root, v) = make_accessible(m.phys)
        <4>1. w = [ppn |-> m.phys.page, top |-> m.phys.top, flags |-> m.flags] /\ m.phys \in Ptr
          BY <2>2, <2>4 DEF Reaches, Links
        <4>2. m.flags \in MapFlagSets /\ m.phys.page \in Ram
          BY <2>0 DEF Recorded
        <4>3. w \in MapWord
          BY <4>1, <4>2 DEF MapWord, Ptr
        <4>4. "VALID" \in EntryFlags(w)
          BY <4>1, <4>2, <4>3, WordsRead DEF EntryFlags, MapFlagSets
        <4>5. [page |-> w.ppn, top |-> w.top] = m.phys
          BY <4>1 DEF Ptr
        <4> QED BY <2>4, <4>4, <4>5 DEF TableOf
      <3> QED BY <3>1, <3>2, <3>3
    <2> QED BY <1>1, <2>1, <2>3, <2>4, WalkWindow
  <1> QED BY <1>1, MapInvariance, PTL
=============================================================================
