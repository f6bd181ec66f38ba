----------------------------- MODULE TlbProofs -----------------------------
(***************************************************************************)
(* Proofs that the translation cache is never stale for more than the      *)
(* pages that mmu_map has mapped in the active table since set_mmu.        *)
(***************************************************************************)
EXTENDS Tlb, MmuProofs

----------------------------------------------------------------------------
(* What the hardware reads *)

\* The hardware's indices stay inside the tables.
LEMMA HwIndices ==
    ASSUME NEW v \in VirtPage
    PROVE  HwIndex(v, 2) \in Slot /\ HwIndex(v, 1) \in Slot /\ HwIndex(v, 0) \in Slot /\ v \in Nat
  <1>1. v \in Nat /\ v < 2 * LowHalf
    BY Sizes DEF VirtPage
  <1>2. HwIndex(v, 0) \in Slot
    <2>1. v % ENTRY_COUNT \in 0 .. ENTRY_COUNT - 1
      BY <1>1, SizeAssumption, ModBounds
    <2> QED BY <2>1 DEF HwIndex, Slot
  <1>3. HwIndex(v, 1) \in Slot
    <2>1. v \div ENTRY_COUNT \in Int
      BY <1>1, SizeAssumption, DivBounds
    <2>2. (v \div ENTRY_COUNT) % ENTRY_COUNT \in 0 .. ENTRY_COUNT - 1
      BY <2>1, SizeAssumption, ModBounds
    <2> QED BY <2>2 DEF HwIndex, Slot
  <1>4. HwIndex(v, 2) \in Slot
    <2>1. PICK g \in Nat \ {0} : g = GigaPage
      BY Sizes
    <2>2. ENTRY_COUNT \in Nat /\ 2 * (ENTRY_COUNT \div 2) <= ENTRY_COUNT /\ ENTRY_COUNT \div 2 \in Nat
      BY SizeAssumption
    <2>3. PICK h \in Nat : h = ENTRY_COUNT \div 2
      BY <2>2
    <2>4. v < (2 * h) * g
      <3>1. LowHalf = h * g
        BY <2>1, <2>3, Sizes
      <3> QED BY <1>1, <3>1
    <2>5. v \div g < 2 * h
      BY SMTT(30), <1>1, <2>4, DivLess
    <2>6. 0 <= v \div g /\ v \div g \in Int
      <3>1. 0 * g <= v
        BY <1>1
      <3> QED BY <1>1, <3>1, DivLess, DivBounds
    <2>7. v \div g \in 0 .. ENTRY_COUNT - 1
      BY <2>2, <2>3, <2>5, <2>6
    <2> QED BY <2>1, <2>7 DEF HwIndex, Slot
  <1> QED BY <1>1, <1>2, <1>3, <1>4

\* The walk comes out the same when every word that it reads is the same.
LEMMA HwSame ==
    ASSUME NEW root, NEW v, NEW x, NEW y,
           x = mem[root.page][HwIndex(v, 2)], x = mem'[root.page][HwIndex(v, 2)],
           ~Missing(x) /\ ~IsLeaf(x) =>
              /\ y = mem[x.ppn][HwIndex(v, 1)] /\ y = mem'[x.ppn][HwIndex(v, 1)]
              /\ ~Missing(y) /\ ~IsLeaf(y) =>
                    mem[y.ppn][HwIndex(v, 0)] = mem'[y.ppn][HwIndex(v, 0)]
    PROVE  HwWalk(root, v)' = HwWalk(root, v)
  BY ZenonT(60) DEF HwWalk

\* It comes to nothing at a word that is missing, at whatever level.
LEMMA HwMissing ==
    ASSUME NEW root, NEW v
    PROVE  /\ Missing(mem[root.page][HwIndex(v, 2)]) => HwWalk(root, v) = Fault
           /\ \A x : x = mem[root.page][HwIndex(v, 2)] /\ ~Missing(x) /\ ~IsLeaf(x) =>
                 /\ Missing(mem[x.ppn][HwIndex(v, 1)]) => HwWalk(root, v) = Fault
                 /\ \A y : /\ y = mem[x.ppn][HwIndex(v, 1)] /\ ~Missing(y) /\ ~IsLeaf(y)
                           /\ Missing(mem[y.ppn][HwIndex(v, 0)])
                       => HwWalk(root, v) = Fault
  BY ZenonT(60) DEF HwWalk

\* The same after a step.
LEMMA HwMissingNext ==
    ASSUME NEW root, NEW v
    PROVE  /\ Missing(mem'[root.page][HwIndex(v, 2)]) => HwWalk(root, v)' = Fault
           /\ \A x : x = mem'[root.page][HwIndex(v, 2)] /\ ~Missing(x) /\ ~IsLeaf(x) =>
                 /\ Missing(mem'[x.ppn][HwIndex(v, 1)]) => HwWalk(root, v)' = Fault
                 /\ \A y : /\ y = mem'[x.ppn][HwIndex(v, 1)] /\ ~Missing(y) /\ ~IsLeaf(y)
                           /\ Missing(mem'[y.ppn][HwIndex(v, 0)])
                       => HwWalk(root, v)' = Fault
  BY ZenonT(60) DEF HwWalk

\* From a root the hardware reads words of that root, of a table of level 1 and
\* of a table of level 0.
LEMMA HwPath ==
    ASSUME MInv, NEW kind \in [tables -> 0 .. 2], Leveled(kind), NEW root \in Live,
           NEW i \in Slot, NEW j \in Slot, NEW x, x = mem[root.page][i]
    PROVE  /\ root.page \in tables /\ kind[root.page] = 2
           /\ x = NULL \/ x \in LinkWord \/ IsLeaf(x)
           /\ ~Missing(x) /\ ~IsLeaf(x) =>
                 /\ x \in LinkWord /\ x.ppn \in tables /\ kind[x.ppn] = 1
                 /\ Links(root.page, i, x.ppn)
                 /\ mem[x.ppn][j] = NULL \/ mem[x.ppn][j] \in LinkWord
                 /\ \A y : y = mem[x.ppn][j] /\ ~Missing(y) =>
                       /\ y \in LinkWord /\ y.ppn \in tables /\ kind[y.ppn] = 0
                       /\ Links(x.ppn, j, y.ppn)
  <1>1. root.page \in tables /\ kind[root.page] = 2
    BY LiveRoots DEF Leveled
  <1>2. x = NULL \/ x \in LinkWord \/ IsLeaf(x)
    <2>1. x \in WordsOf(2, i)
      BY <1>1 DEF Leveled
    <2>2. i \in LowSlot \/ i \in HighSlot
      BY Sizes, SizeAssumption DEF Slot, LowSlot, HighSlot
    <2> QED BY <2>1, <2>2, WordsRead DEF WordsOf
  <1>3. \A p \in tables, s \in Slot : \A w :
           w = mem[p][s] /\ w \in LinkWord /\ kind[p] > 0 =>
              w.ppn \in tables /\ kind[w.ppn] = kind[p] - 1 /\ Links(p, s, w.ppn)
    BY DEF Leveled, Links, LinkWord
  <1>4. ASSUME ~Missing(x), ~IsLeaf(x)
        PROVE  x \in LinkWord /\ x.ppn \in tables /\ kind[x.ppn] = 1 /\ Links(root.page, i, x.ppn)
    <2>1. x \in LinkWord
      BY <1>2, <1>4, WordsRead
    <2> QED BY <1>1, <1>3, <2>1
  <1>5. ASSUME ~Missing(x), ~IsLeaf(x)
        PROVE  mem[x.ppn][j] = NULL \/ mem[x.ppn][j] \in LinkWord
    <2>1. mem[x.ppn][j] \in WordsOf(1, j)
      BY <1>4, <1>5 DEF Leveled
    <2> QED BY <2>1 DEF WordsOf
  <1>6. ASSUME ~Missing(x), ~IsLeaf(x), NEW y, y = mem[x.ppn][j], ~Missing(y)
        PROVE  y \in LinkWord /\ y.ppn \in tables /\ kind[y.ppn] = 0 /\ Links(x.ppn, j, y.ppn)
    <2>1. y \in LinkWord
      BY <1>5, <1>6, WordsRead
    <2>2. x.ppn \in tables /\ kind[x.ppn] = 1 /\ y = mem[x.ppn][j]
      BY <1>4, <1>6
    <2>3. PICK q : q = x.ppn
      OBVIOUS
    <2>4. q \in tables /\ kind[q] = 1 /\ y = mem[q][j]
      BY <2>2, <2>3
    <2>5. y.ppn \in tables /\ kind[y.ppn] = kind[q] - 1 /\ Links(q, j, y.ppn)
      BY <1>3, <2>1, <2>4
    <2>6. kind[y.ppn] = 0
      BY <2>4, <2>5
    <2> QED BY <2>1, <2>3, <2>5, <2>6, Zenon
  <1> QED BY <1>1, <1>2, <1>4, <1>5, <1>6

----------------------------------------------------------------------------
(* What the steps change of it *)

\* Steps that leave the tables alone.
LEMMA HwTablesAlone ==
    ASSUME MInv, NEW root \in Live, NEW v \in VirtPage, \A p \in tables : mem'[p] = mem[p]
    PROVE  HwWalk(root, v)' = HwWalk(root, v)
  <1> PICK kind \in [tables -> 0 .. 2] : Leveled(kind) /\ LinkedOnce(kind) /\ NewTable(kind)
    BY DEF MInv, Shape
  <1>1. HwIndex(v, 2) \in Slot /\ HwIndex(v, 1) \in Slot
    BY HwIndices
  <1>2. PICK x : x = mem[root.page][HwIndex(v, 2)]
    OBVIOUS
  <1>3. PICK y : y = mem[x.ppn][HwIndex(v, 1)]
    OBVIOUS
  <1>4. /\ root.page \in tables
        /\ ~Missing(x) /\ ~IsLeaf(x) =>
              x.ppn \in tables /\ (~Missing(y) => y.ppn \in tables)
    BY <1>1, <1>2, <1>3, HwPath
  <1> QED BY <1>2, <1>3, <1>4, HwSame

\* The entry that mmu_entry links leads to a table in which every word is still
\* zero: the hardware finds nothing there, as before.
LEMMA HwLink ==
    ASSUME MInv, NEW root \in Live, NEW v \in VirtPage, mmu_entry_link
    PROVE  HwWalk(root, v)' = HwWalk(root, v)
  <1> PICK kind \in [tables -> 0 .. 2] : Leveled(kind) /\ LinkedOnce(kind) /\ NewTable(kind)
    BY DEF MInv, Shape
  <1>0. PICK w, t, s, new, i2, i1, i0 :
          /\ w = [ppn |-> page.page, top |-> page.top, flags |-> {"VALID"}]
          /\ t = table.page /\ s = Index /\ new = page.page
          /\ i2 = HwIndex(v, 2) /\ i1 = HwIndex(v, 1) /\ i0 = HwIndex(v, 0)
    OBVIOUS
  <1>1. i2 \in Slot /\ i1 \in Slot /\ i0 \in Slot
    BY <1>0, HwIndices
  <1>2. /\ w \in LinkWord /\ w.ppn = new /\ new \in tables /\ t \in tables /\ s \in Slot
        /\ mem' = [mem EXCEPT ![t][s] = w]
    BY <1>0, LinkStore
  <1>3. pc = "link" /\ InMap
    BY DEF mmu_entry_link, EntryLink, InMap
  <1>4. /\ kind[t] = level /\ level \in {1, 2} /\ kind[new] = level - 1 /\ mem[t][s] = NULL
        /\ \A u \in Slot : mem[new][u] = NULL
    <2>1. kind[t] = level
      BY <1>0, <1>3, WalkFacts
    <2>2. level \in {1, 2} /\ mem[t][s] = NULL
      BY <1>0, <1>3 DEF MInv, Walk
    <2> QED BY <1>0, <1>3, <2>1, <2>2 DEF NewTable
  <1>5. \A p \in tables, u \in Slot : mem'[p][u] = IF p = t /\ u = s THEN w ELSE mem[p][u]
    <2>1. mem \in [Ram -> [Slot -> Word]] /\ tables \subseteq Ram
      BY TableHeld DEF MInv, IInv, AllocTypeOK
    <2> QED BY <1>2, <2>1, OneWord
  <1>6. new # t /\ \A u \in Slot : mem'[new][u] = NULL
    BY <1>2, <1>4, <1>5
  <1>7. ~Missing(w) /\ ~IsLeaf(w) /\ Missing(NULL) /\ NULL \notin LinkWord
    BY <1>2, WordsRead
  <1>8. PICK x : x = mem[root.page][i2]
    OBVIOUS
  <1>9. PICK y : y = mem[x.ppn][i1]
    OBVIOUS
  <1>10. /\ root.page \in tables /\ kind[root.page] = 2
         /\ ~Missing(x) /\ ~IsLeaf(x) =>
               /\ x.ppn \in tables /\ kind[x.ppn] = 1
               /\ ~Missing(y) => y.ppn \in tables /\ kind[y.ppn] = 0
    BY <1>1, <1>8, <1>9, HwPath
  <1>11. CASE root.page = t /\ i2 = s
    <2>1. x = NULL /\ mem'[root.page][i2] = w
      BY <1>2, <1>4, <1>5, <1>8, <1>11
    <2>2. HwWalk(root, v) = Fault
      BY <1>0, <1>7, <1>8, <2>1, HwMissing
    <2>3. mem'[w.ppn][i1] = NULL
      BY <1>1, <1>2, <1>6
    <2>4. HwWalk(root, v)' = Fault
      BY <1>0, <1>7, <2>1, <2>3, HwMissingNext
    <2> QED BY <2>2, <2>4
  <1>12. CASE ~(root.page = t /\ i2 = s)
    <2>1. mem'[root.page][i2] = x
      BY <1>1, <1>5, <1>8, <1>10, <1>12
    <2>2. CASE Missing(x) \/ IsLeaf(x)
      BY <1>0, <1>8, <2>1, <2>2, HwSame
    <2>3. CASE ~Missing(x) /\ ~IsLeaf(x) /\ x.ppn = t /\ i1 = s
      <3>1. y = NULL /\ mem'[x.ppn][i1] = w
        BY <1>2, <1>4, <1>5, <1>9, <2>3
      <3>2. HwWalk(root, v) = Fault
        BY <1>0, <1>7, <1>8, <1>9, <2>3, <3>1, HwMissing
      <3>3. mem'[w.ppn][i0] = NULL
        BY <1>1, <1>2, <1>6
      <3>4. HwWalk(root, v)' = Fault
        BY <1>0, <1>7, <2>1, <2>3, <3>1, <3>3, HwMissingNext
      <3> QED BY <3>2, <3>4
    <2>4. CASE ~Missing(x) /\ ~IsLeaf(x) /\ ~(x.ppn = t /\ i1 = s)
      <3>1. mem'[x.ppn][i1] = y
        BY <1>1, <1>5, <1>9, <1>10, <2>4
      <3>2. ~Missing(y) => mem'[y.ppn][i0] = mem[y.ppn][i0]
        BY <1>1, <1>4, <1>5, <1>10, <2>4
      <3> QED BY <1>0, <1>8, <1>9, <2>1, <3>1, <3>2, HwSame
    <2> QED BY <2>2, <2>3, <2>4
  <1> QED BY <1>11, <1>12

\* The loop over the top half writes to a root that is not this one.
LEMMA HwTopHalf ==
    ASSUME MInv, NEW root \in Live, root # mmu, NEW v \in VirtPage, map_top_half_entry
    PROVE  HwWalk(root, v)' = HwWalk(root, v)
  <1> PICK kind \in [tables -> 0 .. 2] : Leveled(kind) /\ LinkedOnce(kind) /\ NewTable(kind)
    BY DEF MInv, Shape
  <1>0. PICK w, t, s, i2, i1, i0 :
          /\ w = TopHalfEntry(level) /\ t = mmu.page /\ s = level
          /\ i2 = HwIndex(v, 2) /\ i1 = HwIndex(v, 1) /\ i0 = HwIndex(v, 0)
    OBVIOUS
  <1>1. i2 \in Slot /\ i1 \in Slot /\ i0 \in Slot
    BY <1>0, HwIndices
  <1>2. t \in tables /\ kind[t] = 2 /\ s \in Slot /\ mem' = [mem EXCEPT ![t][s] = w]
    BY <1>0, TopHalfStore DEF Leveled
  <1>3. root.page # t
    <2>1. mmu \in Live
      BY TopHalfStore DEF MInv, Control, Live
    <2> QED BY <1>0, <2>1, LiveRoots
  <1>4. \A p \in tables, u \in Slot : p # t => mem'[p][u] = mem[p][u]
    <2>1. mem \in [Ram -> [Slot -> Word]] /\ tables \subseteq Ram
      BY TableHeld DEF MInv, IInv, AllocTypeOK
    <2> QED BY <1>2, <2>1, OneWord
  <1>5. PICK x : x = mem[root.page][i2]
    OBVIOUS
  <1>6. PICK y : y = mem[x.ppn][i1]
    OBVIOUS
  <1>7. /\ root.page \in tables
        /\ ~Missing(x) /\ ~IsLeaf(x) =>
              /\ x.ppn \in tables /\ kind[x.ppn] = 1
              /\ ~Missing(y) => y.ppn \in tables /\ kind[y.ppn] = 0
    BY <1>1, <1>5, <1>6, HwPath
  <1>8. mem'[root.page][i2] = x
    BY <1>1, <1>3, <1>4, <1>5, <1>7
  <1>9. ~Missing(x) /\ ~IsLeaf(x) =>
           /\ mem'[x.ppn][i1] = y
           /\ ~Missing(y) => mem'[y.ppn][i0] = mem[y.ppn][i0]
    BY <1>1, <1>2, <1>4, <1>6, <1>7
  <1> QED BY <1>0, <1>5, <1>6, <1>8, <1>9, HwSame

\* mmu_map changes the translation of its own page in its own table, no other.
LEMMA HwMapStore ==
    ASSUME MInv, NEW root \in Live, NEW v \in VirtPage, mmu_map_store,
           root # mmu \/ v # arg.virt
    PROVE  HwWalk(root, v)' = HwWalk(root, v)
  <1> PICK kind \in [tables -> 0 .. 2] : Leveled(kind) /\ LinkedOnce(kind) /\ NewTable(kind)
    BY DEF MInv, Shape
  <1>0. PICK w, t, s, i2, i1, i0 :
          /\ w = MapEntry /\ t = table.page /\ s = Index
          /\ i2 = HwIndex(v, 2) /\ i1 = HwIndex(v, 1) /\ i0 = HwIndex(v, 0)
    OBVIOUS
  <1>1. i2 \in Slot /\ i1 \in Slot /\ i0 \in Slot /\ v \in Nat
    BY <1>0, HwIndices
  <1>2. /\ t \in tables /\ kind[t] = 0 /\ s \in Slot /\ mem' = [mem EXCEPT ![t][s] = w]
        /\ level = 0 /\ pc = "walk" /\ InMap /\ EntryPage(table, Index) \in Ram
    BY <1>0, MapStoreAt DEF mmu_map_store, MapStore, EntryFound, InMap
  <1>3. \A p \in tables, u \in Slot : ~(p = t /\ u = s) => mem'[p][u] = mem[p][u]
    <2>1. mem \in [Ram -> [Slot -> Word]] /\ tables \subseteq Ram
      BY TableHeld DEF MInv, IInv, AllocTypeOK
    <2> QED BY <1>2, <2>1, OneWord
  <1>4. PICK virt : virt = arg.virt
    OBVIOUS
  <1>5. /\ virt \in Window /\ mmu \in Live /\ mmu.page \in tables /\ kind[mmu.page] = 2
        /\ \E m \in tables : Links(mmu.page, TableIndex(virt, 2), m) /\ Links(m, TableIndex(virt, 1), t)
        /\ s = TableIndex(virt, 0)
    <2>1. arg.virt \in Window /\ mmu.page \in tables /\ kind[mmu.page] = 2
      BY <1>2, WalkFacts
    <2>2. mmu \in Live
      BY <1>2 DEF MInv, Control, Live
    <2>3. AtLevel(mmu.page, arg.virt, table.page, 0)
      BY <1>2 DEF MInv, Walk
    <2>4. Index = TableIndex(arg.virt, 0)
      BY <1>2 DEF Index
    <2> QED BY <1>0, <1>4, <2>1, <2>2, <2>3, <2>4 DEF AtLevel
  <1>6. /\ TableIndex(virt, 2) = HwIndex(virt, 2) /\ TableIndex(virt, 1) = HwIndex(virt, 1)
        /\ TableIndex(virt, 0) = HwIndex(virt, 0) /\ virt \in Nat
        /\ TableIndex(virt, 2) \in Slot /\ TableIndex(virt, 1) \in Slot
    BY <1>5, WindowIndices DEF Window, HwIndex
  <1>7. PICK x : x = mem[root.page][i2]
    OBVIOUS
  <1>8. PICK y : y = mem[x.ppn][i1]
    OBVIOUS
  <1>9. /\ root.page \in tables /\ kind[root.page] = 2
        /\ ~Missing(x) /\ ~IsLeaf(x) =>
              /\ x.ppn \in tables /\ kind[x.ppn] = 1 /\ Links(root.page, i2, x.ppn)
              /\ ~Missing(y) => y.ppn \in tables /\ kind[y.ppn] = 0 /\ Links(x.ppn, i1, y.ppn)
    BY <1>1, <1>7, <1>8, HwPath
  <1>10. mem'[root.page][i2] = x /\ (~Missing(x) /\ ~IsLeaf(x) => mem'[x.ppn][i1] = y)
    <2>1. \A p \in tables, u \in Slot : kind[p] > 0 => mem'[p][u] = mem[p][u]
      BY <1>2, <1>3
    <2>2. mem'[root.page][i2] = x
      BY <1>1, <1>7, <1>9, <2>1
    <2>3. ASSUME ~Missing(x), ~IsLeaf(x) PROVE mem'[x.ppn][i1] = y
      BY <1>1, <1>8, <1>9, <2>1, <2>3
    <2> QED BY <2>2, <2>3
  <1>11. ASSUME ~Missing(x), ~IsLeaf(x), ~Missing(y) PROVE mem'[y.ppn][i0] = mem[y.ppn][i0]
    <2>1. SUFFICES ASSUME y.ppn = t, i0 = s PROVE FALSE
      BY <1>1, <1>3, <1>9, <1>11
    <2>2. PICK m \in tables : Links(mmu.page, TableIndex(virt, 2), m) /\ Links(m, TableIndex(virt, 1), t)
      BY <1>5
    <2>3. tables \subseteq Ram
      BY TableHeld
    <2>4. m \in tables /\ kind[m] = 1
      BY <1>5, <1>6, <2>2, <2>3 DEF Leveled
    <2>5. m = x.ppn /\ TableIndex(virt, 1) = i1
      BY <1>1, <1>2, <1>6, <1>9, <1>11, <2>1, <2>2, <2>3, <2>4 DEF LinkedOnce
    <2>6. mmu.page = root.page /\ TableIndex(virt, 2) = i2
      BY <1>1, <1>5, <1>6, <1>9, <1>11, <2>2, <2>3, <2>5 DEF LinkedOnce
    <2>7. root = mmu
      BY <1>5, <2>6, LiveRoots
    <2>8. virt = v
      <3>1. HwIndex(virt, 2) = HwIndex(v, 2) /\ HwIndex(virt, 1) = HwIndex(v, 1)
            /\ HwIndex(virt, 0) = HwIndex(v, 0)
        BY <1>0, <1>5, <1>6, <2>1, <2>5, <2>6
      <3> QED BY <1>1, <1>6, <3>1, IndicesTell DEF HwIndex
    <2> QED BY <1>4, <2>7, <2>8
  <1> QED BY <1>0, <1>7, <1>8, <1>10, <1>11, HwSame

----------------------------------------------------------------------------
(* The cache *)

\* The active table is a finished one, which is not the one being built.
Active == /\ satp # NULL => satp \in ready
          /\ Building => mmu \notin ready

\* The inductive invariant, on top of MInv: before translation is on nothing is
\* cached, afterwards only what the active table says.
CacheInv ==
    /\ Active
    /\ tlb = [v \in CacheVirt |-> tlb[v]]
    /\ satp = NULL => \A v \in CacheVirt : tlb[v] = {}
    /\ CacheAgrees

\* Every step keeps the active table a finished one.
LEMMA ActiveKept ==
    ASSUME MInv, Active, [MmuNext]_mmuVars
    PROVE  Active'
  <1>1. CASE AllocatorCall
    <2>1. UNCHANGED <<callVars, satp, ready>>
      BY <1>1, AllocatorSpares
    <2> QED BY <2>1 DEF Active, Building, InMap, callVars
  <1>2. CASE mmu_new_page_table
    <2>1. alloc_page(TRUE) /\ mmu' = AllocatedPtr /\ ready' = ready /\ satp' = satp
      BY <1>2 DEF mmu_new_page_table, alloc_page
    <2>2. AllocatedPtr.page \notin tables
      BY <2>1, AllocChanges
    <2>3. AllocatedPtr \notin ready
      BY <2>2, LiveRoots
    <2> QED BY <2>1, <2>3 DEF Active
  <1>3. CASE Activates
    <2>1. PICK root \in ready : activate(root)
      BY <1>3 DEF Activates
    <2>2. satp' \in ready /\ ready' = ready /\ pc' \notin {"identity", "tophalf", "walk", "link"}
      BY <2>1 DEF activate, set_mmu
    <2> QED BY <2>2 DEF Active, Building, InMap
  <1>4. CASE MapCalls
    <2>1. UNCHANGED <<satp, ready>> /\ pc' = "walk" /\ caller' = "idle"
      BY <1>4 DEF MapCalls, mmu_map, StartMap, allocVars
    <2> QED BY <2>1 DEF Active, Building, InMap
  <1>5. CASE mmu_new_page_table_return
    <2>1. satp' = satp /\ ready \subseteq ready' /\ pc' = "idle"
      BY <1>5 DEF mmu_new_page_table_return, allocVars
    <2> QED BY <2>1 DEF Active, Building, InMap
  <1>6. CASE mmu_map_store
    <2>1. UNCHANGED <<satp, ready, mmu, caller>> /\ pc = "walk" /\ pc' = caller
      BY <1>6 DEF mmu_map_store, MapStore, EntryFound
    <2> QED BY <2>1 DEF Active, Building, InMap, MInv, MmuTypeOK
  <1>7. CASE mmu_entry_alloc \/ mmu_entry_link \/ mmu_entry_descend
    <2>1. UNCHANGED <<satp, ready, mmu, caller>> /\ pc \in {"walk", "link"} /\ pc' \in {"walk", "link"}
      BY <1>7 DEF mmu_entry_alloc, EntryAlloc, alloc_page, mmu_entry_link, EntryLink,
                  mmu_entry_descend, InLoop, allocVars
    <2> QED BY <2>1 DEF Active, Building, InMap
  <1>8. CASE identity_map \/ map_top_half \/ map_top_half_entry
    <2>1. UNCHANGED <<satp, ready, mmu>> /\ pc \in {"identity", "tophalf"}
      BY <1>8 DEF identity_map, IdentityMapPage, StartMap, map_top_half, map_top_half_entry,
                  StoreTopHalf, allocVars
    <2> QED BY <2>1 DEF Active, Building
  <1>9. CASE Stops
    <2>1. UNCHANGED <<callVars, satp, ready>>
      BY <1>9 DEF Stops, mmu_new_page_table_panic, mmu_entry_panic, mmu_entry_wild, fetch_fault,
                  Interrupt, Stopped, alloc_page_panic, Trap, mmuVars, allocVars
    <2> QED BY <2>1 DEF Active, Building, InMap, callVars
  <1> QED BY <1>1, <1>2, <1>3, <1>4, <1>5, <1>6, <1>7, <1>8, <1>9
          DEF MmuNext, MmuCall, StartCall, CallStep, InnerStep, Stops, MapCalls, Activates

\* The steps other than set_mmu and the return of mmu_map.
OtherStep ==
    AllocatorCall \/ StartCall \/ InnerStep \/ Interrupt \/ Stopped \/ UNCHANGED mmuVars

\* They, and mmu_map of another page or in another table, leave the translation of
\* a page by the active table as it was.
LEMMA ActiveTranslates ==
    ASSUME MInv, Active, NEW root, root = satp, root # NULL, NEW v \in VirtPage,
           OtherStep \/ (mmu_map_store /\ (mmu # root \/ v # arg.virt))
    PROVE  satp' = root /\ HwWalk(root, v)' = HwWalk(root, v)
  <1>0. root \in ready /\ root \in Live /\ (Building => mmu # root)
    BY LiveRoots DEF Active
  <1>1. CASE AllocatorCall
    <2>1. satp' = satp /\ \A p \in tables : mem'[p] = mem[p]
      BY <1>1, AllocatorSpares
    <2> QED BY <1>0, <2>1, HwTablesAlone
  <1>2. CASE mmu_new_page_table \/ mmu_entry_alloc
    <2>1. alloc_page(TRUE)
      BY <1>2 DEF mmu_new_page_table, mmu_entry_alloc, EntryAlloc
    <2>2. satp' = satp /\ \A p \in tables : mem'[p] = mem[p]
      BY <2>1, AllocChanges DEF alloc_page
    <2> QED BY <1>0, <2>2, HwTablesAlone
  <1>3. CASE mmu_map_store /\ (mmu # root \/ v # arg.virt)
    BY <1>0, <1>3, HwMapStore DEF mmu_map_store, MapStore
  <1>4. CASE mmu_entry_link
    BY <1>0, <1>4, HwLink DEF mmu_entry_link, EntryLink
  <1>5. CASE map_top_half_entry
    <2>1. Building /\ satp' = satp
      BY <1>5 DEF map_top_half_entry, StoreTopHalf, Building
    <2> QED BY <1>0, <1>5, <2>1, HwTopHalf
  <1>6. CASE Stops \/ MapCalls \/ identity_map \/ mmu_entry_descend \/ map_top_half
             \/ mmu_new_page_table_return
    <2>1. mem' = mem /\ satp' = satp
      BY <1>6 DEF Stops, mmu_new_page_table_panic, mmu_entry_panic, mmu_entry_wild, fetch_fault,
                  Interrupt, Stopped, alloc_page_panic, Trap, MapCalls, mmu_map, identity_map,
                  IdentityMapPage, mmu_entry_descend, map_top_half, mmu_new_page_table_return,
                  mmuVars, allocVars
    <2> QED BY <1>0, <2>1, HwTablesAlone
  <1> QED BY <1>1, <1>2, <1>3, <1>4, <1>5, <1>6
          DEF OtherStep, StartCall, InnerStep, Stops, MapCalls

\* Every step with the cache is a step of the page tables.
LEMMA TlbStep ==
    ASSUME [TlbNext]_tlbVars
    PROVE  [MmuNext]_mmuVars
  BY DEF TlbNext, TlbCallStep, map_unfenced, set_mmu_fenced, tlb_fill, MmuNext, MmuCall, CallStep,
         tlbVars

\* The page tables with the cache are the page tables.
THEOREM TlbRefinesMmu == TlbSpec => MmuSafeSpec
  <1>1. TlbInit => MmuInit
    BY DEF TlbInit
  <1> QED BY <1>1, TlbStep, PTL DEF TlbSpec, MmuSafeSpec

\* Every step keeps the cache right.
THEOREM CacheInductive ==
    ASSUME CallersInWindow
    PROVE  MInv /\ CacheInv /\ [TlbNext]_tlbVars => CacheInv'
  <1> SUFFICES ASSUME MInv, CacheInv, [TlbNext]_tlbVars PROVE CacheInv'
    OBVIOUS
  <1>1. [MmuNext]_mmuVars /\ Active'
    BY TlbStep, ActiveKept DEF CacheInv
  <1>2. ASSUME NEW v \in CacheVirt, satp # NULL,
               OtherStep \/ (mmu_map_store /\ (mmu # satp \/ v # arg.virt))
        PROVE  HwWalk(get_mmu, v)' = HwWalk(get_mmu, v)
    <2>1. PICK root : root = satp
      OBVIOUS
    <2>2. v \in VirtPage
      BY CacheAssumption
    <2>3. satp' = root /\ HwWalk(root, v)' = HwWalk(root, v)
      BY <1>2, <2>1, <2>2, ActiveTranslates DEF CacheInv
    <2>4. HwWalk(get_mmu, v) = HwWalk(root, v)
      BY <2>1 DEF get_mmu
    <2>5. HwWalk(get_mmu, v)' = HwWalk(root, v)'
      BY <2>3 DEF get_mmu, HwWalk
    <2> QED BY <2>3, <2>4, <2>5
  <1>3. OtherStep \/ mmu_map_store => satp' = satp
    BY DEF OtherStep, StartCall, InnerStep, AllocatorCall,
       init_page_alloc, alloc_page, alloc_page_panic, free_page, mmu_new_page_table,
       mmu_new_page_table_panic, mmu_map, mmu_entry_alloc, EntryAlloc, mmu_entry_panic,
       mmu_entry_link, EntryLink, mmu_entry_descend, mmu_entry_wild, identity_map,
       IdentityMapPage, map_top_half, map_top_half_entry, StoreTopHalf,
       mmu_new_page_table_return, fetch_fault, mmu_map_store, MapStore, Interrupt, Stopped,
       Trap, mmuVars, allocVars
  <1>4. ASSUME UNCHANGED tlb,
               \/ OtherStep /\ unfenced' = unfenced
               \/ /\ mmu_map_store
                  /\ unfenced' = IF mmu = get_mmu THEN unfenced \union {arg.virt} ELSE unfenced
        PROVE  CacheInv'
    <2>1. satp' = satp /\ tlb' = tlb /\ unfenced \subseteq unfenced'
      BY <1>3, <1>4
    <2>2. CASE satp = NULL
      BY <1>1, <2>1, <2>2 DEF CacheInv, CacheAgrees
    <2>3. CASE satp # NULL
      <3>1. ASSUME NEW v \in CacheVirt \ unfenced', NEW t \in tlb[v]
            PROVE  t = HwWalk(get_mmu, v)'
        <4>1. OtherStep \/ (mmu_map_store /\ (mmu # satp \/ v # arg.virt))
          BY <1>4, <3>1 DEF get_mmu
        <4>2. HwWalk(get_mmu, v)' = HwWalk(get_mmu, v)
          BY <1>2, <2>3, <3>1, <4>1
        <4>3. t = HwWalk(get_mmu, v)
          BY <2>1, <3>1 DEF CacheInv, CacheAgrees
        <4> QED BY <4>2, <4>3
      <3> QED BY <1>1, <2>1, <2>3, <3>1 DEF CacheInv, CacheAgrees
    <2> QED BY <2>2, <2>3
  <1>5. CASE set_mmu_fenced
    <2>1. tlb' = [v \in CacheVirt |-> {}]
      BY <1>5 DEF set_mmu_fenced, sfence_vma
    <2> QED BY <1>1, <2>1 DEF CacheInv, CacheAgrees
  <1>6. ASSUME NEW w \in CacheVirt, tlb_fill(w) PROVE CacheInv'
    <2>1. PICK outcome : outcome = HwWalk(get_mmu, w)
      OBVIOUS
    <2>2. /\ satp # NULL /\ UNCHANGED mmuVars /\ unfenced' = unfenced
          /\ tlb' = [tlb EXCEPT ![w] = {outcome}]
      BY <1>6, <2>1 DEF tlb_fill, mmu_enabled
    <2>3. satp' = satp /\ mem' = mem
      BY <2>2 DEF mmuVars, allocVars
    <2>4. /\ tlb' = [v \in CacheVirt |-> tlb'[v]]
          /\ \A v \in CacheVirt : tlb'[v] = IF v = w THEN {outcome} ELSE tlb[v]
      BY <2>2 DEF CacheInv
    <2>5. ASSUME NEW v \in CacheVirt \ unfenced, NEW t \in tlb'[v]
          PROVE  t = HwWalk(get_mmu, v)'
      <3>1. t = HwWalk(get_mmu, v)
        BY <2>1, <2>4, <2>5 DEF CacheInv, CacheAgrees
      <3>2. HwWalk(get_mmu, v)' = HwWalk(get_mmu, v)
        BY <2>3 DEF get_mmu, HwWalk
      <3> QED BY <3>1, <3>2
    <2> QED BY <1>1, <2>2, <2>3, <2>4, <2>5 DEF CacheInv, CacheAgrees
  <1>7. CASE map_unfenced
    BY <1>4, <1>7 DEF map_unfenced
  <1>8. CASE OtherStep /\ UNCHANGED cacheVars
    BY <1>4, <1>8 DEF cacheVars
  <1> QED BY <1>5, <1>6, <1>7, <1>8 DEF TlbNext, TlbCallStep, OtherStep, tlbVars, cacheVars

\* What the hart has cached is what the active table says, except for the pages
\* mapped in it since set_mmu (sfence.vma in set_mmu, none in mmu_map).
THEOREM CacheIsCurrent ==
    ASSUME CallersInWindow
    PROVE  TlbSpec => []CacheAgrees
  <1>1. TlbInit => CacheInv
    BY DEF TlbInit, MmuInit, AllocInit, CacheInv, CacheAgrees, Active, Building, InMap
  <1>2. CacheInv => CacheAgrees
    BY DEF CacheInv
  <1>3. TlbSpec => []MInv
    BY TlbRefinesMmu, MmuInvariance, PTL
  <1> QED BY <1>1, <1>2, <1>3, CacheInductive, PTL DEF TlbSpec
=============================================================================
