-------------------------------- MODULE Tlb --------------------------------
(***************************************************************************)
(* The page tables of Mmu with the hart's address-translation cache, which *)
(* may keep the outcome of any walk, a fault included, until an            *)
(* sfence.vma.  set_mmu executes one; mmu_map does not.                    *)
(***************************************************************************)
EXTENDS Mmu

CONSTANT CacheVirt  \* the virtual pages whose caching is followed (a bound)

ASSUME CacheAssumption == CacheVirt \subseteq VirtPage

VARIABLES
    tlb,      \* for each virtual page the set of outcomes cached: none or one
    unfenced  \* history: pages mapped in the active table since the last fence

cacheVars == <<tlb, unfenced>>
tlbVars == <<mmuVars, tlb, unfenced>>

TlbInit == MmuInit /\ tlb = [v \in CacheVirt |-> {}] /\ unfenced = {}

\* The hart may walk the active table for any page, at any time.
tlb_fill(v) ==
    /\ status = "running" /\ mmu_enabled
    /\ tlb' = [tlb EXCEPT ![v] = {HwWalk(get_mmu, v)}]
    /\ UNCHANGED <<mmuVars, unfenced>>

\* Mutant: the fence is left out.
no_sfence_vma == UNCHANGED tlb

sfence_vma == tlb' = [v \in CacheVirt |-> {}]

set_mmu_fenced ==
    /\ \E root \in ready : activate(root)
    /\ sfence_vma
    /\ unfenced' = {}

\* mmu_map returns without a fence.
map_unfenced ==
    /\ mmu_map_store
    /\ unfenced' = IF mmu = get_mmu THEN unfenced \union {arg.virt} ELSE unfenced
    /\ UNCHANGED tlb

\* The other steps of Mmu do not touch the cache.
TlbCallStep == (InnerStep /\ UNCHANGED cacheVars) \/ map_unfenced

TlbNext ==
    \/ AllocatorCall /\ UNCHANGED cacheVars
    \/ StartCall /\ UNCHANGED cacheVars
    \/ TlbCallStep \/ set_mmu_fenced
    \/ \E v \in CacheVirt : tlb_fill(v)
    \/ Interrupt /\ UNCHANGED cacheVars
    \/ Stopped /\ UNCHANGED cacheVars

\* A call that has begun runs on: there is one hart and nothing preempts it.
TlbSpec == TlbInit /\ [][TlbNext]_tlbVars /\ WF_tlbVars(TlbCallStep)

----------------------------------------------------------------------------
(* Properties *)

\* What the hart has cached is what the active table says, except for pages
\* that mmu_map has mapped in it since the last set_mmu: only they need a
\* fence before they are used, and set_mmu is enough of one.
CacheAgrees ==
    \A v \in CacheVirt \ unfenced : \A t \in tlb[v] : t = HwWalk(get_mmu, v)
=============================================================================
