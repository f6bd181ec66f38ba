------------------------------ MODULE PagePool ------------------------------
(***************************************************************************)
(* What the page allocator promises its callers, without lists, pointers   *)
(* or memory: a pool of pages of which each is either free or in use.      *)
(* PageAlloc is shown to implement this specification.                     *)
(***************************************************************************)
CONSTANT Page          \* every physical page

VARIABLES state,       \* "off" before initialisation, "on", "dead" or "trapped"
          free,        \* pages that can still be handed out
          used         \* pages handed out and not yet given back

poolVars == <<state, free, used>>

PoolInit == state = "off" /\ free = {} /\ used = {}

\* The pool is given the pages it manages.
Supply(S) == /\ state = "off"
             /\ state' = "on"
             /\ free' = S
             /\ UNCHANGED used

\* A caller obtains a page nobody else has.
Take(p) == /\ state = "on"
           /\ p \in free
           /\ free' = free \ {p}
           /\ used' = used \union {p}
           /\ UNCHANGED state

\* A caller gives back a page it had.
Return(p) == /\ state = "on"
             /\ p \in used
             /\ free' = free \union {p}
             /\ used' = used \ {p}
             /\ UNCHANGED state

\* The pool refuses a page: only when nothing is free.
Exhaust == /\ state = "on" /\ free = {}
           /\ state' = "dead"
           /\ UNCHANGED <<free, used>>

\* A trap stops the kernel.
Trapped == /\ state \in {"off", "on"}
           /\ state' = "trapped"
           /\ UNCHANGED <<free, used>>

PoolNext == \/ \E S \in (SUBSET Page) \ {{}} : Supply(S)
            \/ \E p \in Page : Take(p) \/ Return(p)
            \/ Exhaust
            \/ Trapped

PoolSpec == PoolInit /\ [][PoolNext]_poolVars
=============================================================================
