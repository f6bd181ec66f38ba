----------------------------- MODULE TrapProofs -----------------------------
(***************************************************************************)
(* trap.s for every set of values, register files and addresses: the       *)
(* interrupted code is resumed exactly, and never on a stack that the      *)
(* handler has overwritten.                                                *)
(***************************************************************************)
EXTENDS Trap, TLAPS

Modes == {"code", "save_registers", "save_t6", "save_pc", "call_handler", "handler",
          "set_sscratch", "jump_out_of_trap", "revert_registers", "sret", "halt"}

TrapTypeOK ==
    /\ mode \in Modes
    /\ x \in [Reg -> Val] /\ pc \in Val
    /\ sepc \in Val /\ scause \in Val /\ sscratch \in Val
    /\ sie \in BOOLEAN /\ spie \in BOOLEAN
    /\ frame \in [xs : [Reg -> Val], pc : Val, interrupt_stack : Val]
    /\ frames \in [Stack -> {"code", "handler"}]
    /\ handler \in {"panics", "returns"}
    /\ seen \in [x : [Reg -> Val], pc : Val, sie : BOOLEAN]

\* Where sscratch points: at boot_trap, except while it holds t6.
Scratch == sscratch = IF mode = "save_t6" THEN seen.x["t6"] ELSE FRAME

\* Where a pointer to boot_trap is while trap.s needs it.
Pointer ==
    /\ mode \in {"save_t6", "save_pc", "call_handler"} => x["t6"] = FRAME
    /\ mode = "handler" => x["a1"] = FRAME
    /\ mode \in {"set_sscratch", "jump_out_of_trap"} => x["a0"] = FRAME

\* What of the interrupted state has been saved, and is still in place.
Saved ==
    /\ mode = "save_registers" => x = seen.x
    /\ mode = "save_t6" => \A r \in Reg \ {"t6"} : frame.xs[r] = seen.x[r]
    /\ mode \in {"save_pc", "call_handler", "handler", "set_sscratch",
                 "jump_out_of_trap", "revert_registers"} => frame.xs = seen.x
    /\ mode \in {"save_registers", "save_t6", "save_pc"} => sepc = seen.pc
    /\ mode \in {"call_handler", "handler", "set_sscratch", "jump_out_of_trap"}
         => frame.pc = seen.pc
    /\ mode \in {"revert_registers", "sret"} => sepc = seen.pc
    /\ mode = "sret" => x = seen.x
    /\ mode \notin {"code", "halt"} => spie = seen.sie

\* The stacks: a handler that returns has its own, the other never returns.
Apart ==
    /\ mode = "code" => x["sp"] # OTHER_TOP /\ frames["boot"] = "code"
    /\ handler = "returns" =>
         /\ frame.interrupt_stack = OTHER_TOP /\ frames["boot"] = "code"
         /\ mode # "code" => seen.x["sp"] # OTHER_TOP
    /\ handler = "panics" =>
         mode \notin {"set_sscratch", "jump_out_of_trap", "revert_registers", "sret"}

TrapInv == TrapTypeOK /\ Scratch /\ Pointer /\ Saved /\ Apart

\* The invariant holds when boot.s has set sscratch and enabled interrupts.
LEMMA TrapInvInit == TrapInit => TrapInv
  BY TrapAssumption
  DEF TrapInit, TrapInv, TrapTypeOK, Modes, Scratch, Pointer, Saved, Apart, Stack

\* Every block of trap.s, the handler and the hardware keep it.
LEMMA TrapInvStep == TrapInv /\ [TrapNext]_trapVars => TrapInv'
  <1> SUFFICES ASSUME TrapInv, [TrapNext]_trapVars PROVE TrapInv'
    OBVIOUS
  <1> USE TrapAssumption
      DEF TrapInv, TrapTypeOK, Modes, Scratch, Pointer, Saved, Apart, Stack, csrs
  <1>1. CASE work
    BY <1>1 DEF work
  <1>2. CASE interrupt
    BY <1>2 DEF interrupt, TakeTrap
  <1>3. CASE nested_exception
    BY <1>3 DEF nested_exception, TakeTrap
  <1>4. CASE save_registers
    BY <1>4 DEF save_registers, Reg
  <1>5. CASE save_t6
    BY <1>5 DEF save_t6, Reg
  <1>6. CASE save_pc
    BY <1>6 DEF save_pc, Reg
  <1>7. CASE call_handler
    BY <1>7 DEF call_handler, StackOf, Reg
  <1>8. CASE handler_panics
    BY <1>8 DEF handler_panics
  <1>9. CASE handler_returns
    BY <1>9 DEF handler_returns, HandlerReturns, Reg, CallerSaved
  <1>10. CASE set_sscratch
    BY <1>10 DEF set_sscratch, Reg
  <1>11. CASE jump_out_of_trap
    BY <1>11 DEF jump_out_of_trap, Reg
  <1>12. CASE revert_registers
    BY <1>12 DEF revert_registers
  <1>13. CASE sret
    BY <1>13 DEF sret
  <1>14. CASE halted \/ UNCHANGED trapVars
    BY <1>14 DEF halted, trapVars
  <1> QED
    BY <1>1, <1>2, <1>3, <1>4, <1>5, <1>6, <1>7, <1>8, <1>9, <1>10, <1>11,
       <1>12, <1>13, <1>14 DEF TrapNext, TrapCode

\* The invariant holds in every reachable state of trap entry and exit.
THEOREM TrapInvariant == TrapSpec => []TrapInv
  BY TrapInvInit, TrapInvStep, PTL DEF TrapSpec

\* jump_out_of_trap and sret bring back exactly what handle_trap saved.
THEOREM ResumesExactlyTheorem == TrapSpec => ResumesExactly
  <1>1. TrapInv /\ [TrapNext]_trapVars
          => [mode = "sret" => /\ x' = seen.x /\ pc' = seen.pc /\ sie' = seen.sie
                               /\ sscratch' = FRAME]_trapVars
    <2> SUFFICES ASSUME TrapInv, TrapNext, mode = "sret"
                 PROVE  /\ x' = seen.x /\ pc' = seen.pc /\ sie' = seen.sie
                        /\ sscratch' = FRAME
      OBVIOUS
    <2>1. sret
      BY DEF TrapNext, TrapCode, work, interrupt, nested_exception, halted,
             save_registers, save_t6, save_pc, call_handler, handler_panics,
             handler_returns, HandlerReturns, set_sscratch, jump_out_of_trap,
             revert_registers
    <2> QED
      BY <2>1 DEF sret, TrapInv, Scratch, Saved
  <1> QED
    BY <1>1, TrapInvariant, PTL DEF TrapSpec, ResumesExactly

\* The kernel's code never runs on a stack that interrupt_handler overwrote.
THEOREM RunsOnOwnFramesTheorem == TrapSpec => []RunsOnOwnFrames
  <1>1. TrapInv => RunsOnOwnFrames
    BY DEF TrapInv, Apart, RunsOnOwnFrames, StackOf
  <1> QED
    BY <1>1, TrapInvariant, PTL

\* The handler is given boot_trap, filled from what was interrupted last.
THEOREM FrameIsInterruptedTheorem == TrapSpec => []FrameIsInterrupted
  <1>1. TrapInv => FrameIsInterrupted
    BY DEF TrapInv, Pointer, Saved, FrameIsInterrupted
  <1> QED
    BY <1>1, TrapInvariant, PTL
=============================================================================
