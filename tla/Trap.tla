-------------------------------- MODULE Trap --------------------------------
(***************************************************************************)
(* Trap entry and exit (src/asm/trap.s) for the frame boot_trap (kernel.c, *)
(* trap_t of interrupts.h): what happens between an interrupt or exception *)
(* and interrupt_handler (interrupts.c), and on the way back.  A step is   *)
(* one commented block of handle_trap; interrupts are off in all of it.    *)
(*                                                                         *)
(* interrupt_handler panics.  trap.s is written for a handler that may     *)
(* also return the frame to resume; such a handler needs an                *)
(* interrupt_stack that the interrupted code does not run on.              *)
(***************************************************************************)
EXTENDS Integers

CONSTANTS
    Val,        \* the values of registers
    FRAME,      \* the address of boot_trap
    STACK_TOP,  \* the top of the only stack, on which the kernel runs
    OTHER_TOP,  \* the top of another stack
    Cause,      \* values of scause
    Files,      \* the registers of the kernel's code where a trap can hit it
    Pcs         \* addresses of the kernel's code and of the handler's

\* The registers trap.s names, and one for each of the other classes.
Reg == {"ra", "sp", "gp", "fp", "s", "a0", "a1", "t", "t5", "t6"}

\* What a C function may change without restoring it.
CallerSaved == {"ra", "a0", "a1", "t", "t5", "t6"}

ASSUME TrapAssumption ==
    /\ {0, FRAME, STACK_TOP, OTHER_TOP} \subseteq Val /\ STACK_TOP # OTHER_TOP
    /\ Cause \subseteq Val /\ Pcs \subseteq Val
    /\ Files \subseteq [Reg -> Val]
    /\ \A f \in Files : f["sp"] # OTHER_TOP

VARIABLES
    mode,      \* the code that is next: "code", a block of trap.s, "handler", "halt"
    x,         \* the registers
    pc,        \* where the kernel's code, or the handler's, is
    sepc, scause, sscratch, sie, spie,
    frame,     \* boot_trap: [xs, pc, interrupt_stack]
    frames,    \* whose frames lie at the top of each stack
    handler,   \* "panics" (interrupts.c) or "returns"
    seen       \* history: the state of what was interrupted last

csrs == <<sepc, scause, sscratch, sie, spie>>
trapVars == <<mode, x, pc, csrs, frame, frames, handler, seen>>

\* The stack that an address is on.
Stack == {"boot", "other"}
StackOf(addr) == IF addr = OTHER_TOP THEN "other" ELSE "boot"

\* boot.s: sscratch is set to boot_trap, of which kernel.c sets interrupt_stack
\* and nothing else; interrupts are enabled.
TrapInit ==
    /\ mode = "code" /\ x \in Files /\ pc \in Pcs
    /\ sepc \in Pcs /\ scause \in Cause
    /\ sscratch = FRAME /\ sie = TRUE /\ spie = TRUE
    /\ handler \in {"panics", "returns"}
    /\ frame = [xs |-> [r \in Reg |-> 0], pc |-> 0,
                interrupt_stack |-> IF handler = "panics" THEN STACK_TOP ELSE OTHER_TOP]
    /\ frames = [s \in Stack |-> "code"]
    /\ seen = [x |-> x, pc |-> pc, sie |-> sie]

----------------------------------------------------------------------------
(* The kernel's code and the hardware *)

\* The kernel goes on: other registers, another place.
work ==
    /\ mode = "code"
    /\ x' \in Files /\ pc' \in Pcs
    /\ UNCHANGED <<mode, csrs, frame, frames, handler, seen>>

\* What the hart does on a trap.
TakeTrap ==
    /\ sepc' = pc /\ scause' \in Cause
    /\ spie' = sie /\ sie' = FALSE
    /\ mode' = "save_registers"
    /\ seen' = [x |-> x, pc |-> pc, sie |-> sie]
    /\ UNCHANGED <<x, pc, sscratch, frame, frames, handler>>

\* An interrupt, or an exception, in the kernel's code.
interrupt == mode = "code" /\ sie /\ TakeTrap

\* An exception in interrupt_handler: boot_trap is filled a second time.
nested_exception == mode = "handler" /\ handler = "panics" /\ TakeTrap

----------------------------------------------------------------------------
(* handle_trap *)

\* csrrw t6, sscratch, t6 and the stores of x1 to x30.
save_registers ==
    /\ mode = "save_registers" /\ mode' = "save_t6"
    /\ x' = [x EXCEPT !["t6"] = sscratch]
    /\ sscratch' = x["t6"]
    /\ frame' = [frame EXCEPT !.xs = [r \in Reg |-> IF r = "t6" THEN @[r] ELSE x[r]]]
    /\ UNCHANGED <<pc, sepc, scause, sie, spie, frames, handler, seen>>

\* Mutant: t6 is stored as it is, after the exchange.
save_t6_exchanged ==
    /\ mode = "save_t6" /\ mode' = "save_pc"
    /\ frame' = [frame EXCEPT !.xs["t6"] = x["t6"]]
    /\ sscratch' = x["t6"]
    /\ UNCHANGED <<x, pc, sepc, scause, sie, spie, frames, handler, seen>>

\* t6 is brought back from sscratch through t5.
save_t6 ==
    /\ mode = "save_t6" /\ mode' = "save_pc"
    /\ x' = [x EXCEPT !["t5"] = sscratch]
    /\ frame' = [frame EXCEPT !.xs["t6"] = sscratch]
    /\ sscratch' = x["t6"]
    /\ UNCHANGED <<pc, sepc, scause, sie, spie, frames, handler, seen>>

save_pc ==
    /\ mode = "save_pc" /\ mode' = "call_handler"
    /\ x' = [x EXCEPT !["t5"] = sepc]
    /\ frame' = [frame EXCEPT !.pc = sepc]
    /\ UNCHANGED <<pc, csrs, frames, handler, seen>>

\* The stack is switched, and interrupt_handler(scause, t6) is called; its frames
\* overwrite what is at the top of that stack.
call_handler ==
    /\ mode = "call_handler" /\ mode' = "handler"
    /\ x' = [x EXCEPT !["sp"] = frame.interrupt_stack, !["fp"] = frame.interrupt_stack,
                      !["a0"] = scause, !["a1"] = x["t6"]]
    /\ pc' \in Pcs
    /\ frames' = [frames EXCEPT ![StackOf(frame.interrupt_stack)] = "handler"]
    /\ UNCHANGED <<csrs, frame, handler, seen>>

\* The handler returns the frame it was given, in a0.
HandlerReturns ==
    /\ mode = "handler" /\ mode' = "set_sscratch"
    /\ \E junk \in Val :
         x' = [r \in Reg |-> IF r = "a0" THEN x["a1"]
                             ELSE IF r \in CallerSaved THEN junk ELSE x[r]]
    /\ UNCHANGED <<pc, csrs, frame, frames, handler, seen>>

\* Mutant: the handler logs the interrupt and returns.
handler_logs == handler = "panics" /\ HandlerReturns

\* interrupts.c: panic, which loops with interrupts off.
handler_panics ==
    /\ handler = "panics"
    /\ mode = "handler" /\ mode' = "halt"
    /\ UNCHANGED <<x, pc, csrs, frame, frames, handler, seen>>

handler_returns == handler = "returns" /\ HandlerReturns

set_sscratch ==
    /\ mode = "set_sscratch" /\ mode' = "jump_out_of_trap"
    /\ sscratch' = x["a0"]
    /\ UNCHANGED <<x, pc, sepc, scause, sie, spie, frame, frames, handler, seen>>

\* Revert pc.  t6 is the frame: there is only boot_trap.
jump_out_of_trap ==
    /\ mode = "jump_out_of_trap" /\ mode' = "revert_registers"
    /\ x' = [x EXCEPT !["t6"] = x["a0"], !["t5"] = frame.pc]
    /\ sepc' = frame.pc
    /\ UNCHANGED <<pc, scause, sscratch, sie, spie, frame, frames, handler, seen>>

\* The loads; t6, their base, is loaded last.
revert_registers ==
    /\ mode = "revert_registers" /\ mode' = "sret"
    /\ x' = frame.xs
    /\ UNCHANGED <<pc, csrs, frame, frames, handler, seen>>

sret ==
    /\ mode = "sret" /\ mode' = "code"
    /\ pc' = sepc /\ sie' = spie /\ spie' = TRUE
    /\ UNCHANGED <<x, sepc, scause, sscratch, frame, frames, handler, seen>>

\* while(1) in _panic.
halted == mode = "halt" /\ UNCHANGED trapVars

TrapCode ==
    \/ save_registers \/ save_t6 \/ save_pc \/ call_handler
    \/ handler_panics \/ handler_returns
    \/ set_sscratch \/ jump_out_of_trap \/ revert_registers \/ sret

TrapNext == work \/ interrupt \/ nested_exception \/ TrapCode \/ halted

TrapSpec == TrapInit /\ [][TrapNext]_trapVars

----------------------------------------------------------------------------
(* Properties *)

\* The code that a trap interrupted goes on with the registers, the pc and the
\* interrupt enable it had, and sscratch leads the next trap to boot_trap again
\* (handle_trap and jump_out_of_trap).
ResumesExactly ==
    [][mode = "sret" => /\ x' = seen.x /\ pc' = seen.pc /\ sie' = seen.sie
                        /\ sscratch' = FRAME]_trapVars

\* The kernel's code never runs after its stack was overwritten: handle_trap
\* switches to stack_top, which is also the kernel's own stack, and only the
\* panic in interrupt_handler keeps the interrupted code from going on.
RunsOnOwnFrames == mode = "code" => frames[StackOf(x["sp"])] = "code"

\* The frame that the handler is given is boot_trap and holds the registers and
\* the pc of what was interrupted last: the panic reports that place (trap->pc),
\* after a fault of the handler itself too.
FrameIsInterrupted ==
    mode = "handler" => /\ x["a1"] = FRAME
                        /\ frame.xs = seen.x /\ frame.pc = seen.pc
=============================================================================
