------------------------------ MODULE Console ------------------------------
(***************************************************************************)
(* The console (src/console.c) over the SBI debug console (opensbi.s,      *)
(* opensbi.h), with the interrupt handler that prints through it.  The     *)
(* kernel makes the calls of a world one after the other; a call becomes   *)
(* the SBI requests it makes, and one request is one step.  The firmware   *)
(* may refuse a request, or take only a part of a string; the software     *)
(* interrupt may come between any two requests.                            *)
(***************************************************************************)
EXTENDS Nanoprintf

CONSTANTS
    Worlds,     \* what is printed, and how many interrupts and short writes occur
    FILE, FUNC, \* pointers to __FILE__ and __func__ (one symbol each)
    LINE,       \* __LINE__
    Report      \* the arguments of panic in interrupt_handler

\* An int holds a byte and counts the digits of a long.
ASSUME WidthAssumption == INT_BITS >= 8 /\ LONG_BITS < 2^INT_BITS

VARIABLES
    calls,   \* the calls still to be made
    row,     \* the lines of the current khexdump that were begun
    call,    \* the last call that was begun
    todo,    \* the SBI requests that the call has still to make
    at,      \* "run", "spin" (while (ret.error != SBI_SUCCESS)) or "halt" (while(1))
    ret,     \* the error of the last SBI request
    sie,     \* are interrupts on
    irqs, shorts,  \* interrupts and short writes that may still come
    screen,  \* what the console shows
    said,    \* what the calls begun so far should have made it show
    lost     \* has part of a string been dropped

consoleVars == <<calls, row, call, todo, at, ret, sie, irqs, shorts, screen, said, lost>>

Errors == {"SBI_SUCCESS", "SBI_ERR_FAILED"}

ConsoleInit ==
    \E w \in Worlds :
      /\ calls = w.calls /\ irqs = w.irqs /\ shorts = w.shorts
      /\ call = [op |-> "none"] /\ row = 0
      /\ todo = <<>> /\ at = "run" /\ ret = "SBI_SUCCESS" /\ sie = TRUE
      /\ screen = <<>> /\ said = <<>> /\ lost = FALSE

----------------------------------------------------------------------------
(* The requests that the functions make *)

\* One sbi_debug_console_write_byte each, and one sbi_debug_console_write.
kputc_npf(text) == [k \in DOMAIN text |-> [byte |-> TRUE, text |-> <<text[k]>>]]
knputs(s) == <<[byte |-> FALSE, text |-> s]>>

\* The characters in front of the terminating 0.
strlen(s) == (CHOOSE k \in DOMAIN s : s[k] = 0 /\ \A m \in 1 .. k - 1 : s[m] # 0) - 1
kputs(s) == knputs(SubSeq(s, 1, strlen(s)))

\* The text that requests carry.
TextOf(reqs) == FlattenSeq([k \in DOMAIN reqs |-> reqs[k].text])

kprintf(items, args) == kputc_npf(npf_vpprintf(Spell(items), args))

Dir(conv) == [flags |-> <<>>, long |-> FALSE, conv |-> conv]
Lit(c) == [lit |-> c]
PANIC == 300  \* the text "kernel panic! "

\* "%s:%i(%s) " and "%s:%i(%s) kernel panic! "
log_where == <<Dir(Ch.s), Lit(58), Dir(Ch.i), Lit(40), Dir(Ch.s), Lit(41), Lit(Ch.SP)>>
panic_where == Append(log_where, Lit(PANIC))
where_args == <<FILE, LINE, FUNC>>

_log(items, args) ==
    kprintf(log_where, where_args) \o kprintf(items, args) \o kputc_npf(<<Ch.LF>>)

\* Mutant: the first part is put together and written as one string.
_panic_string(items, args) ==
    knputs(TextOf(kprintf(panic_where, where_args)))
      \o kprintf(items, args) \o kputc_npf(<<Ch.LF>>)

_panic(items, args) ==
    kprintf(panic_where, where_args) \o kprintf(items, args) \o kputc_npf(<<Ch.LF>>)

kputx(data) ==
    kputc_npf([k \in DOMAIN data |-> IF 32 <= data[k] /\ data[k] <= 127 THEN data[k] ELSE Ch.DOT])

\* The number of hexadecimal digits of n, 0 for 0.
_log16(n) ==
    LET log[m \in Nat] == IF m = 0 THEN 0 ELSE log[m \div 16] + 1
    IN  log[n]

\* num_zeros_two, an unsigned int.
hex_zeros(size, i) == (_log16(size) - _log16(i) - 1) % 2^INT_BITS

\* "%llx    "
hex_offset == <<Lit(Ch.PCT), Lit(Ch.l), Lit(Ch.l), Lit(Ch.x), Lit(Ch.SP), Lit(Ch.SP), Lit(Ch.SP), Lit(Ch.SP)>>

\* Line i of a hexdump.
khexdump_line(data, i) ==
    LET size == Len(data)
        hex(index) ==
            IF index >= size THEN kputs(<<Ch.SP, Ch.SP, Ch.SP, 0>>)
            ELSE (IF data[index + 1] < 16 THEN kprintf(<<Dir(Ch.x)>>, <<0>>) ELSE <<>>)
                 \o kprintf(<<Dir(Ch.x), Lit(Ch.SP)>>, <<data[index + 1]>>)
        char(index) ==
            IF index < size /\ 32 <= data[index + 1] /\ data[index + 1] < 127
            THEN data[index + 1] ELSE Ch.DOT
    IN  FlattenSeq([j \in 1 .. hex_zeros(size, i) |-> kprintf(<<Dir(Ch.x)>>, <<0>>)])
        \o kprintf(hex_offset, <<i * 16>>)
        \o FlattenSeq([j \in 1 .. 16 |-> hex(i * 16 + j - 1)])
        \o kputs(<<Ch.SP, Ch.SP, Ch.SP, Ch.SP, Ch.BAR, 0>>)
        \o kputc_npf([j \in 1 .. 16 |-> char(i * 16 + j - 1)])
        \o kputs(<<Ch.BAR, Ch.LF, 0>>)

----------------------------------------------------------------------------
(* The calls *)

\* What a call should make the console show.
Expected(c) ==
    CASE c.op = "kputc" -> <<c.c>>
      [] c.op = "kputs" -> Front(c.s)
      [] c.op = "kputx" -> [k \in DOMAIN c.data |->
                              IF c.data[k] \in 32 .. 126 THEN c.data[k] ELSE Ch.DOT]
      [] c.op = "kprintf" -> CText(c.items, c.args)
      [] c.op = "log" -> CText(log_where \o c.items, where_args \o c.args) \o <<Ch.LF>>
      [] c.op = "panic" -> CText(panic_where \o c.items, where_args \o c.args) \o <<Ch.LF>>

\* What khexdump should show on line i: a column as wide as the size, two digits
\* for each byte, and the characters.  Of the column, only the zeros in front are
\* said; the offset stands as the directive that is its text ("%llx    ", see
\* HexdumpShowsOffset).
HexText(data, i) ==
    LET Hex(n) == Numeral(n, 16, FALSE)
        byte(k) == IF k > Len(data) THEN <<Ch.SP, Ch.SP, Ch.SP>>
                   ELSE Hex(data[k] \div 16) \o Hex(data[k] % 16) \o <<Ch.SP>>
        char(k) == IF k <= Len(data) /\ data[k] \in 32 .. 126 THEN data[k] ELSE Ch.DOT
    IN  [j \in 1 .. Len(Hex(Len(data))) - Len(Hex(i * 16)) |-> Ch.ZERO]
        \o <<Ch.PCT, Ch.l, Ch.l, Ch.x, Ch.SP, Ch.SP, Ch.SP, Ch.SP>>
        \o FlattenSeq([j \in 1 .. 16 |-> byte(i * 16 + j)])
        \o <<Ch.SP, Ch.SP, Ch.SP, Ch.SP, Ch.BAR>>
        \o [j \in 1 .. 16 |-> char(i * 16 + j)]
        \o <<Ch.BAR, Ch.LF>>

\* The kernel is between two calls.  _panic does not return.
Returned == at = "run" /\ todo = <<>> /\ call.op # "panic"

\* The call c is begun: it will make the requests reqs.
Begin(c, reqs, text) ==
    /\ call' = c /\ todo' = reqs
    /\ said' = said \o text
    /\ UNCHANGED <<at, ret, sie, irqs, shorts, screen, lost>>

\* A call of the function op.
Call(op, reqs(_)) ==
    /\ Returned /\ calls # <<>> /\ Head(calls).op = op
    /\ Begin(Head(calls), reqs(Head(calls)), Expected(Head(calls)))
    /\ calls' = Tail(calls) /\ UNCHANGED row

call_kputc == LET reqs(c) == kputc_npf(<<c.c>>) IN Call("kputc", reqs)
call_kputs == LET reqs(c) == kputs(c.s) IN Call("kputs", reqs)
call_kputx == LET reqs(c) == kputx(c.data) IN Call("kputx", reqs)
call_kprintf == LET reqs(c) == kprintf(c.items, c.args) IN Call("kprintf", reqs)
call_log == LET reqs(c) == _log(c.items, c.args) IN Call("log", reqs)
call_panic == LET reqs(c) == _panic(c.items, c.args) IN Call("panic", reqs)

\* The loop of khexdump over the lines.
call_khexdump ==
    /\ Returned /\ calls # <<>> /\ Head(calls).op = "khexdump"
    /\ LET line == khexdump_line(Head(calls).data, row)
       IN  IF row < (Len(Head(calls).data) + 15) \div 16
           THEN Begin(Head(calls), line, HexText(Head(calls).data, row)) /\ row' = row + 1 /\ UNCHANGED calls
           ELSE /\ calls' = Tail(calls) /\ row' = 0
                /\ UNCHANGED <<call, todo, at, ret, sie, irqs, shorts, screen, said, lost>>

\* while(1) at the end of _panic.
panic_halt ==
    /\ at = "run" /\ todo = <<>> /\ call.op = "panic"
    /\ at' = "halt"
    /\ UNCHANGED <<calls, row, call, todo, ret, sie, irqs, shorts, screen, said, lost>>

----------------------------------------------------------------------------
(* The SBI requests and what kputc and knputs do with their result *)

\* Mutant: the loop waits for an error.
spins_on_success(error) == error = "SBI_SUCCESS"

\* while (ret.error != SBI_SUCCESS);
spins(error) == error # "SBI_SUCCESS"

\* The result of a request that took n characters of its text.  ret.value is
\* ignored: what was not taken is not written again.
sbi_result(error, n) ==
    /\ ret' = error
    /\ screen' = screen \o SubSeq(Head(todo).text, 1, n)
    /\ IF spins(error) THEN at' = "spin" /\ UNCHANGED todo
                       ELSE todo' = Tail(todo) /\ UNCHANGED at
    /\ UNCHANGED <<calls, row, call, sie, irqs, said>>

sbi_debug_console_write_byte ==
    /\ at = "run" /\ todo # <<>> /\ Head(todo).byte
    /\ \E error \in Errors : sbi_result(error, IF error = "SBI_SUCCESS" THEN 1 ELSE 0)
    /\ UNCHANGED <<shorts, lost>>

sbi_debug_console_write ==
    /\ at = "run" /\ todo # <<>> /\ ~Head(todo).byte
    /\ \/ /\ sbi_result("SBI_SUCCESS", Len(Head(todo).text))
          /\ UNCHANGED <<shorts, lost>>
       \/ /\ shorts > 0 /\ shorts' = shorts - 1
          /\ \E n \in 0 .. Len(Head(todo).text) - 1 : sbi_result("SBI_SUCCESS", n)
          /\ lost' = TRUE
       \/ /\ sbi_result("SBI_ERR_FAILED", 0)
          /\ UNCHANGED <<shorts, lost>>

\* The call that interrupt_handler makes.
report == [op |-> "panic", items |-> Report.items, args |-> Report.args]

\* interrupt_handler, on the stack it shares with what it interrupted and with
\* interrupts off: it panics, and nothing is resumed.
interrupt_handler ==
    /\ sie /\ irqs > 0
    /\ sie' = FALSE /\ irqs' = irqs - 1
    /\ at' = "run" /\ calls' = <<>> /\ row' = 0
    /\ call' = report
    /\ todo' = _panic(Report.items, Report.args)
    /\ said' = screen \o Expected(report)
    /\ UNCHANGED <<ret, shorts, screen, lost>>

\* The loops, and the kernel outside the console.
elsewhere ==
    /\ at # "run" \/ (Returned /\ calls = <<>>)
    /\ UNCHANGED consoleVars

\* A request that the firmware answers.
sbi_request == sbi_debug_console_write_byte \/ sbi_debug_console_write

ConsoleNext ==
    \/ call_kputc \/ call_kputs \/ call_kputx \/ call_kprintf
    \/ call_log \/ call_panic \/ call_khexdump \/ panic_halt
    \/ sbi_request \/ interrupt_handler \/ elsewhere

\* The hart executes the ecalls of a call without waiting, and each returns.
ConsoleSpec == ConsoleInit /\ [][ConsoleNext]_consoleVars /\ WF_consoleVars(sbi_request)

----------------------------------------------------------------------------
(* What the theorems of ConsoleProofs suppose of the calls *)

\* The arguments have the types that the function takes: a string ends in its
\* only 0, a format and its arguments fit each other, a hexdump is of bytes and
\* a size_t counts them; and kputx is not given a 127.
CallFormed(c) ==
    CASE c.op = "kputc" -> c.c \in Nat
      [] c.op = "kputs" -> /\ c.s \in Seq(Nat) /\ c.s # <<>> /\ c.s[Len(c.s)] = 0
                           /\ \A k \in 1 .. Len(c.s) - 1 : c.s[k] # 0
      [] c.op = "kputx" -> c.data \in Seq(Nat) /\ \A k \in DOMAIN c.data : c.data[k] # 127
      [] c.op = "khexdump" -> c.data \in Seq(0 .. 255) /\ Len(c.data) + 15 < 2^LONG_BITS
      [] OTHER -> Formed(c.items, c.args)

CallsFormed ==
    /\ Formed(log_where, where_args)
    /\ CallFormed(report)
    /\ \A w \in Worlds :
         /\ Len(w.calls) \in Nat /\ w.calls = [k \in 1 .. Len(w.calls) |-> w.calls[k]]
         /\ \A k \in 1 .. Len(w.calls) : CallFormed(w.calls[k])

----------------------------------------------------------------------------
(* Properties *)

\* The console shows what was printed, in order and without a gap: every
\* directive as C defines it (npf_vpprintf), every byte of a hexdump with two
\* digits and its character, with as many zeros in front as num_zeros_two should
\* count (HexText), cut short by an error, and cut short by an interrupt only to
\* show its report.  A short write, which knputs does not notice, is the only way
\* to lose a character.
ScreenAsCalled == ~lost => screen \o TextOf(todo) = said

\* A kernel that has halted shows the whole of the panic it halted with, also
\* when strings before it were cut: _panic writes character by character, and
\* interrupts are off while the handler's own panic prints.
ReportComplete == at = "halt" => IsSuffix(Expected(call), screen)

\* A console call ends unless the SBI reports an error: kputc and knputs spin
\* for nothing else.
CallsReturn == todo # <<>> ~> (todo = <<>> \/ (at = "spin" /\ ret # "SBI_SUCCESS"))

\* A line of a hexdump starts with the offset that khexdump passes to
\* kprintf("%llx    ", i * 16) (console.h: "prints a hexdump of the provided data").
HexdumpShowsOffset ==
    call.op = "khexdump" /\ row > 0 /\ todo = <<>> /\ ~lost =>
        LET line == khexdump_line(call.data, row - 1)
            start == Len(screen) - Len(TextOf(line)) + hex_zeros(Len(call.data), row - 1)
            offset == Numeral((row - 1) * 16, 16, FALSE)
        IN  SubSeq(screen, start + 1, start + Len(offset)) = offset
=============================================================================
