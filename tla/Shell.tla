------------------------------- MODULE Shell --------------------------------
(***************************************************************************)
(* The shell's commands that read and show numbers (terminal() in          *)
(* src/src/c/kernel.c), the characters they put on the screen one after    *)
(* the other, and the timer's interrupt, which comes between any two.      *)
(* A fixed text such as "malloc_ptr=" is the single character "=".         *)
(***************************************************************************)
EXTENDS Screen, Numbers

CONSTANTS
    Args,         \* the strings that stand behind a command
    Pointers,     \* what malloc returns
    Typed,        \* characters that are echoed as they are typed
    MaxTicks,     \* bound: how often the timer interrupts
    MaxJobs       \* bound: how many commands and echoes between two clears

ASSUME ShellAssumption ==
    /\ Args \subseteq Seq(Printable \cup {"tab"})
    /\ Typed \subseteq Printable \cup {"tab", "other"}
    /\ Pointers \subseteq 0..(U32 - 1)
    /\ {Digits[i] : i \in 1..16} \cup {"x", "=", ">"} \subseteq Printable

VARIABLES
    out,     \* what is still to be put on the screen
    tick,    \* the timer's counter
    job,     \* for the properties: the last command,
    gone,    \*   the rows that have left the screen at its top,
    jobs     \*   and how many commands there were since then

vars == <<vga, out, tick, job, gone, jobs>>

Init ==
    /\ ScreenInit
    /\ out = <<">">>
    /\ tick = 0
    /\ job = [name |-> "none", arg |-> <<>>, value |-> 0, text |-> <<">">>]
    /\ gone = <<>>
    /\ jobs = 0

-----------------------------------------------------------------------------
(* put_char for the next character. *)
Row(s, y) == [i \in 1..scrn_width |-> s.vga_mem[y * scrn_width + i - 1]]

PutNext ==
    /\ out # <<>>
    /\ vga' = put_char(vga, Head(out))
    /\ out' = Tail(out)
    /\ gone' = LET written == wrap(put(vga, Head(out)))
               IN  IF written.csr_y >= scrn_height THEN Append(gone, Row(written, 0))
                   ELSE gone
    /\ UNCHANGED <<tick, job, jobs>>

Start(name, arg, value, text) ==
    /\ out = <<>> /\ jobs < MaxJobs
    /\ jobs' = jobs + 1
    /\ out' = text
    /\ job' = [name |-> name, arg |-> arg, value |-> value, text |-> text]
    /\ UNCHANGED <<vga, tick, gone>>

Line(text) == <<"newline">> \o text \o <<"newline", ">">>

Echo(arg) == Start("echo", arg, 0, Line(arg))

Ticks == Start("ticks", <<>>, tick, Line(dec_text(tick)))

HexConvert(arg) ==
    LET decNumber == hex_str_to_u32int(arg)
    IN  Start("hex_convert", arg, decNumber,
              Line(hex_text(decNumber) \o <<Space, "=", Space>> \o dec_text(decNumber)))

Malloc(arg, malloc_ptr) ==
    Start("malloc", arg, str_to_u32int(arg),
          <<"newline">> \o Line(<<"=">> \o hex_text(malloc_ptr)))

(* free is given what malloc has shown for a pointer.                      *)
Free(pointer) ==
    Start("free", hex_text(pointer), hex_str_to_u32int(hex_text(pointer)),
          <<"newline", ">">>)

Clear ==
    /\ out = <<>>
    /\ jobs' = 0
    /\ vga' = clear_screen(vga)
    /\ gone' = <<>>
    /\ out' = <<"return", ">">>
    /\ job' = [name |-> "clear", arg |-> <<>>, value |-> 0, text |-> out']
    /\ UNCHANGED tick

(* terminal() echoes a character as it is typed, and takes one back.       *)
EchoKey(c) == Start("key", <<>>, 0, <<c>>)

Rub == Start("rub", <<>>, 0, <<"backspace", " ", "backspace">>)

timer_interrupt_handler ==
    /\ tick < MaxTicks
    /\ tick' = (tick + 1) % U32
    /\ UNCHANGED <<vga, out, job, gone, jobs>>

Next ==
    \/ PutNext
    \/ \E arg \in Args : Echo(arg) \/ HexConvert(arg)
    \/ \E arg \in Args, p \in Pointers : Malloc(arg, p)
    \/ \E p \in Pointers : Free(p)
    \/ Ticks \/ Clear \/ Rub
    \/ \E c \in Typed : EchoKey(c)
    \/ timer_interrupt_handler

Spec == Init /\ [][Next]_vars

-----------------------------------------------------------------------------
(* The screen is the window on the last rows of the paper. *)
Roll == gone \o [y \in 1..scrn_height |-> Row(vga, y - 1)]

P == INSTANCE Paper WITH
        Width <- scrn_width, Height <- scrn_height, Stop <- TabStop, text <- out,
        rows <- Roll, row <- Len(gone) + vga.csr_y + 1, col <- vga.csr_x + 1

(* The screen shows the end of the text that was put on it: no character   *)
(* is lost, moved or repeated by wrapping and scrolling.                   *)
ImplementsPaper == P!Spec

-----------------------------------------------------------------------------
(* A numeral: the digits of v without leading zeros.                       *)
Digit(c, base) == CHOOSE d \in 0..(base - 1) : Digits[d + 1] = c
Numeral(text, base) == \A i \in DOMAIN text : \E d \in 1..base : Digits[d] = text[i]
Weights(base, n) ==
    LET weight[k \in 0..n] == IF k = 0 THEN 1 ELSE weight[k-1] * base
    IN  weight
Positional(text, base) ==
    FoldLeft(LAMBDA sum, i : sum + Digit(text[i], base)
                                       * Weights(base, Len(text))[Len(text) - i],
             0, [i \in DOMAIN text |-> i])
Spells(text, base, v) ==
    /\ text # <<>> /\ Numeral(text, base)
    /\ Len(text) > 1 => text[1] # "0"
    /\ Positional(text, base) = v

(* hex_convert shows the number it is given, in hexadecimal and, up to     *)
(* 2^31, in decimal; ticks shows the counter up to 2^31.                   *)
NumbersSpelt ==
    /\ job.name = "hex_convert" /\ job.arg # <<>> /\ Numeral(job.arg, 16) =>
          LET v    == Positional(job.arg, 16) % U32
              sign == SelectInSeq(job.text, LAMBDA c : c = "=")
          IN  /\ Spells(SubSeq(job.text, 4, sign - 2), 16, v)
              /\ 2 * v < U32 =>
                    Spells(SubSeq(job.text, sign + 2, Len(job.text) - 2), 10, v)
    /\ job.name = "ticks" /\ 2 * job.value < U32 =>
          Spells(SubSeq(job.text, 2, Len(job.text) - 2), 10, job.value)

(* malloc asks for the number that was typed, and free frees the pointer   *)
(* that malloc has shown.                                                  *)
PointersReadBack ==
    /\ job.name = "malloc" /\ Numeral(job.arg, 10) =>
          job.value = Positional(job.arg, 10) % U32
    /\ job.name = "free" => \E p \in Pointers :
          job.value = p /\ Spells(SubSeq(job.arg, 3, Len(job.arg)), 16, p)
=============================================================================
