------------------------------ MODULE Console ------------------------------
(***************************************************************************)
(* From a key to a command: the keyboard interrupt and its buffer          *)
(* (src/src/c/keyboard.c), the main loop and the terminal                  *)
(* (src/src/c/kernel.c), and the buffer of the screen (src/src/c/vga.c).   *)
(* The interrupt handler runs between any two steps of the main loop,      *)
(* except where that has interrupts disabled, which is within a step here. *)
(***************************************************************************)
EXTENDS Integers, Sequences, SequencesExt, FiniteSetsExt

CONSTANTS
    KEYBOARD_BUFFER_SIZE, MAX_TERMINAL_BUFFER_SIZE, VGA_BUFFER_SIZE,
    scrn_width, \* the columns of the screen
    U16,        \* a u16int counts modulo this
    Keys,       \* the characters that are typed
    MaxKeys     \* bound: how many of them

ASSUME ConsoleAssumption ==
    /\ {KEYBOARD_BUFFER_SIZE, MAX_TERMINAL_BUFFER_SIZE, VGA_BUFFER_SIZE,
        scrn_width, U16} \subseteq Nat \ {0, 1}
    /\ MAX_TERMINAL_BUFFER_SIZE + KEYBOARD_BUFFER_SIZE < U16
    /\ Keys \subseteq {"x", " ", "enter", "erase"} /\ MaxKeys \in Nat

NUL == "nul"
Char == {"x", "X", " ", "enter", "erase", NUL}

VARIABLES
    keyboard_buffer, keyboard_buffer_length,
    keyboard_handler,   \* whom the keyboard gives its buffer, "none" for NULL
    terminal_buffer, terminal_buffer_length, terminal_last_put,
    vga_buffer,   \* what waits for the screen
    screen,       \* what the screen shows since the last prompt
    pc,           \* where the main loop is
    size,         \* the length that keyboard_flush read first
    wild,         \* an access behind the end of an array
    typed,        \* for the properties: all keys,
    overtaken,    \*   whether the handler flushed the full buffer while the
                  \*     main loop was about to, with a length it had read,
    received,     \*   the keys that came to the terminal,
    commands      \*   the token and the argument of what was run

keyboard == <<keyboard_buffer, keyboard_buffer_length, keyboard_handler>>
terminal == <<terminal_buffer, terminal_buffer_length, terminal_last_put>>
display == <<vga_buffer, screen>>
vars == <<keyboard, terminal, display, pc, size, wild, typed, overtaken,
          received, commands>>

Array(n) == [0..(n-1) -> Char]
Cleared(n) == [i \in 0..(n-1) |-> NUL]

(* What the loader leaves. *)
PowerOn ==
    /\ keyboard_buffer = Cleared(KEYBOARD_BUFFER_SIZE)
    /\ keyboard_buffer_length = 0
    /\ terminal_buffer = Cleared(MAX_TERMINAL_BUFFER_SIZE)
    /\ terminal_buffer_length = 0
    /\ terminal_last_put = 0
    /\ screen = <<>>
    /\ pc = "keyboard_flush"
    /\ size = 0
    /\ wild = FALSE
    /\ typed = <<>> /\ overtaken = FALSE /\ received = <<>> /\ commands = <<>>

(* In front of the main loop, when no key has come before.                 *)
Init == PowerOn /\ keyboard_handler = "kernel_keyboard_handler" /\ vga_buffer = <<">">>

-----------------------------------------------------------------------------
(* Mutant: the loop stops one character early.                             *)
kernel_keyboard_handler_short(buf, n) ==
    /\ terminal_buffer' = [i \in DOMAIN terminal_buffer |->
          IF i \in terminal_buffer_length .. (terminal_buffer_length + n - 2)
          THEN buf[i - terminal_buffer_length] ELSE terminal_buffer[i]]
    /\ terminal_buffer_length' = (terminal_buffer_length + n - 1) % U16
    /\ received' = received \o [i \in 1..(n-1) |-> buf[i - 1]]
    /\ wild' = (terminal_buffer_length + n - 1 > MAX_TERMINAL_BUFFER_SIZE)

(* kernel_keyboard_handler: n characters go to the end of the terminal's   *)
(* buffer, without a look at its size.                                     *)
kernel_keyboard_handler(buf, n) ==
    /\ terminal_buffer' = [i \in DOMAIN terminal_buffer |->
          IF i \in terminal_buffer_length .. (terminal_buffer_length + n - 1)
          THEN buf[i - terminal_buffer_length] ELSE terminal_buffer[i]]
    /\ terminal_buffer_length' = (terminal_buffer_length + n) % U16
    /\ received' = received \o [i \in 1..n |-> buf[i - 1]]
    /\ wild' = (terminal_buffer_length + n > MAX_TERMINAL_BUFFER_SIZE)

(* What keyboard_flush does with interrupts disabled, but for the length.  *)
deliver(buf, n) ==
    IF keyboard_handler = "none"
    THEN UNCHANGED <<terminal_buffer, terminal_buffer_length, received, wild>>
    ELSE kernel_keyboard_handler(buf, n)

(* Mutant: the handler does not look whether the buffer is full.           *)
Key_unchecked(c) ==
    /\ ~wild /\ Len(typed) < MaxKeys
    /\ typed' = Append(typed, c)
    /\ keyboard_buffer' = [keyboard_buffer EXCEPT ![keyboard_buffer_length] = c]
    /\ keyboard_buffer_length' = keyboard_buffer_length + 1
    /\ UNCHANGED <<keyboard_handler, terminal, display, pc, size, wild, overtaken,
                   received, commands>>

(* keyboard_interrupt_handler for a key with a character.  When that fills *)
(* the buffer the handler flushes it.                                      *)
Key(c) ==
    /\ ~wild /\ Len(typed) < MaxKeys
    /\ typed' = Append(typed, c)
    /\ keyboard_buffer' = [keyboard_buffer EXCEPT ![keyboard_buffer_length] = c]
    /\ \/ /\ keyboard_buffer_length + 1 # KEYBOARD_BUFFER_SIZE
          /\ keyboard_buffer_length' = keyboard_buffer_length + 1
          /\ UNCHANGED <<terminal_buffer, terminal_buffer_length, received, wild,
                         overtaken>>
       \/ /\ keyboard_buffer_length + 1 = KEYBOARD_BUFFER_SIZE
          /\ deliver(keyboard_buffer', KEYBOARD_BUFFER_SIZE)
          /\ keyboard_buffer_length' = 0
          /\ overtaken' = (overtaken \/ pc = "disabled")
    /\ UNCHANGED <<keyboard_handler, terminal_last_put, display, pc, size,
                   commands>>

(* Mutant: a single key is not enough.                                     *)
CheckKeyboard_several ==
    /\ ~wild /\ pc = "keyboard_flush"
    /\ size' = keyboard_buffer_length
    /\ pc' = IF keyboard_buffer_length > 1 THEN "disabled" ELSE "terminal"
    /\ UNCHANGED <<keyboard, terminal, display, wild, typed, overtaken,
                   received, commands>>

(* The main loop in keyboard_flush: it reads the length while interrupts   *)
(* are still enabled.                                                      *)
CheckKeyboard ==
    /\ ~wild /\ pc = "keyboard_flush"
    /\ size' = keyboard_buffer_length
    /\ pc' = IF keyboard_buffer_length > 0 THEN "disabled" ELSE "terminal"
    /\ UNCHANGED <<keyboard, terminal, display, wild, typed, overtaken,
                   received, commands>>

(* Mutant: the length is not reset.                                        *)
FlushKeyboard_kept ==
    /\ ~wild /\ pc = "disabled" /\ pc' = "terminal"
    /\ deliver(keyboard_buffer, size)
    /\ UNCHANGED <<keyboard, terminal_last_put, display, size, typed,
                   overtaken, commands>>

(* Interrupts are disabled here.  Nothing makes the compiler read the      *)
(* length again after that, and nothing forbids it.                        *)
FlushKeyboard ==
    /\ ~wild /\ pc = "disabled" /\ pc' = "terminal"
    /\ \E n \in {size, keyboard_buffer_length} :
          deliver(keyboard_buffer, n)
    /\ keyboard_buffer_length' = 0
    /\ UNCHANGED <<keyboard_buffer, keyboard_handler, terminal_last_put, display,
                   size, typed, overtaken, commands>>

-----------------------------------------------------------------------------
(* A prompt starts the screen anew. *)
Show(seen, items) ==
    LET prompts == {i \in DOMAIN items : items[i] = ">"}
    IN  IF prompts = {} THEN seen \o items
        ELSE SubSeq(items, Max(prompts), Len(items))

(* The string "\b \b" is one item, "rub"; see Rubbed for what it does. *)
vga_buffer_put(item) ==
    IF Len(vga_buffer) + 1 = VGA_BUFFER_SIZE
    THEN vga_buffer' = <<>> /\ screen' = Show(screen, Append(vga_buffer, item))
    ELSE vga_buffer' = Append(vga_buffer, item) /\ UNCHANGED screen

(* The string at an address: it ends before the first 0.  Behind the array *)
(* it is taken to end at once.                                             *)
StringAt(buf, first) ==
    LET stops == {i \in DOMAIN buf : i >= first /\ buf[i] = NUL}
                     \cup {MAX_TERMINAL_BUFFER_SIZE}
    IN  [i \in 1..(Min(stops) - first) |-> buf[first + i - 1]]

last == terminal_buffer[terminal_buffer_length - 1]

AtTerminal ==
    /\ ~wild /\ pc = "terminal"
    /\ terminal_buffer_length \in 1..MAX_TERMINAL_BUFFER_SIZE

TerminalEmpty ==
    /\ ~wild /\ pc = "terminal" /\ terminal_buffer_length = 0
    /\ pc' = "vga_flush"
    /\ UNCHANGED <<keyboard, terminal, display, size, wild, typed, overtaken,
                   received, commands>>

TerminalBeyond ==
    /\ ~wild /\ pc = "terminal"
    /\ terminal_buffer_length > MAX_TERMINAL_BUFFER_SIZE
    /\ wild' = TRUE
    /\ UNCHANGED <<keyboard, terminal, display, pc, size, typed, overtaken,
                   received, commands>>

(* A newline: the token goes up to the first blank or the end, and the     *)
(* argument is the string behind it.  The command prints to the screen.    *)
Evaluate ==
    /\ AtTerminal /\ last = "enter"
    /\ LET buf  == [terminal_buffer EXCEPT ![terminal_buffer_length - 1] = NUL]
           ends == {i \in 0..(terminal_buffer_length - 1) : buf[i] \in {" ", NUL}}
           token_size == Min(ends)
       IN  /\ terminal_buffer' = buf
           /\ commands' = Append(commands,
                 [token    |-> [i \in 1..token_size |-> buf[i - 1]],
                  argument |-> StringAt(buf, token_size + 1)])
    /\ screen' = Append(screen, "output")
    /\ pc' = "clear"
    /\ UNCHANGED <<keyboard, terminal_buffer_length, terminal_last_put,
                   vga_buffer, size, wild, typed, overtaken, received>>

(* Mutant: terminal_last_put is not reset.                                 *)
Clear_last_put_kept ==
    /\ ~wild /\ pc = "clear" /\ pc' = "vga_flush"
    /\ terminal_buffer' = Cleared(MAX_TERMINAL_BUFFER_SIZE)
    /\ terminal_buffer_length' = 0
    /\ vga_buffer_put(">")
    /\ UNCHANGED <<keyboard, terminal_last_put, size, wild, typed, overtaken,
                   received, commands>>

(* Interrupts are enabled while the command runs; then the terminal clears *)
(* its buffer, whatever is in it by now, and puts a prompt.                *)
Clear ==
    /\ ~wild /\ pc = "clear" /\ pc' = "vga_flush"
    /\ terminal_buffer' = Cleared(MAX_TERMINAL_BUFFER_SIZE)
    /\ terminal_buffer_length' = 0
    /\ terminal_last_put' = 0
    /\ vga_buffer_put(">")
    /\ UNCHANGED <<keyboard, size, wild, typed, overtaken, received, commands>>

(* Mutants: only the backspace itself goes, and terminal_last_put is       *)
(* decremented in any case.                                                *)
Backspace_one ==
    /\ AtTerminal /\ last = "erase" /\ pc' = "vga_flush"
    /\ vga_buffer_put("rub")
    /\ terminal_buffer_length' = terminal_buffer_length - 1
    /\ UNCHANGED <<keyboard, terminal_buffer, terminal_last_put, size, wild,
                   typed, overtaken, received, commands>>

Backspace_unchecked ==
    /\ AtTerminal /\ last = "erase" /\ pc' = "vga_flush"
    /\ vga_buffer_put("rub")
    /\ terminal_buffer_length' = (terminal_buffer_length - 2) % U16
    /\ terminal_last_put' = terminal_last_put - 1
    /\ UNCHANGED <<keyboard, terminal_buffer, size, wild, typed, overtaken,
                   received, commands>>

(* A backspace takes itself and the character before it off the length.    *)
Backspace ==
    /\ AtTerminal /\ last = "erase" /\ pc' = "vga_flush"
    /\ vga_buffer_put("rub")
    /\ terminal_buffer_length' = (terminal_buffer_length - 2) % U16
    /\ terminal_last_put' = IF terminal_last_put > 0
                            THEN terminal_last_put - 1 ELSE 0
    /\ UNCHANGED <<keyboard, terminal_buffer, size, wild, typed, overtaken,
                   received, commands>>

(* Anything else is put on the screen: the last character, once per round  *)
(* until as many are shown as there are.                                   *)
Echo ==
    /\ AtTerminal /\ last \notin {"enter", "erase"} /\ pc' = "vga_flush"
    /\ \/ /\ terminal_last_put < terminal_buffer_length
          /\ vga_buffer_put(last)
          /\ terminal_last_put' = terminal_last_put + 1
       \/ /\ terminal_last_put >= terminal_buffer_length
          /\ UNCHANGED <<display, terminal_last_put>>
    /\ UNCHANGED <<keyboard, terminal_buffer, terminal_buffer_length, size, wild,
                   typed, overtaken, received, commands>>

vga_flush ==
    /\ ~wild /\ pc = "vga_flush" /\ pc' = "keyboard_flush"
    /\ screen' = Show(screen, vga_buffer)
    /\ vga_buffer' = <<>>
    /\ UNCHANGED <<keyboard, terminal, size, wild, typed, overtaken,
                   received, commands>>

Gone == wild /\ UNCHANGED vars

Round ==
    \/ CheckKeyboard \/ FlushKeyboard
    \/ TerminalEmpty \/ Evaluate \/ Clear \/ Backspace \/ Echo
    \/ vga_flush

Loop == Round \/ TerminalBeyond

Next == Loop \/ (\E c \in Keys : Key(c)) \/ Gone

Spec == Init /\ [][Next]_vars

-----------------------------------------------------------------------------
(* Someone who types slowly: a key comes after the main loop has gone      *)
(* round for the one before, while the line has room for it, and a         *)
(* backspace only when there is something to take back.  The terminal      *)
(* never looks beyond its buffer then: it would find itself deadlocked     *)
(* here.  The processor runs the main loop whenever no interrupt is        *)
(* served, and nobody has to type.                                         *)
Quiet == pc = "keyboard_flush" /\ keyboard_buffer_length = 0 /\ vga_buffer = <<>>

SlowKey(c) ==
    /\ Quiet /\ terminal_buffer_length < MAX_TERMINAL_BUFFER_SIZE
    /\ c = "erase" => terminal_buffer_length > 0
    /\ Key(c)

SlowNext == Round \/ \E c \in Keys : SlowKey(c)

SlowSpec == Init /\ [][SlowNext]_vars /\ WF_vars(Round)

-----------------------------------------------------------------------------
TypeOK ==
    /\ keyboard_buffer \in Array(KEYBOARD_BUFFER_SIZE)
    /\ keyboard_buffer_length \in 0..KEYBOARD_BUFFER_SIZE
    /\ terminal_buffer \in Array(MAX_TERMINAL_BUFFER_SIZE)
    /\ terminal_buffer_length \in 0..(U16 - 1)
    /\ terminal_last_put \in 0..(U16 - 1)
    /\ vga_buffer \in Seq(Char \cup {">", "rub"})
    /\ screen \in Seq(Char \cup {">", "rub", "output"})
    /\ pc \in {"keyboard_flush", "disabled", "terminal", "clear", "vga_flush"}
    /\ size \in 0..KEYBOARD_BUFFER_SIZE
    /\ wild \in BOOLEAN
    /\ keyboard_handler \in {"none", "kernel_keyboard_handler"}
    /\ typed \in Seq(Char) /\ overtaken \in BOOLEAN /\ received \in Seq(Char)
    /\ commands \in Seq([token : Seq(Char), argument : Seq(Char)])

(* The interrupt handler always has room for a key in keyboard_buffer,     *)
(* though the main loop and the handler both empty it.                     *)
KeyboardRoom == keyboard_buffer_length < KEYBOARD_BUFFER_SIZE

(* No key comes to the terminal twice or before one typed earlier, though *)
(* the main loop and, when the buffer is full, the handler deliver what is *)
(* buffered, and the length the main loop uses may be the one it read      *)
(* before it disabled interrupts.  That holds until the handler flushes    *)
(* exactly between that reading and the disabling: see OnlyBuffered.       *)
KeysInOrder == ~overtaken =>
    \E at \in [1..Len(received) -> 1..Len(typed)] :
        /\ \A i, j \in 1..Len(received) : i < j => at[i] < at[j]
        /\ \A i \in 1..Len(received) : received[i] = typed[at[i]]

(* "this is what disables the interrupts and calls the function in kernel.c *)
(* to put the buffered data on the screen" (src/src/c/keyboard.c:35): only *)
(* what is buffered, so that what has come to the terminal and what is     *)
(* buffered still are together no more than what was typed.                *)
OnlyBuffered == Len(received) + keyboard_buffer_length <= Len(typed)

(* keyboard_flush gives the terminal what is buffered: when it is done,    *)
(* all that was typed has come there.                                      *)
KeysReachTerminal == Quiet => received = typed

(* The terminal's buffer has MAX_TERMINAL_BUFFER_SIZE characters at most.  *)
TerminalLengthInRange == terminal_buffer_length <= MAX_TERMINAL_BUFFER_SIZE

Line(n) == [i \in 1..n |-> terminal_buffer[i - 1]]

(* What put_char leaves of items that begin in column margin: in column 0  *)
(* the first '\b' of a rub does not move the cursor, so that the character *)
(* at the end of the row above stays.                                      *)
InColumn0(margin, s) == (margin + Len(s)) % scrn_width = 0
Rub(margin, s, c) ==
    IF c # "rub" THEN Append(s, c)
    ELSE IF InColumn0(margin, s) THEN s ELSE Front(s)
Rubbed(margin, items) == FoldLeft(LAMBDA s, c : Rub(margin, s, c), <<>>, items)

Stuck(margin, items) == \E i \in DOMAIN items :
    items[i] = "rub" /\ InColumn0(margin, Rubbed(margin, SubSeq(items, 1, i - 1)))

(* With slow typing the screen shows the prompt and the line as it is, in  *)
(* whatever column the prompt stands, as long as no backspace has come at  *)
(* the beginning of a row.                                                 *)
ScreenShowsLine == Quiet => \A margin \in 0..(scrn_width - 1) :
    ~Stuck(margin, screen) =>
        Rubbed(margin, screen) = <<">">> \o Line(terminal_buffer_length)

(* The line as the user knows it: a newline or backspace that has come to  *)
(* the terminal is not part of it.                                         *)
CommandLine == IF pc = "clear" \/ terminal_buffer_length = 0 THEN <<>>
               ELSE Line(IF last \in {"enter", "erase"} THEN terminal_buffer_length - 1
                         ELSE terminal_buffer_length)

(* The keys whose effect has been brought about: not a newline or backspace *)
(* that still waits at the end of the buffer.                              *)
Handled == IF terminal_buffer_length > 0 /\ last \in {"enter", "erase"}
           THEN Front(received) ELSE received

Letters == {"x", " "}
LE == INSTANCE LineEditor
        WITH Printable <- Letters, keys <- Handled, line <- CommandLine

(* With slow typing the terminal is a line editor: what is run is the line *)
(* that was typed with its corrections, whatever was in the buffer before. *)
EditsLines == LE!Spec
=============================================================================
