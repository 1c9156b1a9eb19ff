------------------------------- MODULE Screen -------------------------------
(***************************************************************************)
(* The text screen (src/src/c/vga.c): a linear array of cells, the cursor, *)
(* and what one character does to them.                                    *)
(***************************************************************************)
EXTENDS Integers, Sequences

CONSTANTS
    scrn_width, scrn_height,
    TabStop,      \* 8 in the code
    Printable     \* the characters from ' ' on

ASSUME ScreenAssumption ==
    /\ {scrn_width, scrn_height, TabStop} \subseteq Nat \ {0}
    /\ scrn_width + TabStop <= 256     \* csr_x is a u8int
    /\ " " \in Printable
    /\ Printable \cap {"backspace", "tab", "return", "newline"} = {}

Cells == 0 .. (scrn_width * scrn_height - 1)
Screens == [vga_mem : [Cells -> Printable], csr_x : Nat, csr_y : Nat]

VARIABLE vga

(* The screen is never cleared at boot: what is there is taken as blank.   *)
Blank == [i \in Cells |-> " "]
ScreenInit == vga = [vga_mem |-> Blank, csr_x |-> 0, csr_y |-> 0]

-----------------------------------------------------------------------------
(* Mutants: a scroll keeps the last row, and the cursor stays behind it.   *)
scroll_kept(s) ==
    IF s.csr_y >= scrn_height
    THEN [vga_mem |-> [i \in Cells |-> IF i + scrn_width \in Cells
                                       THEN s.vga_mem[i + scrn_width]
                                       ELSE s.vga_mem[i]],
          csr_x |-> s.csr_x, csr_y |-> scrn_height - 1]
    ELSE s

scroll_late(s) ==
    IF s.csr_y > scrn_height
    THEN [vga_mem |-> [i \in Cells |-> IF i + scrn_width \in Cells
                                       THEN s.vga_mem[i + scrn_width] ELSE " "],
          csr_x |-> s.csr_x, csr_y |-> scrn_height]
    ELSE s

tab(x) == ((x \div TabStop) + 1) * TabStop

Position(s) == s.csr_y * scrn_width + s.csr_x

(* Mutant: a backspace wipes the character it goes back to and stays.      *)
put_stay(s, c) ==
    CASE c = "backspace" -> [s EXCEPT !.vga_mem[Position(s)] = " "]
      [] c = "tab"       -> [s EXCEPT !.csr_x = tab(@)]
      [] c = "return"    -> [s EXCEPT !.csr_x = 0]
      [] c = "newline"   -> [s EXCEPT !.csr_x = 0, !.csr_y = @ + 1]
      [] c \in Printable -> [s EXCEPT !.vga_mem[Position(s)] = c, !.csr_x = @ + 1]
      [] OTHER           -> s

(* put_char up to the check whether the cursor is still on the screen.     *)
put(s, c) ==
    CASE c = "backspace" -> [s EXCEPT !.csr_x = IF @ # 0 THEN @ - 1 ELSE 0]
      [] c = "tab"       -> [s EXCEPT !.csr_x = tab(@)]
      [] c = "return"    -> [s EXCEPT !.csr_x = 0]
      [] c = "newline"   -> [s EXCEPT !.csr_x = 0, !.csr_y = @ + 1]
      [] c \in Printable -> [s EXCEPT !.vga_mem[Position(s)] = c, !.csr_x = @ + 1]
      [] OTHER           -> s

wrap(s) ==
    IF s.csr_x >= scrn_width
    THEN [s EXCEPT !.csr_x = 0, !.csr_y = @ + 1] ELSE s

scroll(s) ==
    IF s.csr_y >= scrn_height
    THEN [vga_mem |-> [i \in Cells |-> IF i + scrn_width \in Cells
                                       THEN s.vga_mem[i + scrn_width] ELSE " "],
          csr_x |-> s.csr_x, csr_y |-> scrn_height - 1]
    ELSE s

put_char(s, c) == scroll(wrap(put(s, c)))

(* clear_screen leaves the cursor in its column.                           *)
clear_screen(s) == [vga_mem |-> Blank, csr_x |-> s.csr_x, csr_y |-> 0]

-----------------------------------------------------------------------------
(* The cursor is on the screen between any two characters, so the next one *)
(* is written to a cell of the screen and not to memory behind it.         *)
CursorOnScreen ==
    /\ vga \in Screens
    /\ vga.csr_x < scrn_width
    /\ vga.csr_y < scrn_height
    /\ Position(vga) \in Cells

(* "\b \b" takes a printed character off the screen again and puts the     *)
(* cursor back where it was, unless the character was the last of its row. *)
RubUndoes == \A c \in Printable :
    vga.csr_x + 1 < scrn_width =>
        put_char(put_char(put_char(put_char(vga, c), "backspace"), " "), "backspace")
            = [vga EXCEPT !.vga_mem[Position(vga)] = " "]
=============================================================================
