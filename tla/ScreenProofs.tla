---------------------------- MODULE ScreenProofs ----------------------------
(***************************************************************************)
(* Proofs about the screen and the numbers on it: whatever its size and    *)
(* whatever is put on it, the cursor stays on it, and it shows the last    *)
(* rows of what was put; the numbers that the shell shows spell their      *)
(* values, in words of any width, and are read back as what they were.     *)
(***************************************************************************)
EXTENDS Shell, DataLemmas

(* The code after put: the cursor may be one row below the screen, and to  *)
(* the right of it.                                                        *)
AlmostOn(s) ==
    /\ s \in Screens
    /\ s.csr_y <= scrn_height
    /\ s.csr_x >= scrn_width => s.csr_y < scrn_height

(* A cursor in a column and a row of the screen is at one of its cells.    *)
LEMMA PositionInCells ==
    ASSUME NEW s, s.csr_x \in Nat, s.csr_y \in Nat,
           s.csr_x < scrn_width, s.csr_y < scrn_height
    PROVE  Position(s) \in Cells
<1>. scrn_width \in Nat /\ scrn_height \in Nat  BY ScreenAssumption
<1>. DEFINE x == s.csr_x  y == s.csr_y
<1>1. y * scrn_width + scrn_width <= scrn_height * scrn_width  BY Grows
<1>2. y * scrn_width \in Nat /\ scrn_height * scrn_width \in Nat
      /\ scrn_width * scrn_height = scrn_height * scrn_width  OBVIOUS
<1>3. y * scrn_width + x \in 0 .. (scrn_width * scrn_height - 1)
  <2>. HIDE DEF x, y
  <2>1. x \in Nat /\ x < scrn_width  BY DEF x
  <2>. DEFINE p == y * scrn_width  q == scrn_height * scrn_width
  <2>2. p \in Nat /\ q \in Nat /\ p + scrn_width <= q /\ scrn_width * scrn_height = q
    BY <1>1, <1>2
  <2>. HIDE DEF p, q
  <2>3. p + x \in 0..(q - 1)  BY <2>1, <2>2
  <2>. QED  BY <2>2, <2>3 DEF p
<1>. QED  BY <1>3 DEF Position, Cells

LEMMA TabMovesOn ==
    ASSUME NEW x \in Nat
    PROVE  tab(x) \in Nat
<1>. TabStop \in Nat \ {0}  BY ScreenAssumption
<1>1. x \div TabStop \in Nat  OBVIOUS
<1>. QED  BY <1>1 DEF tab

(* What the characters do, in terms of the three parts of a screen.        *)
Screen(m, x, y) == [vga_mem |-> m, csr_x |-> x, csr_y |-> y]

LEMMA ScreenOf ==
    ASSUME NEW m \in [Cells -> Printable], NEW x \in Nat, NEW y \in Nat
    PROVE  /\ Screen(m, x, y) \in Screens
           /\ Screen(m, x, y).vga_mem = m
           /\ Screen(m, x, y).csr_x = x
           /\ Screen(m, x, y).csr_y = y
BY DEF Screen, Screens

LEMMA PartsOf ==
    ASSUME NEW s \in Screens
    PROVE  /\ s.vga_mem \in [Cells -> Printable] /\ s.csr_x \in Nat /\ s.csr_y \in Nat
           /\ s = Screen(s.vga_mem, s.csr_x, s.csr_y)
BY DEF Screen, Screens

LEMMA PutParts ==
    ASSUME NEW m \in [Cells -> Printable], NEW x \in Nat, NEW y \in Nat
    PROVE  /\ put(Screen(m, x, y), "backspace")
                = Screen(m, IF x # 0 THEN x - 1 ELSE 0, y)
           /\ put(Screen(m, x, y), "tab") = Screen(m, tab(x), y)
           /\ put(Screen(m, x, y), "return") = Screen(m, 0, y)
           /\ put(Screen(m, x, y), "newline") = Screen(m, 0, y + 1)
           /\ \A c : c \notin Printable \cup {"backspace", "tab", "return", "newline"}
                => put(Screen(m, x, y), c) = Screen(m, x, y)
<1>1. put(Screen(m, x, y), "backspace") = Screen(m, IF x # 0 THEN x - 1 ELSE 0, y)
  BY ScreenAssumption DEF put, Screen
<1>2. put(Screen(m, x, y), "tab") = Screen(m, tab(x), y)
  BY ScreenAssumption DEF put, Screen
<1>3. put(Screen(m, x, y), "return") = Screen(m, 0, y)
  BY ScreenAssumption DEF put, Screen
<1>4. put(Screen(m, x, y), "newline") = Screen(m, 0, y + 1)
  BY ScreenAssumption DEF put, Screen
<1>5. ASSUME NEW c, c \notin Printable \cup {"backspace", "tab", "return", "newline"}
      PROVE  put(Screen(m, x, y), c) = Screen(m, x, y)
  BY <1>5 DEF put
<1>. QED  BY <1>1, <1>2, <1>3, <1>4, <1>5

InCell(m, cell, c) == [m EXCEPT ![cell] = c]

LEMMA PutPrintable ==
    ASSUME NEW m \in [Cells -> Printable], NEW x \in Nat, NEW y \in Nat,
           NEW c \in Printable
    PROVE  /\ put(Screen(m, x, y), c)
                = Screen(InCell(m, y * scrn_width + x, c), x + 1, y)
           /\ InCell(m, y * scrn_width + x, c) \in [Cells -> Printable]
<1>1. put(Screen(m, x, y), c)
         = [Screen(m, x, y) EXCEPT !.vga_mem[Position(Screen(m, x, y))] = c,
                                   !.csr_x = @ + 1]
  BY ScreenAssumption DEF put
<1>2. Position(Screen(m, x, y)) = y * scrn_width + x  BY DEF Position, Screen
<1>3. put(Screen(m, x, y), c) = Screen(InCell(m, y * scrn_width + x, c), x + 1, y)
  BY <1>1, <1>2 DEF Screen, InCell
<1>4. InCell(m, y * scrn_width + x, c) \in [Cells -> Printable]  BY DEF InCell
<1>. QED  BY <1>3, <1>4

LEMMA WrapParts ==
    ASSUME NEW m \in [Cells -> Printable], NEW x \in Nat, NEW y \in Nat
    PROVE  wrap(Screen(m, x, y)) = IF x >= scrn_width THEN Screen(m, 0, y + 1)
                                   ELSE Screen(m, x, y)
<1>1. CASE x >= scrn_width
  <2>1. wrap(Screen(m, x, y)) = Screen(m, 0, y + 1)  BY <1>1 DEF wrap, Screen
  <2>. QED  BY <1>1, <2>1
<1>2. CASE ~(x >= scrn_width)
  BY <1>2 DEF wrap, Screen
<1>. QED  BY <1>1, <1>2

(* A screen whose rows have moved up by one. *)
Up(m) == [i \in Cells |-> IF i + scrn_width \in Cells THEN m[i + scrn_width] ELSE " "]

LEMMA ScrollParts ==
    ASSUME NEW m \in [Cells -> Printable], NEW x \in Nat, NEW y \in Nat
    PROVE  /\ Up(m) \in [Cells -> Printable]
           /\ scroll(Screen(m, x, y)) =
                  IF y >= scrn_height THEN Screen(Up(m), x, scrn_height - 1)
                  ELSE Screen(m, x, y)
<1>1. Up(m) \in [Cells -> Printable]  BY ScreenAssumption DEF Up
<1>2. scroll(Screen(m, x, y)) =
         IF y >= scrn_height THEN Screen(Up(m), x, scrn_height - 1) ELSE Screen(m, x, y)
  BY DEF scroll, Screen, Up
<1>. QED  BY <1>1, <1>2

LEMMA PutAlmostOn ==
    ASSUME NEW s \in Screens, s.csr_x < scrn_width, s.csr_y < scrn_height, NEW c
    PROVE  AlmostOn(put(s, c))
<1>. scrn_width \in Nat \ {0} /\ scrn_height \in Nat \ {0}  BY ScreenAssumption
<1>. DEFINE m == s.vga_mem  x == s.csr_x  y == s.csr_y
<1>0. m \in [Cells -> Printable] /\ x \in Nat /\ y \in Nat /\ s = Screen(m, x, y)
      /\ x < scrn_width /\ y < scrn_height
  BY PartsOf
<1>. HIDE DEF m, x, y
<1>1. ASSUME NEW m1 \in [Cells -> Printable], NEW x1 \in Nat, NEW y1 \in Nat,
             y1 <= scrn_height, x1 >= scrn_width => y1 < scrn_height,
             put(s, c) = Screen(m1, x1, y1)
      PROVE  AlmostOn(put(s, c))
  BY <1>1, ScreenOf DEF AlmostOn
<1>2. CASE c = "backspace"
  <2>1. put(s, c) = Screen(m, IF x # 0 THEN x - 1 ELSE 0, y)  BY <1>0, <1>2, PutParts
  <2>2. x # 0 => x - 1 \in Nat  BY <1>0
  <2>3. x # 0 => put(s, c) = Screen(m, x - 1, y)  BY <2>1
  <2>4. x = 0 => put(s, c) = Screen(m, x, y)  BY <2>1
  <2>5. x # 0 => x - 1 < scrn_width  BY <1>0
  <2>6. y <= scrn_height /\ y < scrn_height  BY <1>0
  <2>7. CASE x # 0  BY <1>0, <1>1, <2>2, <2>3, <2>6, <2>7
  <2>8. CASE x = 0  BY <1>0, <1>1, <2>4, <2>6, <2>8
  <2>. QED  BY <2>7, <2>8
<1>3. CASE c = "tab"
  <2>1. put(s, c) = Screen(m, tab(x), y)  BY <1>0, <1>3, PutParts
  <2>2. tab(x) \in Nat  BY <1>0, TabMovesOn
  <2>3. y <= scrn_height /\ y < scrn_height  BY <1>0
  <2>. QED  BY <1>0, <1>1, <2>1, <2>2, <2>3
<1>4. CASE c = "return"
  <2>1. put(s, c) = Screen(m, 0, y)  BY <1>0, <1>4, PutParts
  <2>2. y <= scrn_height /\ y < scrn_height  BY <1>0
  <2>. QED  BY <1>0, <1>1, <2>1, <2>2
<1>5. CASE c = "newline"
  <2>1. put(s, c) = Screen(m, 0, y + 1)  BY <1>0, <1>5, PutParts
  <2>2. y + 1 \in Nat /\ y + 1 <= scrn_height /\ ~(0 >= scrn_width)  BY <1>0
  <2>. QED  BY <1>0, <1>1, <2>1, <2>2
<1>6. CASE c \in Printable
  <2>. DEFINE m1 == InCell(m, y * scrn_width + x, c)
  <2>1. put(s, c) = Screen(m1, x + 1, y) /\ m1 \in [Cells -> Printable]
    BY <1>0, <1>6, PutPrintable
  <2>3. x + 1 \in Nat /\ y <= scrn_height /\ y < scrn_height  BY <1>0
  <2>. HIDE DEF m1
  <2>. QED  BY <1>0, <1>1, <2>1, <2>3
<1>7. CASE c \notin Printable \cup {"backspace", "tab", "return", "newline"}
  <2>0. \A d : d \notin Printable \cup {"backspace", "tab", "return", "newline"}
            => put(Screen(m, x, y), d) = Screen(m, x, y)
    BY <1>0, PutParts
  <2>1. put(Screen(m, x, y), c) = Screen(m, x, y)  BY <1>7, <2>0
  <2>2. y <= scrn_height /\ y < scrn_height  BY <1>0
  <2>. QED  BY <1>0, <1>1, <2>1, <2>2
<1>. QED  BY <1>2, <1>3, <1>4, <1>5, <1>6, <1>7

LEMMA ScrollPutsOn ==
    ASSUME NEW s, AlmostOn(s)
    PROVE  /\ scroll(wrap(s)) \in Screens
           /\ scroll(wrap(s)).csr_x < scrn_width
           /\ scroll(wrap(s)).csr_y < scrn_height
<1>. scrn_width \in Nat \ {0} /\ scrn_height \in Nat \ {0}  BY ScreenAssumption
<1>. DEFINE m == s.vga_mem  x == s.csr_x  y == s.csr_y
<1>0. m \in [Cells -> Printable] /\ x \in Nat /\ y \in Nat /\ s = Screen(m, x, y)
      /\ y <= scrn_height /\ (x >= scrn_width => y < scrn_height)
  BY PartsOf DEF AlmostOn
<1>. HIDE DEF m, x, y
<1>1. PICK x1 \in Nat, y1 \in Nat :
         x1 < scrn_width /\ y1 <= scrn_height /\ wrap(s) = Screen(m, x1, y1)
  <2>1. CASE x >= scrn_width
    <3>1. wrap(s) = Screen(m, 0, y + 1)  BY <1>0, <2>1, WrapParts
    <3>. QED  BY <1>0, <2>1, <3>1
  <2>2. CASE ~(x >= scrn_width)
    <3>1. wrap(s) = Screen(m, x, y)  BY <1>0, <2>2, WrapParts
    <3>. QED  BY <1>0, <2>2, <3>1
  <2>. QED  BY <2>1, <2>2
<1>2. CASE y1 >= scrn_height
  <2>1. scroll(wrap(s)) = Screen(Up(m), x1, scrn_height - 1) /\ Up(m) \in [Cells -> Printable]
    BY <1>0, <1>1, <1>2, ScrollParts
  <2>. QED  BY <1>1, <2>1, ScreenOf
<1>3. CASE ~(y1 >= scrn_height)
  <2>1. scroll(wrap(s)) = Screen(m, x1, y1)  BY <1>0, <1>1, <1>3, ScrollParts
  <2>. QED  BY <1>0, <1>1, <1>3, <2>1, ScreenOf
<1>. QED  BY <1>2, <1>3

LEMMA PutCharStaysOn ==
    ASSUME NEW s \in Screens, s.csr_x < scrn_width, s.csr_y < scrn_height, NEW c
    PROVE  /\ put_char(s, c) \in Screens
           /\ put_char(s, c).csr_x < scrn_width
           /\ put_char(s, c).csr_y < scrn_height
BY PutAlmostOn, ScrollPutsOn DEF put_char

LEMMA BlankScreen ==
    ASSUME Blank \in [Cells -> Printable], NEW x \in Nat, x < scrn_width
    PROVE  /\ Screen(Blank, x, 0) \in Screens
           /\ Screen(Blank, x, 0).csr_x < scrn_width
           /\ Screen(Blank, x, 0).csr_y < scrn_height
<1>1. scrn_height \in Nat \ {0}  BY ScreenAssumption
<1>2. Screen(Blank, x, 0) \in Screens  BY DEF Screen, Screens
<1>3. Screen(Blank, x, 0).csr_x = x /\ Screen(Blank, x, 0).csr_y = 0  BY DEF Screen
<1>. QED  BY <1>1, <1>2, <1>3

LEMMA CursorAtInit == Init => CursorOnScreen
<1>. SUFFICES ASSUME Init PROVE CursorOnScreen  OBVIOUS
<1>0. scrn_width \in Nat \ {0} /\ Blank \in [Cells -> Printable]
  BY ScreenAssumption DEF Blank
<1>1. /\ vga \in Screens
      /\ vga.csr_x < scrn_width
      /\ vga.csr_y < scrn_height
  <2>1. vga = Screen(Blank, 0, 0)  BY DEF Init, ScreenInit, Screen
  <2>. DEFINE x == 0
  <2>2. x \in Nat /\ x < scrn_width  BY <1>0
  <2>. HIDE DEF x
  <2>3. vga = Screen(Blank, x, 0)  BY <2>1 DEF x
  <2>. QED  BY <1>0, <2>2, <2>3, BlankScreen
<1>. QED  BY <1>1, PositionInCells DEF CursorOnScreen, Screens

(* The cursor is on the screen between any two characters, for every size  *)
(* of the screen and every text: put_char never writes behind it.          *)
THEOREM CursorOnScreenAlways == Spec => []CursorOnScreen
<1>0. scrn_width \in Nat \ {0} /\ Blank \in [Cells -> Printable]
  BY ScreenAssumption DEF Blank
<1>1. Init => CursorOnScreen  BY CursorAtInit
<1>2. CursorOnScreen /\ [Next]_vars => CursorOnScreen'
  <2>. SUFFICES ASSUME CursorOnScreen, [Next]_vars PROVE CursorOnScreen'
    OBVIOUS
  <2>1. CASE vga' = vga  BY <2>1 DEF CursorOnScreen, Position
  <2>2. CASE PutNext
    <3>1. /\ vga' \in Screens
          /\ vga'.csr_x < scrn_width
          /\ vga'.csr_y < scrn_height
      BY <2>2, PutCharStaysOn DEF PutNext, CursorOnScreen
    <3>2. Position(vga') \in Cells  BY <3>1, PositionInCells DEF Screens
    <3>. QED  BY <3>1, <3>2 DEF CursorOnScreen
  <2>3. CASE Clear
    <3>1. vga' = Screen(Blank, vga.csr_x, 0)
      BY <2>3 DEF Clear, clear_screen, Screen
    <3>2. /\ vga' \in Screens
          /\ vga'.csr_x < scrn_width
          /\ vga'.csr_y < scrn_height
      <4>1. vga.csr_x \in Nat /\ vga.csr_x < scrn_width
        BY PartsOf DEF CursorOnScreen
      <4>. QED  BY <3>1, <4>1, <1>0, BlankScreen
    <3>3. Position(vga') \in Cells  BY <3>2, PositionInCells DEF Screens
    <3>. QED  BY <3>2, <3>3 DEF CursorOnScreen
  <2>4. ASSUME NEW name, NEW arg, NEW value, NEW text, Start(name, arg, value, text)
        PROVE  vga' = vga
    BY <2>4 DEF Start
  <2>. QED
    BY <2>1, <2>2, <2>3, <2>4
    DEF Next, vars, Echo, HexConvert, Malloc, Free, Ticks, Rub, EchoKey,
        timer_interrupt_handler
<1>. QED  BY <1>1, <1>2, PTL DEF Spec

-----------------------------------------------------------------------------
LEMMA InnerChar ==
    ASSUME NEW m \in [Cells -> Printable], NEW x \in Nat, NEW y \in Nat,
           x + 1 < scrn_width, y < scrn_height, NEW c \in Printable
    PROVE  put_char(Screen(m, x, y), c)
              = Screen([m EXCEPT ![y * scrn_width + x] = c], x + 1, y)
<1>0. scrn_width \in Nat /\ scrn_height \in Nat  BY ScreenAssumption
<1>. DEFINE n == InCell(m, y * scrn_width + x, c)  z == x + 1
<1>1. put(Screen(m, x, y), c) = Screen(n, z, y)  BY PutPrintable
<1>a. n \in [Cells -> Printable]  BY PutPrintable
<1>b. z \in Nat /\ ~(z >= scrn_width)  BY <1>0
<1>2. n \in [Cells -> Printable] /\ z \in Nat /\ ~(z >= scrn_width)  BY <1>a, <1>b
<1>. HIDE DEF n, z
<1>3. wrap(Screen(n, z, y)) = Screen(n, z, y)  BY <1>2, WrapParts
<1>4. ~(y >= scrn_height)  BY <1>0
<1>5. scroll(Screen(n, z, y)) = Screen(n, z, y)  BY <1>2, <1>4, ScrollParts
<1>6. put_char(Screen(m, x, y), c) = Screen(n, z, y)  BY <1>1, <1>3, <1>5 DEF put_char
<1>. QED  BY <1>6 DEF n, z, InCell

LEMMA InnerBackspace ==
    ASSUME NEW m \in [Cells -> Printable], NEW x \in Nat, NEW y \in Nat,
           x + 1 < scrn_width, y < scrn_height
    PROVE  put_char(Screen(m, x + 1, y), "backspace") = Screen(m, x, y)
<1>0. scrn_width \in Nat /\ scrn_height \in Nat  BY ScreenAssumption
<1>. DEFINE z == x + 1
<1>1. z \in Nat /\ z # 0 /\ z - 1 = x /\ ~(x >= scrn_width)  BY <1>0
<1>. HIDE DEF z
<1>2. put(Screen(m, z, y), "backspace") = Screen(m, IF z # 0 THEN z - 1 ELSE 0, y)
  BY <1>1, PutParts
<1>3. put(Screen(m, z, y), "backspace") = Screen(m, x, y)  BY <1>1, <1>2
<1>4. wrap(Screen(m, x, y)) = Screen(m, x, y)  BY <1>1, WrapParts
<1>5. ~(y >= scrn_height)  BY <1>0
<1>6. scroll(Screen(m, x, y)) = Screen(m, x, y)  BY <1>5, ScrollParts
<1>7. put_char(Screen(m, z, y), "backspace") = Screen(m, x, y)
  BY <1>3, <1>4, <1>6 DEF put_char
<1>. QED  BY <1>7 DEF z

(* What the terminal puts for a backspace takes the last character off the *)
(* screen and puts the cursor back, anywhere but behind the end of a row.  *)
THEOREM RubUndoesAlways == Spec => []RubUndoes
<1>1. CursorOnScreen => RubUndoes
  <2>. SUFFICES ASSUME CursorOnScreen, NEW c \in Printable,
                       vga.csr_x + 1 < scrn_width
                PROVE  put_char(put_char(put_char(put_char(vga, c), "backspace"), " "),
                                "backspace")
                          = [vga EXCEPT !.vga_mem[Position(vga)] = " "]
    BY DEF RubUndoes
  <2>. DEFINE m == vga.vga_mem  x == vga.csr_x  y == vga.csr_y
              p == y * scrn_width + x
  <2>1. /\ vga = Screen(m, x, y)
        /\ m \in [Cells -> Printable] /\ x \in Nat /\ y \in Nat
        /\ x + 1 < scrn_width /\ y < scrn_height /\ " " \in Printable
    BY PartsOf, ScreenAssumption DEF CursorOnScreen
  <2>2. [vga EXCEPT !.vga_mem[Position(vga)] = " "]
           = [vga EXCEPT !.vga_mem = [m EXCEPT ![p] = " "]]
    BY <2>1 DEF Position
  <2>3. [vga EXCEPT !.vga_mem = [m EXCEPT ![p] = " "]]
           = Screen([m EXCEPT ![p] = " "], x, y)
    <3>. DEFINE n == [m EXCEPT ![p] = " "]
    <3>. HIDE DEF n
    <3>1. [Screen(m, x, y) EXCEPT !.vga_mem = n] = Screen(n, x, y)  BY DEF Screen
    <3>. QED  BY <2>1, <3>1 DEF n
  <2>. HIDE DEF m, x, y
  <2>. DEFINE m1 == [m EXCEPT ![p] = c]  m2 == [m1 EXCEPT ![p] = " "]
  <2>4. m1 \in [Cells -> Printable] /\ m2 \in [Cells -> Printable]
        /\ m2 = [m EXCEPT ![p] = " "]
    BY <2>1
  <2>5. put_char(Screen(m, x, y), c) = Screen(m1, x + 1, y)  BY <2>1, InnerChar
  <2>6. put_char(Screen(m1, x, y), " ") = Screen(m2, x + 1, y)
    <3>1. m1 \in [Cells -> Printable]  BY <2>4
    <3>. DEFINE blank == " "
    <3>2. blank \in Printable  BY <2>1
    <3>. HIDE DEF m1, m2, p, blank
    <3>3. put_char(Screen(m1, x, y), blank)
             = Screen([m1 EXCEPT ![y * scrn_width + x] = blank], x + 1, y)
      BY ONLY <2>1, <3>1, <3>2, InnerChar
    <3>. QED  BY <3>3 DEF blank, m2, p
  <2>. HIDE DEF m1, m2, p
  <2>7. put_char(Screen(m1, x + 1, y), "backspace") = Screen(m1, x, y)
    BY <2>1, <2>4, InnerBackspace
  <2>8. put_char(Screen(m2, x + 1, y), "backspace") = Screen(m2, x, y)
    BY <2>1, <2>4, InnerBackspace
  <2>9. put_char(put_char(put_char(put_char(vga, c), "backspace"), " "), "backspace")
           = Screen(m2, x, y)
    BY <2>1, <2>5, <2>6, <2>7, <2>8
  <2>. QED  BY <2>2, <2>3, <2>4, <2>9
<1>. QED  BY <1>1, CursorOnScreenAlways, PTL

-----------------------------------------------------------------------------
(***************************************************************************)
(* The screen implements Paper: the cells, row by row, are the last rows   *)
(* of the roll.                                                            *)
(***************************************************************************)
PaperRow == [1..scrn_width -> Printable]
At(y, i) == (y - 1) * scrn_width + i - 1
Sheet(m) == [y \in 1..scrn_height |-> [i \in 1..scrn_width |-> m[At(y, i)]]]
RollOf(g, m) == g \o Sheet(m)
TopRow(m) == [i \in 1..scrn_width |-> m[At(1, i)]]

LEMMA UpIs ==
    ASSUME NEW m \in [Cells -> Printable], NEW i \in Cells
    PROVE  Up(m)[i] = IF i + scrn_width \in Cells THEN m[i + scrn_width] ELSE Space
BY Zenon DEF Up, Space

LEMMA BlankRowIs ==
    /\ P!BlankRow = [i \in 1..scrn_width |-> Space]
    /\ Space \in Printable
BY Zenon, ScreenAssumption DEF P!BlankRow, Space

(* The cells of a row are those between its beginning and the next row's. *)
LEMMA AtIs ==
    ASSUME NEW y \in 1..scrn_height, NEW i \in 1..scrn_width
    PROVE  /\ At(y, i) \in Cells
           /\ At(y + 1, i) = At(y, i) + scrn_width
           /\ y < scrn_height => At(y, i) + scrn_width \in Cells
           /\ y = scrn_height => At(y, i) + scrn_width \notin Cells
<1>1. scrn_width \in Nat /\ scrn_height \in Nat  BY ScreenAssumption
<1>. DEFINE w == scrn_width  h == scrn_height
            p == (y - 1) * w  q == h * w
<1>2. p \in Nat /\ q \in Nat /\ w * h = q  BY <1>1
<1>3. y * w = p + w  BY <1>1
<1>4. p + w <= q
  BY <1>1, Grows
<1>5. y < h => p + w + w <= q
  BY <1>1, <1>3, Grows
<1>6. y = h => p + w = q  BY <1>3
<1>7. At(y, i) = p + i - 1  BY DEF At
<1>8. At(y + 1, i) = p + w + i - 1
  <2>1. At(y + 1, i) = (y + 1 - 1) * w + i - 1  BY DEF At
  <2>2. y + 1 - 1 = y  OBVIOUS
  <2>. QED  BY <1>3, <2>1, <2>2
<1>9. Cells = 0..(q - 1)  BY <1>2 DEF Cells
<1>. HIDE DEF p, q
<1>. QED  BY <1>1, <1>2, <1>4, <1>5, <1>6, <1>7, <1>8, <1>9

LEMMA AtUnique ==
    ASSUME NEW y \in 1..scrn_height, NEW i \in 1..scrn_width,
           NEW z \in 1..scrn_height, NEW j \in 1..scrn_width,
           At(y, i) = At(z, j)
    PROVE  y = z /\ i = j
<1>1. scrn_width \in Nat /\ scrn_height \in Nat  BY ScreenAssumption
<1>. DEFINE w == scrn_width  p == (y - 1) * w  q == (z - 1) * w
<1>2. p \in Nat /\ q \in Nat  BY <1>1
<1>3. p + i = q + j  BY <1>1, <1>2 DEF At
<1>4. y < z => p + w <= q  BY <1>1, Grows
<1>5. z < y => q + w <= p  BY <1>1, Grows
<1>6. y = z
  <2>. HIDE DEF p, q
  <2>. QED  BY <1>1, <1>2, <1>3, <1>4, <1>5
<1>7. p = q  BY <1>6
<1>. HIDE DEF p, q
<1>. QED  BY <1>1, <1>2, <1>3, <1>6, <1>7

LEMMA SameRow ==
    ASSUME NEW r \in PaperRow, NEW s \in PaperRow,
           \A i \in 1..scrn_width : r[i] = s[i]
    PROVE  r = s
<1>. DEFINE D == 1..scrn_width
<1>1. r \in [D -> Printable] /\ s \in [D -> Printable] /\ \A i \in D : r[i] = s[i]
  BY DEF PaperRow
<1>. HIDE DEF D
<1>. QED  BY <1>1

LEMMA SheetIs ==
    ASSUME NEW m \in [Cells -> Printable]
    PROVE  /\ Sheet(m) \in Seq(PaperRow)
           /\ Len(Sheet(m)) = scrn_height
           /\ \A y \in 1..scrn_height :
                 /\ Sheet(m)[y] \in PaperRow
                 /\ \A i \in 1..scrn_width : Sheet(m)[y][i] = m[At(y, i)]
<1>1. scrn_width \in Nat /\ scrn_height \in Nat  BY ScreenAssumption
<1>2. \A y \in 1..scrn_height, i \in 1..scrn_width : m[At(y, i)] \in Printable
  BY AtIs
<1>3. \A y \in 1..scrn_height : [i \in 1..scrn_width |-> m[At(y, i)]] \in PaperRow
  BY <1>2 DEF PaperRow
<1>4. Sheet(m) \in [1..scrn_height -> PaperRow]  BY <1>3 DEF Sheet
<1>5. Sheet(m) \in Seq(PaperRow) /\ Len(Sheet(m)) = scrn_height
  BY <1>1, <1>4
<1>6. \A y \in 1..scrn_height : Sheet(m)[y] = [i \in 1..scrn_width |-> m[At(y, i)]]
  BY DEF Sheet
<1>7. ASSUME NEW y \in 1..scrn_height
      PROVE  /\ Sheet(m)[y] \in PaperRow
             /\ \A i \in 1..scrn_width : Sheet(m)[y][i] = m[At(y, i)]
  <2>1. Sheet(m)[y] = [i \in 1..scrn_width |-> m[At(y, i)]]  BY <1>6
  <2>. QED  BY <1>3, <2>1
<1>. QED  BY <1>5, <1>7

LEMMA RollIs ==
    ASSUME NEW g \in Seq(PaperRow), NEW m \in [Cells -> Printable]
    PROVE  /\ RollOf(g, m) \in Seq(PaperRow)
           /\ Len(RollOf(g, m)) = Len(g) + scrn_height
           /\ \A k \in 1..Len(g) : RollOf(g, m)[k] = g[k]
           /\ \A y \in 1..scrn_height : RollOf(g, m)[Len(g) + y] = Sheet(m)[y]
<1>1. scrn_height \in Nat /\ Len(g) \in Nat  BY ScreenAssumption, LenProperties
<1>2. Sheet(m) \in Seq(PaperRow) /\ Len(Sheet(m)) = scrn_height  BY SheetIs
<1>3. /\ g \o Sheet(m) \in Seq(PaperRow)
      /\ Len(g \o Sheet(m)) = Len(g) + scrn_height
      /\ \A k \in 1..(Len(g) + scrn_height) : (g \o Sheet(m))[k] =
            IF k <= Len(g) THEN g[k] ELSE Sheet(m)[k - Len(g)]
  BY <1>2, ConcatProperties
<1>4. ASSUME NEW y \in 1..scrn_height
      PROVE  (g \o Sheet(m))[Len(g) + y] = Sheet(m)[y]
  <2>1. Len(g) + y \in 1..(Len(g) + scrn_height) /\ ~(Len(g) + y <= Len(g))
        /\ (Len(g) + y) - Len(g) = y
    BY <1>1
  <2>. QED  BY <1>3, <2>1
<1>. QED  BY <1>1, <1>3, <1>4 DEF RollOf

(* Two rolls of the same length and with the same rows are the same. *)
LEMMA SameRoll ==
    ASSUME NEW g \in Seq(PaperRow), NEW m \in [Cells -> Printable],
           NEW r \in Seq(PaperRow), Len(r) = Len(g) + scrn_height,
           \A k \in 1..Len(g) : r[k] = g[k],
           \A y \in 1..scrn_height : r[Len(g) + y] = Sheet(m)[y]
    PROVE  r = RollOf(g, m)
<1>1. scrn_height \in Nat /\ Len(g) \in Nat  BY ScreenAssumption, LenProperties
<1>2. ASSUME NEW k \in 1..Len(r) PROVE r[k] = RollOf(g, m)[k]
  <2>1. CASE k \in 1..Len(g)  BY <2>1, RollIs
  <2>2. CASE k \notin 1..Len(g)
    <3>1. k - Len(g) \in 1..scrn_height /\ k = Len(g) + (k - Len(g))
      BY <1>1, <2>2
    <3>. QED  BY <3>1, RollIs
  <2>. QED  BY <2>1, <2>2
<1>. QED  BY <1>2, RollIs, SeqEqual

(* A character that is put in a cell is written in that place of the roll. *)
OnPaper(paper, line, i, c) == [paper EXCEPT ![line][i] = c]

LEMMA RollTyped ==
    ASSUME NEW g \in Seq(PaperRow), NEW m \in [Cells -> Printable],
           NEW y \in 1..scrn_height, NEW i \in 1..scrn_width, NEW c \in Printable
    PROVE  RollOf(g, InCell(m, At(y, i), c)) = OnPaper(RollOf(g, m), Len(g) + y, i, c)
<1>1. scrn_height \in Nat /\ Len(g) \in Nat  BY ScreenAssumption, LenProperties
<1>. DEFINE n == [m EXCEPT ![At(y, i)] = c]
            r == RollOf(g, m)
            p == Len(g) + y
            line == [r[p] EXCEPT ![i] = c]
            t == [r EXCEPT ![p] = line]
<1>2. n \in [Cells -> Printable] /\ At(y, i) \in Cells  BY AtIs
<1>3. /\ r \in Seq(PaperRow) /\ Len(r) = Len(g) + scrn_height
      /\ \A k \in 1..Len(g) : r[k] = g[k]
      /\ \A z \in 1..scrn_height : r[Len(g) + z] = Sheet(m)[z]
  BY RollIs
<1>4. p \in 1..Len(r) /\ p \notin 1..Len(g)  BY <1>1, <1>3
<1>5. r[p] = Sheet(m)[y] /\ Sheet(m)[y] \in PaperRow  BY <1>3, SheetIs
<1>6. line \in PaperRow /\ line[i] = c
      /\ \A j \in 1..scrn_width : j # i => line[j] = Sheet(m)[y][j]
  BY <1>5 DEF PaperRow
<1>7. /\ t \in Seq(PaperRow) /\ Len(t) = Len(r) /\ t[p] = line
      /\ \A k \in 1..Len(r) : k # p => t[k] = r[k]
  <2>. HIDE DEF line, p, r
  <2>. QED  BY <1>3, <1>4, <1>6, ExceptSeq
<1>8. ASSUME NEW z \in 1..scrn_height PROVE t[Len(g) + z] = Sheet(n)[z]
  <2>1. CASE z # y
    <3>1. Len(g) + z \in 1..Len(r) /\ Len(g) + z # p  BY <1>1, <1>3, <2>1
    <3>2. t[Len(g) + z] = Sheet(m)[z]  BY <1>3, <1>7, <3>1
    <3>3. \A j \in 1..scrn_width : Sheet(n)[z][j] = Sheet(m)[z][j]
      <4>. SUFFICES ASSUME NEW j \in 1..scrn_width
                    PROVE  Sheet(n)[z][j] = Sheet(m)[z][j]
        OBVIOUS
      <4>1. At(z, j) # At(y, i) /\ At(z, j) \in Cells  BY <2>1, AtUnique, AtIs
      <4>2. n[At(z, j)] = m[At(z, j)]  BY <4>1
      <4>3. Sheet(n)[z][j] = n[At(z, j)] /\ Sheet(m)[z][j] = m[At(z, j)]
        BY <1>2, SheetIs
      <4>. QED  BY <4>2, <4>3
    <3>4. Sheet(n)[z] \in PaperRow /\ Sheet(m)[z] \in PaperRow  BY <1>2, SheetIs
    <3>5. Sheet(n)[z] = Sheet(m)[z]
      <4>. HIDE DEF n
      <4>. QED  BY <3>3, <3>4, SameRow
    <3>. QED  BY <3>2, <3>5
  <2>2. CASE z = y
    <3>1. \A j \in 1..scrn_width : Sheet(n)[y][j] = line[j]
      <4>. SUFFICES ASSUME NEW j \in 1..scrn_width
                    PROVE  Sheet(n)[y][j] = line[j]
        OBVIOUS
      <4>1. Sheet(n)[y][j] = n[At(y, j)] /\ Sheet(m)[y][j] = m[At(y, j)]
        BY <1>2, SheetIs
      <4>2. CASE j = i
        <5>1. n[At(y, j)] = c  BY <1>2, <4>2
        <5>. QED  BY <1>6, <4>1, <4>2, <5>1
      <4>3. CASE j # i
        <5>1. At(y, j) # At(y, i) /\ At(y, j) \in Cells  BY <4>3, AtUnique, AtIs
        <5>2. n[At(y, j)] = m[At(y, j)]  BY <5>1
        <5>. QED  BY <1>6, <4>1, <4>3, <5>2
      <4>. QED  BY <4>2, <4>3
    <3>2. Sheet(n)[y] \in PaperRow  BY <1>2, SheetIs
    <3>3. Sheet(n)[y] = line
      <4>. HIDE DEF line, n
      <4>. QED  BY <1>6, <3>1, <3>2, SameRow
    <3>4. Len(g) + z = p  BY <2>2
    <3>. QED  BY <1>7, <2>2, <3>3, <3>4
  <2>. QED  BY <2>1, <2>2
<1>9. \A k \in 1..Len(g) : t[k] = g[k]
  <2>1. \A k \in 1..Len(g) : k \in 1..Len(r) /\ k # p  BY <1>1, <1>3
  <2>. QED  BY <1>3, <1>7, <2>1
<1>10. t = RollOf(g, n)
  <2>1. \A z \in 1..scrn_height : t[Len(g) + z] = Sheet(n)[z]  BY <1>8
  <2>2. n \in [Cells -> Printable] /\ t \in Seq(PaperRow) /\ Len(t) = Len(g) + scrn_height
    BY <1>2, <1>3, <1>7
  <2>. HIDE DEF t, n
  <2>. QED  BY <1>9, <2>1, <2>2, SameRoll
<1>. QED  BY <1>10 DEF InCell, OnPaper

(* After a scroll the top row is on the roll above the screen, and below   *)
(* the others there is a blank one.                                        *)
LEMMA RollScrolled ==
    ASSUME NEW g \in Seq(PaperRow), NEW m \in [Cells -> Printable]
    PROVE  /\ Append(g, TopRow(m)) \in Seq(PaperRow)
           /\ Len(Append(g, TopRow(m))) = Len(g) + 1
           /\ RollOf(Append(g, TopRow(m)), Up(m)) = Append(RollOf(g, m), P!BlankRow)
<1>1. scrn_height \in Nat \ {0} /\ scrn_width \in Nat /\ Len(g) \in Nat
  BY ScreenAssumption, LenProperties
<1>. DEFINE top == TopRow(m)
            g2 == Append(g, top)
            r == RollOf(g, m)
            t == Append(r, P!BlankRow)
<1>2. /\ r \in Seq(PaperRow) /\ Len(r) = Len(g) + scrn_height
      /\ \A k \in 1..Len(g) : r[k] = g[k]
      /\ \A z \in 1..scrn_height : r[Len(g) + z] = Sheet(m)[z]
  BY RollIs
<1>3. top = Sheet(m)[1] /\ top \in PaperRow
  <2>1. 1 \in 1..scrn_height  BY <1>1
  <2>2. top = Sheet(m)[1]  BY <2>1 DEF TopRow, Sheet
  <2>. QED  BY <2>1, <2>2, SheetIs
<1>4. P!BlankRow \in PaperRow /\ \A i \in 1..scrn_width : P!BlankRow[i] = Space
  BY BlankRowIs DEF PaperRow
<1>5. Up(m) \in [Cells -> Printable]  BY ScrollParts
<1>. HIDE DEF top
<1>6. /\ g2 \in Seq(PaperRow) /\ Len(g2) = Len(g) + 1
      /\ g2[Len(g) + 1] = top /\ \A k \in 1..Len(g) : g2[k] = g[k]
  BY <1>1, <1>3, AppendProperties
<1>. HIDE DEF r
<1>7. /\ t \in Seq(PaperRow) /\ Len(t) = Len(r) + 1
      /\ t[Len(r) + 1] = P!BlankRow /\ \A k \in 1..Len(r) : t[k] = r[k]
  BY <1>2, <1>4, AppendProperties
<1>8. ASSUME NEW k \in 1..Len(g2) PROVE t[k] = g2[k]
  <2>1. CASE k \in 1..Len(g)
    <3>1. k \in 1..Len(r)  BY <1>1, <1>2, <2>1
    <3>. QED  BY <1>2, <1>6, <1>7, <2>1, <3>1
  <2>2. CASE k \notin 1..Len(g)
    <3>1. k = Len(g) + 1 /\ k \in 1..Len(r) /\ 1 \in 1..scrn_height
      BY <1>1, <1>2, <1>6, <2>2
    <3>2. t[k] = Sheet(m)[1]  BY <1>2, <1>7, <3>1
    <3>. QED  BY <1>3, <1>6, <3>1, <3>2
  <2>. QED  BY <2>1, <2>2
<1>9. ASSUME NEW y \in 1..scrn_height PROVE t[Len(g2) + y] = Sheet(Up(m))[y]
  <2>0. Sheet(Up(m))[y] \in PaperRow
        /\ \A i \in 1..scrn_width : Sheet(Up(m))[y][i] = Up(m)[At(y, i)]
    BY <1>5, SheetIs
  <2>1. CASE y < scrn_height
    <3>1. /\ y + 1 \in 1..scrn_height
          /\ Len(g2) + y = Len(g) + (y + 1)
          /\ Len(g) + (y + 1) \in 1..Len(r)
      BY <1>1, <1>2, <1>6, <2>1
    <3>2. t[Len(g2) + y] = Sheet(m)[y + 1]  BY <1>2, <1>7, <3>1
    <3>3. Sheet(m)[y + 1] \in PaperRow
          /\ \A i \in 1..scrn_width : Sheet(m)[y + 1][i] = m[At(y + 1, i)]
      BY <3>1, SheetIs
    <3>4. \A i \in 1..scrn_width : Up(m)[At(y, i)] = m[At(y + 1, i)]
      BY <2>1, AtIs, UpIs
    <3>5. Sheet(m)[y + 1] = Sheet(Up(m))[y]
      BY <2>0, <3>3, <3>4, SameRow
    <3>. QED  BY <3>2, <3>5
  <2>2. CASE y = scrn_height
    <3>1. Len(g2) + y = Len(r) + 1  BY <1>1, <1>2, <1>6, <2>2
    <3>2. \A i \in 1..scrn_width : Up(m)[At(y, i)] = Space
      BY <2>2, AtIs, UpIs
    <3>3. P!BlankRow = Sheet(Up(m))[y]
      BY <1>4, <2>0, <3>2, SameRow
    <3>. QED  BY <1>7, <3>1, <3>3
  <2>3. y < scrn_height \/ y = scrn_height  BY <1>1
  <2>. QED  BY <2>1, <2>2, <2>3
<1>10. t = RollOf(g2, Up(m))
  <2>1. Len(t) = Len(g2) + scrn_height  BY <1>1, <1>2, <1>6, <1>7
  <2>. HIDE DEF t, g2
  <2>. QED  BY <1>5, <1>6, <1>7, <1>8, <1>9, <2>1, SameRoll
<1>. QED  BY <1>6, <1>10 DEF top, r

(* The next multiple of the tab stop is at most that far away. *)
LEMMA TabIs ==
    ASSUME NEW x \in Nat
    PROVE  /\ tab(x) \in Nat
           /\ tab(x) >= x + 1 /\ tab(x) <= x + TabStop
           /\ tab(x) % TabStop = 0
<1>. DEFINE T == TabStop  q == x \div T  r == x % T
<1>. TabStop \in Nat \ {0}  BY ScreenAssumption
<1>1. T \in Nat /\ T > 0  OBVIOUS
<1>2. q \in Nat /\ r \in 0..(T-1) /\ x = q * T + r  BY <1>1, DivMod
<1>3. tab(x) = (q + 1) * T  BY DEF tab
<1>4. (q + 1) * T = q * T + T /\ q * T \in Nat  BY <1>1, <1>2
<1>5. ((q + 1) * T + 0) % T = 0
  <2>1. q + 1 \in Nat /\ 0 \in 0..(T-1)  BY <1>1, <1>2
  <2>. HIDE DEF q, r, T
  <2>. QED  BY <1>1, <2>1, DivUnique
<1>. DEFINE s == q * T
<1>6. s \in Nat /\ x = s + r /\ tab(x) = s + T  BY <1>2, <1>3, <1>4
<1>7. tab(x) % T = 0
  <2>1. (q + 1) * T + 0 = tab(x)  BY <1>1, <1>3, <1>6
  <2>. HIDE DEF q, T
  <2>. QED  BY <1>5, <2>1
<1>. HIDE DEF q, r, T, s
<1>8. tab(x) \in Nat /\ tab(x) >= x + 1 /\ tab(x) <= x + T  BY <1>1, <1>2, <1>6
<1>. QED  BY <1>7, <1>8 DEF T

-----------------------------------------------------------------------------
RollInv == CursorOnScreen /\ gone \in Seq(PaperRow)

LEMMA RollNow ==
    /\ Roll = RollOf(gone, vga.vga_mem)
    /\ Roll' = RollOf(gone', vga'.vga_mem)
BY DEF Roll, Row, RollOf, Sheet, At

LEMMA TopRowIs ==
    ASSUME NEW m, NEW x, NEW y
    PROVE  Row(Screen(m, x, y), 0) = TopRow(m)
<1>1. \A i \in 1..scrn_width : 0 * scrn_width + i - 1 = At(1, i)
  <2>1. scrn_width \in Nat  BY ScreenAssumption
  <2>. QED  BY <2>1 DEF At
<1>2. Screen(m, x, y).vga_mem = m  BY DEF Screen
<1>. QED  BY <1>1, <1>2 DEF Row, TopRow

(* The cursor is still in a row of the screen: nothing scrolls. *)
LEMMA SameRowNext ==
    ASSUME RollInv, PutNext,
           NEW m \in [Cells -> Printable], NEW x \in Nat, x < scrn_width,
           put(vga, Head(out)) = Screen(m, x, vga.csr_y)
    PROVE  /\ gone' = gone
           /\ Roll' = RollOf(gone, m)
           /\ vga'.csr_x = x
           /\ vga'.csr_y = vga.csr_y
<1>. DEFINE y == vga.csr_y
<1>0. scrn_width \in Nat /\ scrn_height \in Nat /\ y \in Nat /\ y < scrn_height
  BY ScreenAssumption, PartsOf DEF RollInv, CursorOnScreen
<1>. HIDE DEF y
<1>1. put(vga, Head(out)) = Screen(m, x, y)  BY DEF y
<1>2. wrap(put(vga, Head(out))) = Screen(m, x, y)
  BY <1>0, <1>1, WrapParts
<1>3. vga' = Screen(m, x, y)
  <2>1. scroll(Screen(m, x, y)) = Screen(m, x, y)  BY <1>0, ScrollParts
  <2>. QED  BY <1>2, <2>1 DEF PutNext, put_char
<1>4. gone' = gone
  <2>1. Screen(m, x, y).csr_y = y  BY DEF Screen
  <2>. QED  BY <1>0, <1>2, <2>1 DEF PutNext
<1>. QED  BY <1>0, <1>3, <1>4, RollNow, ScreenOf DEF y

(* The cursor moves to the next row, which scrolls the screen if it was in *)
(* the last one.                                                           *)
LEMMA NextRow ==
    ASSUME RollInv, PutNext,
           NEW m \in [Cells -> Printable],
           wrap(put(vga, Head(out))) = Screen(m, 0, vga.csr_y + 1)
    PROVE  P!Down(RollOf(gone, m)) /\ gone' \in Seq(PaperRow)
<1>. DEFINE y == vga.csr_y
<1>0. /\ scrn_width \in Nat /\ scrn_height \in Nat /\ y \in Nat /\ y < scrn_height
      /\ gone \in Seq(PaperRow) /\ Len(gone) \in Nat
  BY ScreenAssumption, PartsOf, LenProperties DEF RollInv, CursorOnScreen
<1>. DEFINE z == y + 1
<1>1. wrap(put(vga, Head(out))) = Screen(m, 0, z) /\ z \in Nat
  BY <1>0
<1>2. Len(RollOf(gone, m)) = Len(gone) + scrn_height  BY <1>0, RollIs
<1>3. /\ Screen(m, 0, z).csr_y = z
      /\ vga' = scroll(Screen(m, 0, z))
      /\ gone' = IF z >= scrn_height THEN Append(gone, TopRow(m)) ELSE gone
  <2>1. Screen(m, 0, z).csr_y = z  BY DEF Screen
  <2>2. vga' = scroll(Screen(m, 0, z))  BY <1>1 DEF PutNext, put_char
  <2>3. Row(Screen(m, 0, z), 0) = TopRow(m)  BY TopRowIs
  <2>. QED  BY <1>1, <2>1, <2>2, <2>3 DEF PutNext
<1>4. CASE z >= scrn_height
  <2>1. z = scrn_height  BY <1>0, <1>4
  <2>2. /\ vga'.vga_mem = Up(m) /\ vga'.csr_x = 0 /\ vga'.csr_y = y
    <3>1. vga' = Screen(Up(m), 0, scrn_height - 1)  BY <1>1, <1>3, <1>4, ScrollParts
    <3>2. scrn_height - 1 = y  BY <1>0, <2>1
    <3>. QED  BY <3>1, <3>2 DEF Screen
  <2>3. /\ gone' \in Seq(PaperRow) /\ Len(gone') = Len(gone) + 1
        /\ Roll' = Append(RollOf(gone, m), P!BlankRow)
    BY <1>0, <1>3, <1>4, <2>2, RollScrolled, RollNow
  <2>4. (vga.csr_x + 1)' = 1  BY <2>2
  <2>5. (Len(gone) + vga.csr_y + 1)' = (Len(gone) + vga.csr_y + 1) + 1
    <3>1. Len(gone') = Len(gone) + 1 /\ vga'.csr_y = vga.csr_y
      BY <2>2, <2>3
    <3>2. vga.csr_y \in Nat /\ Len(gone) \in Nat  BY <1>0
    <3>. QED  BY ONLY <3>1, <3>2
  <2>6. Len(gone) + vga.csr_y + 1 = Len(RollOf(gone, m))
    <3>1. Len(RollOf(gone, m)) = Len(gone) + (vga.csr_y + 1)  BY <1>2, <2>1
    <3>2. vga.csr_y \in Nat /\ Len(gone) \in Nat  BY <1>0
    <3>. QED  BY ONLY <3>1, <3>2
  <2>. QED  BY <2>3, <2>4, <2>5, <2>6 DEF P!Down
<1>5. CASE ~(z >= scrn_height)
  <2>2. /\ vga'.vga_mem = m /\ vga'.csr_x = 0 /\ vga'.csr_y = z
    <3>1. vga' = Screen(m, 0, z)  BY <1>1, <1>3, <1>5, ScrollParts
    <3>. QED  BY <3>1 DEF Screen
  <2>3. gone' = gone /\ Roll' = RollOf(gone, m)
    BY <1>3, <1>5, <2>2, RollNow
  <2>4. (vga.csr_x + 1)' = 1  BY <2>2
  <2>5. (Len(gone) + vga.csr_y + 1)' = (Len(gone) + vga.csr_y + 1) + 1
    BY <1>0, <2>2, <2>3
  <2>6. Len(gone) + vga.csr_y + 1 # Len(RollOf(gone, m))
    BY <1>0, <1>2, <1>5
  <2>. QED  BY <1>0, <2>3, <2>4, <2>5, <2>6 DEF P!Down
<1>. QED  BY <1>4, <1>5

(* What the proofs of one character start from. *)
Here(m, x, y) ==
    /\ m = vga.vga_mem /\ x = vga.csr_x /\ y = vga.csr_y
    /\ m \in [Cells -> Printable] /\ x \in Nat /\ y \in Nat
    /\ x < scrn_width /\ y < scrn_height
    /\ vga = Screen(m, x, y)
    /\ scrn_width \in Nat \ {0} /\ scrn_height \in Nat \ {0}
    /\ gone \in Seq(PaperRow) /\ Len(gone) \in Nat

LEMMA HereIs == ASSUME RollInv PROVE \E m, x, y : Here(m, x, y)
<1>1. Here(vga.vga_mem, vga.csr_x, vga.csr_y)
  BY ScreenAssumption, PartsOf, LenProperties DEF Here, RollInv, CursorOnScreen
<1>. QED  BY <1>1

LEMMA CharTyped ==
    ASSUME RollInv, PutNext, Head(out) \in Printable
    PROVE  P!Type /\ gone' \in Seq(PaperRow)
<1>1. PICK m, x, y : Here(m, x, y)  BY HereIs
<1>. DEFINE c == Head(out)
            n == InCell(m, y * scrn_width + x, c)
            typed == [Roll EXCEPT ![Len(gone) + vga.csr_y + 1][vga.csr_x + 1] = c]
<1>0. m \in [Cells -> Printable] /\ x \in Nat /\ y \in Nat /\ vga = Screen(m, x, y)
  BY <1>1 DEF Here
<1>2. c \in Printable /\ n \in [Cells -> Printable]  BY <1>0, PutPrintable
<1>3. put(vga, c) = Screen(n, x + 1, y)  BY <1>0, PutPrintable
<1>4. typed = RollOf(gone, n)
  <2>1. y + 1 \in 1..scrn_height /\ x + 1 \in 1..scrn_width  BY <1>1 DEF Here
  <2>2. At(y + 1, x + 1) = y * scrn_width + x
    <3>. DEFINE p == y + 1  q == x + 1
    <3>1. p - 1 = y /\ q \in Nat /\ q = x + 1 /\ x \in Nat
          /\ y * scrn_width \in Nat
      BY <1>1 DEF Here
    <3>. HIDE DEF p, q
    <3>2. At(p, q) = (p - 1) * scrn_width + q - 1  BY DEF At
    <3>3. At(p, q) = y * scrn_width + q - 1  BY <3>1, <3>2
    <3>4. At(p, q) = y * scrn_width + x
      <4>. DEFINE s == y * scrn_width
      <4>. HIDE DEF s
      <4>1. s \in Nat /\ At(p, q) = s + q - 1  BY <3>1, <3>3 DEF s
      <4>2. At(p, q) = s + x  BY <3>1, <4>1
      <4>. QED  BY <4>2 DEF s
    <3>. QED  BY <3>4 DEF p, q
  <2>3. RollOf(gone, InCell(m, At(y + 1, x + 1), c))
           = OnPaper(RollOf(gone, m), Len(gone) + (y + 1), x + 1, c)
    <3>. DEFINE p == y + 1  q == x + 1
    <3>1. p \in 1..scrn_height /\ q \in 1..scrn_width  BY <2>1
    <3>2. gone \in Seq(PaperRow) /\ m \in [Cells -> Printable]  BY <1>1 DEF Here
    <3>. HIDE DEF p, q, c
    <3>3. RollOf(gone, InCell(m, At(p, q), c))
             = OnPaper(RollOf(gone, m), Len(gone) + p, q, c)
      BY <1>2, <3>1, <3>2, RollTyped
    <3>. QED  BY <3>3 DEF p, q
  <2>4. Len(gone) + (y + 1) = Len(gone) + vga.csr_y + 1
        /\ x + 1 = vga.csr_x + 1 /\ Roll = RollOf(gone, m)
    BY <1>1, RollNow DEF Here
  <2>. QED  BY <2>2, <2>3, <2>4 DEF OnPaper
<1>5. P!Take(c)  BY DEF PutNext, P!Take
<1>6. CASE x + 1 < scrn_width
  <2>1. /\ gone' = gone /\ Roll' = RollOf(gone, n)
        /\ vga'.csr_x = x + 1 /\ vga'.csr_y = vga.csr_y
    <3>1. x + 1 \in Nat /\ put(vga, Head(out)) = Screen(n, x + 1, vga.csr_y)
      BY <1>1, <1>3 DEF Here
    <3>. HIDE DEF n, c
    <3>. QED  BY <1>2, <1>6, <3>1, SameRowNext
  <2>2. /\ vga.csr_x + 1 < scrn_width
        /\ (vga.csr_x + 1)' = (vga.csr_x + 1) + 1
        /\ Roll' = typed
        /\ UNCHANGED (Len(gone) + vga.csr_y + 1)
    BY <1>1, <1>4, <1>6, <2>1 DEF Here
  <2>3. gone' \in Seq(PaperRow)  BY <1>1, <2>1 DEF Here
  <2>. QED  BY <1>2, <1>5, <2>2, <2>3 DEF P!Type
<1>7. CASE ~(x + 1 < scrn_width)
  <2>1. x + 1 = scrn_width /\ x + 1 >= scrn_width /\ x + 1 \in Nat  BY <1>1, <1>7 DEF Here
  <2>2. wrap(put(vga, c)) = Screen(n, 0, y + 1)
    <3>. DEFINE k == x + 1
    <3>1. k \in Nat /\ k >= scrn_width /\ put(vga, c) = Screen(n, k, y)
      BY <1>3, <2>1
    <3>2. y \in Nat  BY <1>1 DEF Here
    <3>. HIDE DEF n, c, k
    <3>. QED  BY <1>2, <3>1, <3>2, WrapParts
  <2>3. P!Down(RollOf(gone, n)) /\ gone' \in Seq(PaperRow)
    <3>1. wrap(put(vga, Head(out))) = Screen(n, 0, vga.csr_y + 1)
      BY <1>1, <2>2 DEF Here
    <3>. HIDE DEF n, c
    <3>. QED  BY <1>2, <3>1, NextRow
  <2>4. vga.csr_x + 1 = scrn_width  BY <1>1, <2>1 DEF Here
  <2>5. P!Down(typed)
    <3>. HIDE DEF n, typed
    <3>. QED  BY <1>4, <2>3
  <2>. QED  BY <1>2, <1>5, <2>3, <2>4, <2>5 DEF P!Type
<1>. QED  BY <1>6, <1>7

LEMMA SteppedBack ==
    ASSUME RollInv, PutNext, Head(out) = "backspace"
    PROVE  P!Back /\ gone' \in Seq(PaperRow)
<1>1. PICK m, x, y : Here(m, x, y)  BY HereIs
<1>. DEFINE b == IF x # 0 THEN x - 1 ELSE 0
<1>2. b \in Nat /\ b < scrn_width /\ b + 1 = IF x + 1 > 1 THEN (x + 1) - 1 ELSE x + 1
  BY <1>1 DEF Here
<1>3. put(vga, Head(out)) = Screen(m, b, vga.csr_y)
  <2>0. m \in [Cells -> Printable] /\ x \in Nat /\ y \in Nat  BY <1>1 DEF Here
  <2>1. put(Screen(m, x, y), "backspace") = Screen(m, b, y)  BY <2>0, PutParts
  <2>. QED  BY <1>1, <2>1 DEF Here
<1>. HIDE DEF b
<1>4. /\ gone' = gone /\ Roll' = RollOf(gone, m)
      /\ vga'.csr_x = b /\ vga'.csr_y = vga.csr_y
  BY <1>1, <1>2, <1>3, SameRowNext DEF Here
<1>5. /\ Roll' = Roll /\ UNCHANGED (Len(gone) + vga.csr_y + 1)
      /\ gone' \in Seq(PaperRow)
  BY <1>1, <1>4, RollNow DEF Here
<1>6. (vga.csr_x + 1)' = IF vga.csr_x + 1 > 1 THEN (vga.csr_x + 1) - 1 ELSE vga.csr_x + 1
  BY <1>1, <1>2, <1>4 DEF Here
<1>7. P!Take("backspace")  BY DEF PutNext, P!Take
<1>. QED  BY <1>5, <1>6, <1>7 DEF P!Back

LEMMA Tabbed ==
    ASSUME RollInv, PutNext, Head(out) = "tab"
    PROVE  P!Tab /\ gone' \in Seq(PaperRow)
<1>1. PICK m, x, y : Here(m, x, y)  BY HereIs
<1>. DEFINE t == tab(x)  next == t + 1  c == vga.csr_x + 1
<1>0. TabStop \in Nat  BY ScreenAssumption
<1>2. t \in Nat /\ t >= x + 1 /\ t <= x + TabStop /\ t % TabStop = 0 /\ x = vga.csr_x
      /\ x \in Nat
  BY <1>1, TabIs DEF Here
<1>3. put(vga, Head(out)) = Screen(m, t, vga.csr_y)
  <2>0. m \in [Cells -> Printable] /\ x \in Nat /\ y \in Nat  BY <1>1 DEF Here
  <2>1. put(Screen(m, x, y), "tab") = Screen(m, tab(x), y)  BY <2>0, PutParts
  <2>. QED  BY <1>1, <2>1 DEF Here
<1>. HIDE DEF t
<1>4. next \in (c + 1)..(c + TabStop) /\ next - 1 = t
  BY <1>0, <1>2
<1>5. P!Take("tab")  BY DEF PutNext, P!Take
<1>6. CASE t < scrn_width
  <2>1. /\ gone' = gone /\ Roll' = RollOf(gone, m)
        /\ vga'.csr_x = t /\ vga'.csr_y = vga.csr_y
    BY <1>1, <1>2, <1>3, <1>6, SameRowNext DEF Here
  <2>2. /\ Roll' = Roll /\ UNCHANGED (Len(gone) + vga.csr_y + 1)
        /\ gone' \in Seq(PaperRow)
    BY <1>1, <2>1, RollNow DEF Here
  <2>3. (vga.csr_x + 1)' = next /\ next <= scrn_width
    BY <1>1, <1>2, <1>6, <2>1 DEF Here
  <2>. HIDE DEF next, c
  <2>4. (next - 1) % TabStop = 0  BY <1>2, <1>4
  <2>. QED  BY <1>4, <1>5, <2>2, <2>3, <2>4 DEF P!Tab, c
<1>7. CASE ~(t < scrn_width)
  <2>1. wrap(put(vga, Head(out))) = Screen(m, 0, vga.csr_y + 1)
    <3>1. t >= scrn_width /\ m \in [Cells -> Printable] /\ y \in Nat
          /\ put(vga, Head(out)) = Screen(m, t, y)
      BY <1>1, <1>2, <1>3, <1>7 DEF Here
    <3>2. wrap(put(vga, Head(out))) = Screen(m, 0, y + 1)
      BY <1>2, <3>1, WrapParts
    <3>. QED  BY <1>1, <3>2 DEF Here
  <2>2. P!Down(RollOf(gone, m)) /\ gone' \in Seq(PaperRow)
    BY <1>1, <2>1, NextRow DEF Here
  <2>3. P!Down(Roll)  BY <1>1, <2>2, RollNow DEF Here
  <2>4. next > scrn_width  BY <1>1, <1>2, <1>7 DEF Here
  <2>. HIDE DEF next, c
  <2>5. (next - 1) % TabStop = 0  BY <1>2, <1>4
  <2>. QED  BY <1>4, <1>5, <2>2, <2>3, <2>4, <2>5 DEF P!Tab, c
<1>. QED  BY <1>6, <1>7

LEMMA Returned ==
    ASSUME RollInv, PutNext, Head(out) = "return"
    PROVE  P!Return /\ gone' \in Seq(PaperRow)
<1>1. PICK m, x, y : Here(m, x, y)  BY HereIs
<1>2. put(vga, Head(out)) = Screen(m, 0, vga.csr_y)
  <2>1. m \in [Cells -> Printable] /\ x \in Nat /\ y \in Nat  BY <1>1 DEF Here
  <2>2. put(Screen(m, x, y), "return") = Screen(m, 0, y)  BY <2>1, PutParts
  <2>. QED  BY <1>1, <2>2 DEF Here
<1>3. 0 \in Nat /\ 0 < scrn_width  BY <1>1 DEF Here
<1>4. /\ gone' = gone /\ Roll' = RollOf(gone, m)
      /\ vga'.csr_x = 0 /\ vga'.csr_y = vga.csr_y
  BY <1>1, <1>2, <1>3, SameRowNext DEF Here
<1>5. /\ Roll' = Roll /\ UNCHANGED (Len(gone) + vga.csr_y + 1)
      /\ gone' \in Seq(PaperRow) /\ (vga.csr_x + 1)' = 1
  BY <1>1, <1>4, RollNow DEF Here
<1>6. P!Take("return")  BY DEF PutNext, P!Take
<1>. QED  BY <1>5, <1>6 DEF P!Return

LEMMA Fed ==
    ASSUME RollInv, PutNext, Head(out) = "newline"
    PROVE  P!Feed /\ gone' \in Seq(PaperRow)
<1>1. PICK m, x, y : Here(m, x, y)  BY HereIs
<1>2. put(vga, Head(out)) = Screen(m, 0, y + 1)
  <2>1. m \in [Cells -> Printable] /\ x \in Nat /\ y \in Nat  BY <1>1 DEF Here
  <2>2. put(Screen(m, x, y), "newline") = Screen(m, 0, y + 1)  BY <2>1, PutParts
  <2>. QED  BY <1>1, <2>2 DEF Here
<1>3. wrap(put(vga, Head(out))) = Screen(m, 0, vga.csr_y + 1)
  <2>. DEFINE z == y + 1
  <2>1. z \in Nat /\ ~(0 >= scrn_width) /\ m \in [Cells -> Printable]
        /\ z = vga.csr_y + 1 /\ put(vga, Head(out)) = Screen(m, 0, z)
    BY <1>1, <1>2 DEF Here
  <2>. HIDE DEF z
  <2>2. wrap(Screen(m, 0, z)) = Screen(m, 0, z)  BY <2>1, WrapParts
  <2>. QED  BY <2>1, <2>2
<1>4. P!Down(RollOf(gone, m)) /\ gone' \in Seq(PaperRow)
  BY <1>1, <1>3, NextRow DEF Here
<1>5. P!Down(Roll)  BY <1>1, <1>4, RollNow DEF Here
<1>6. P!Take("newline")  BY DEF PutNext, P!Take
<1>. QED  BY <1>4, <1>5, <1>6 DEF P!Feed

LEMMA Ignored ==
    ASSUME RollInv, PutNext,
           Head(out) \notin Printable \cup {"backspace", "tab", "return", "newline"}
    PROVE  P!Ignore /\ gone' \in Seq(PaperRow)
<1>1. PICK m, x, y : Here(m, x, y)  BY HereIs
<1>2. put(vga, Head(out)) = Screen(m, x, vga.csr_y)
  <2>1. \A c : c \notin Printable \cup {"backspace", "tab", "return", "newline"}
             => put(Screen(m, x, y), c) = Screen(m, x, y)
    <3>1. m \in [Cells -> Printable] /\ x \in Nat /\ y \in Nat  BY <1>1 DEF Here
    <3>. QED  BY <3>1, PutParts
  <2>. QED  BY <1>1, <2>1 DEF Here
<1>4. /\ gone' = gone /\ Roll' = RollOf(gone, m)
      /\ vga'.csr_x = x /\ vga'.csr_y = vga.csr_y
  BY <1>1, <1>2, SameRowNext DEF Here
<1>5. /\ Roll' = Roll /\ UNCHANGED (Len(gone) + vga.csr_y + 1)
      /\ gone' \in Seq(PaperRow) /\ UNCHANGED (vga.csr_x + 1)
  BY <1>1, <1>4, RollNow DEF Here
<1>6. out # <<>> /\ out' = Tail(out)  BY DEF PutNext
<1>. QED  BY <1>5, <1>6 DEF P!Ignore

-----------------------------------------------------------------------------
(* A screen of blanks is a sheet of blank rows. *)
LEMMA BlankRoll == RollOf(<<>>, Blank) = P!Sheet
<1>. DEFINE b == [i \in 1..scrn_width |-> Space]
            sheet == [y \in 1..scrn_height |-> b]
<1>0. scrn_height \in Nat  BY ScreenAssumption
<1>1. \A y \in 1..scrn_height, i \in 1..scrn_width : Blank[At(y, i)] = Space
  <2>1. \A n \in Cells : Blank[n] = Space  BY Zenon DEF Blank, Space
  <2>. QED  BY <2>1, AtIs
<1>2. Sheet(Blank) = sheet  BY <1>1 DEF Sheet
<1>3. P!Sheet = sheet  BY BlankRowIs DEF P!Sheet
<1>4. sheet \in Seq({b})
  <2>. HIDE DEF b
  <2>. QED  BY <1>0
<1>5. <<>> \o sheet = sheet  BY <1>4, ConcatEmptySeq
<1>. QED  BY <1>2, <1>3, <1>5 DEF RollOf

(* Between two commands the paper lies still, and clear takes a new sheet. *)
LEMMA RollInit == Init => RollInv /\ P!Init
<1>. SUFFICES ASSUME Init PROVE RollInv /\ P!Init  OBVIOUS
<1>0. scrn_width \in Nat /\ scrn_height \in Nat  BY ScreenAssumption
<1>1. CursorOnScreen  BY CursorAtInit
<1>2. gone = <<>> /\ vga.vga_mem = Blank /\ vga.csr_x = 0 /\ vga.csr_y = 0
  BY DEF Init, ScreenInit
<1>3. Roll = P!Sheet  BY <1>2, BlankRoll, RollNow
<1>4. Len(gone) + vga.csr_y + 1 = 1 /\ vga.csr_x + 1 = 1  BY <1>2
<1>. QED  BY <1>1, <1>2, <1>3, <1>4 DEF RollInv, P!Init

LEMMA Cleared ==
    ASSUME RollInv, Clear
    PROVE  P!NewSheet /\ gone' \in Seq(PaperRow)
<1>1. gone' = <<>> /\ vga'.vga_mem = Blank /\ vga'.csr_x = vga.csr_x /\ vga'.csr_y = 0
  BY DEF Clear, clear_screen
<1>2. Roll' = P!Sheet  BY <1>1, BlankRoll, RollNow
<1>3. (Len(gone) + vga.csr_y + 1)' = 1 /\ UNCHANGED (vga.csr_x + 1)  BY <1>1
<1>4. out = <<>>  BY DEF Clear
<1>. QED  BY <1>1, <1>2, <1>3, <1>4 DEF P!NewSheet

LEMMA Started ==
    ASSUME RollInv, NEW name, NEW arg, NEW value, NEW text, Start(name, arg, value, text)
    PROVE  P!More /\ gone' = gone
<1>1. out = <<>> /\ gone' = gone /\ vga' = vga  BY DEF Start
<1>2. Roll' = Roll  BY <1>1, RollNow
<1>. QED  BY <1>1, <1>2 DEF P!More

LEMMA CharPut ==
    ASSUME RollInv, PutNext
    PROVE  P!Next /\ gone' \in Seq(PaperRow)
<1>1. CASE Head(out) \in Printable  BY <1>1, CharTyped DEF P!Next
<1>2. CASE Head(out) = "backspace"  BY <1>2, SteppedBack DEF P!Next
<1>3. CASE Head(out) = "tab"  BY <1>3, Tabbed DEF P!Next
<1>4. CASE Head(out) = "return"  BY <1>4, Returned DEF P!Next
<1>5. CASE Head(out) = "newline"  BY <1>5, Fed DEF P!Next
<1>6. CASE Head(out) \notin Printable \cup {"backspace", "tab", "return", "newline"}
  BY <1>6, Ignored DEF P!Next
<1>. QED  BY <1>1, <1>2, <1>3, <1>4, <1>5, <1>6

(* Whatever is put on a screen of any size, and wherever it wraps and      *)
(* scrolls, the screen shows the last rows of what was typed: no character *)
(* is lost, moved or repeated.                                             *)
THEOREM PaperImplemented == Spec => ImplementsPaper
<1>1. Init => RollInv /\ P!Init  BY RollInit
<1>2. RollInv /\ [Next]_vars => [P!Next]_(P!vars) /\ (gone \in Seq(PaperRow))'
  <2>. SUFFICES ASSUME RollInv, [Next]_vars
                PROVE  [P!Next]_(P!vars) /\ gone' \in Seq(PaperRow)
    OBVIOUS
  <2>0. gone \in Seq(PaperRow)  BY DEF RollInv
  <2>1. ASSUME vga' = vga, gone' = gone, out' = out
        PROVE  [P!Next]_(P!vars) /\ gone' \in Seq(PaperRow)
    <3>1. Roll' = Roll  BY <2>1, RollNow
    <3>. QED  BY <2>0, <2>1, <3>1 DEF P!vars
  <2>2. CASE UNCHANGED vars  BY <2>1, <2>2 DEF vars
  <2>3. CASE timer_interrupt_handler
    BY <2>1, <2>3 DEF timer_interrupt_handler
  <2>4. CASE PutNext  BY <2>4, CharPut
  <2>5. CASE Clear  BY <2>5, Cleared DEF P!Next
  <2>6. ASSUME NEW name, NEW arg, NEW value, NEW text, Start(name, arg, value, text)
        PROVE  [P!Next]_(P!vars) /\ gone' \in Seq(PaperRow)
    BY <2>0, <2>6, Started DEF P!Next
  <2>. QED
    BY <2>2, <2>3, <2>4, <2>5, <2>6
    DEF Next, Echo, HexConvert, Malloc, Free, Ticks, Rub, EchoKey
<1>3. RollInv /\ [Next]_vars /\ CursorOnScreen' => RollInv'
  BY <1>2 DEF RollInv
<1>. QED
  BY <1>1, <1>2, <1>3, CursorOnScreenAlways, PTL
  DEF Spec, ImplementsPaper, P!Spec

-----------------------------------------------------------------------------
(* The weights of the digits: powers of the base. *)
Powers(W, base, n) ==
    /\ W \in [0..n -> Nat] /\ W[0] = 1
    /\ \A k \in 1..n : W[k] = W[k-1] * base

(* The recursion that defines the weights has a solution.                  *)
LEMMA WeightsExist ==
    ASSUME NEW base \in Nat, NEW n \in Nat
    PROVE  \E W : Powers(W, base, n)
<1> DEFINE S == {k \in 0..n : \E W : Powers(W, base, k)}
<1>1. 0 \in S
  <2> DEFINE W == [j \in 0..0 |-> 1]
  <2>1. Powers(W, base, 0)  BY DEF Powers
  <2> HIDE DEF W
  <2> QED BY <2>1
<1>2. ASSUME NEW k \in 1..n, k - 1 \in S PROVE k \in S
  <2>1. PICK W : Powers(W, base, k - 1)  BY <1>2
  <2> DEFINE w == W[k-1] * base
             X == [j \in 0..k |-> IF j = k THEN w ELSE W[j]]
  <2>2. w \in Nat
    <3>1. W[k-1] \in Nat  BY <2>1 DEF Powers
    <3> QED BY <3>1
  <2>3. X \in [0..k -> Nat]
    <3>1. \A j \in 0..k : j = k \/ j \in 0..(k-1)  OBVIOUS
    <3> HIDE DEF w
    <3> QED BY <2>1, <2>2, <3>1 DEF Powers
  <2>4. X[0] = 1  BY <2>1 DEF Powers
  <2>5. ASSUME NEW j \in 1..k PROVE X[j] = X[j-1] * base
    <3>1. j - 1 \in 0..k /\ j - 1 # k /\ X[j-1] = W[j-1]  OBVIOUS
    <3>2. CASE j = k  BY <3>1, <3>2
    <3>3. CASE j # k
      <4>1. j \in 1..(k-1) /\ X[j] = W[j]  BY <3>3
      <4>2. W[j] = W[j-1] * base  BY <2>1, <4>1 DEF Powers
      <4> QED BY <3>1, <4>1, <4>2
    <3> QED BY <3>2, <3>3
  <2> HIDE DEF X
  <2>6. Powers(X, base, k)  BY <2>3, <2>4, <2>5 DEF Powers
  <2> QED BY <2>6
<1> HIDE DEF S
<1>3. \A k \in 0..n : k \in S  BY <1>1, <1>2, Climbs
<1>4. n \in S  BY <1>3
<1> QED BY <1>4 DEF S

LEMMA WeightsAre ==
    ASSUME NEW base \in Nat, NEW n \in Nat
    PROVE  Powers(Weights(base, n), base, n)
<1> DEFINE Eq(w) == w = [k \in 0..n |-> IF k = 0 THEN 1 ELSE w[k-1] * base]
           f == CHOOSE w : Eq(w)
<1>1. Weights(base, n) = f  BY DEF Weights
<1>2. PICK W : Powers(W, base, n)  BY WeightsExist
<1>3. Eq(W)  BY <1>2 DEF Powers
<1>4. Eq(f)
  <2> HIDE DEF Eq
  <2> QED BY <1>3
<1>5. f[0] = 1 /\ \A k \in 1..n : f[k] = f[k-1] * base
  <2>1. f = [k \in 0..n |-> IF k = 0 THEN 1 ELSE f[k-1] * base]  BY <1>4
  <2> HIDE DEF f
  <2>2. \A k \in 0..n : f[k] = IF k = 0 THEN 1 ELSE f[k-1] * base  BY <2>1
  <2> QED BY <2>2
<1>6. DOMAIN f = 0..n /\ f = [k \in 0..n |-> f[k]]
  <2>1. f = [k \in 0..n |-> IF k = 0 THEN 1 ELSE f[k-1] * base]  BY <1>4
  <2> HIDE DEF f
  <2> QED BY <2>1
<1> HIDE DEF f
<1> DEFINE S == {k \in 0..n : f[k] \in Nat}
<1>7. \A k \in 0..n : k \in S
  <2>1. 0 \in S  BY <1>5
  <2>2. ASSUME NEW k \in 1..n, k - 1 \in S PROVE k \in S
    <3>1. f[k-1] \in Nat /\ f[k] = f[k-1] * base  BY <1>5, <2>2
    <3> DEFINE x == f[k-1]
    <3>2. x * base \in Nat
      <4> HIDE DEF x
      <4>1. x \in Nat  BY <3>1 DEF x
      <4> QED BY <4>1
    <3> QED BY <3>1, <3>2
  <2> HIDE DEF S
  <2> QED BY <2>1, <2>2, Climbs
<1>8. f \in [0..n -> Nat]  BY <1>6, <1>7
<1> QED BY <1>1, <1>5, <1>8 DEF Powers

(* The weights of a shorter numeral are the first of a longer one.         *)
LEMMA PowersAgree ==
    ASSUME NEW base \in Nat, NEW n \in Nat, NEW m \in Nat, n <= m, NEW V, NEW W,
           Powers(V, base, n), Powers(W, base, m)
    PROVE  \A k \in 0..n : V[k] = W[k]
<1> DEFINE S == {k \in 0..n : V[k] = W[k]}
<1>1. 0 \in S  BY DEF Powers
<1>2. ASSUME NEW k \in 1..n, k - 1 \in S PROVE k \in S
  <2>1. k \in 1..m /\ V[k-1] = W[k-1]  BY <1>2
  <2>2. V[k] = V[k-1] * base /\ W[k] = W[k-1] * base  BY <2>1 DEF Powers
  <2> QED BY <2>1, <2>2
<1> HIDE DEF S
<1>3. \A k \in 0..n : k \in S  BY <1>1, <1>2, Climbs
<1> QED BY <1>3 DEF S
-----------------------------------------------------------------------------
(* Digits and numerals. *)
LEMMA DigitsDistinct ==
    /\ Len(Digits) = 16
    /\ \A i, j \in 1..16 : Digits[i] = Digits[j] => i = j
BY DEF Digits

IsDigit(c, base) == \E d \in 1..base : Digits[d] = c

LEMMA DigitIs ==
    ASSUME NEW base \in 2..16, NEW d \in 0..(base - 1)
    PROVE  Digit(Digits[d + 1], base) = d /\ IsDigit(Digits[d + 1], base)
<1>1. \A e \in 0..(base - 1) : Digits[e + 1] = Digits[d + 1] <=> e = d
  <2> SUFFICES ASSUME NEW e \in 0..(base - 1), Digits[e + 1] = Digits[d + 1]
               PROVE  e = d
    OBVIOUS
  <2>1. e + 1 \in 1..16 /\ d + 1 \in 1..16  OBVIOUS
  <2>2. e + 1 = d + 1  BY <2>1, DigitsDistinct
  <2> QED BY <2>2
<1>2. (CHOOSE e \in 0..(base - 1) : Digits[e + 1] = Digits[d + 1]) = d
  <2> HIDE DEF Digits
  <2> QED BY <1>1
<1>3. d + 1 \in 1..base  OBVIOUS
<1> QED BY <1>2, <1>3 DEF Digit, IsDigit

LEMMA DigitOf ==
    ASSUME NEW base \in 2..16, NEW c, IsDigit(c, base)
    PROVE  Digit(c, base) \in 0..(base - 1) /\ Digits[Digit(c, base) + 1] = c
<1>1. PICK e \in 1..base : Digits[e] = c  BY DEF IsDigit
<1> DEFINE d == e - 1
<1>2. d \in 0..(base - 1) /\ d + 1 = e  BY <1>1
<1> HIDE DEF d
<1>3. Digit(Digits[d + 1], base) = d  BY <1>2, DigitIs
<1> QED BY <1>1, <1>2, <1>3

(* What the places of a numeral are worth, and the rounds that add them up. *)
Terms(text, base) ==
    [i \in 1..Len(text) |-> Digit(text[i], base) * Weights(base, Len(text))[Len(text) - i]]
Adding(t) == [i \in DOMAIN t |-> [x \in Nat |-> x + t[i]]]

(* What each place of a numeral is worth.  Its number is their sum, from   *)
(* the first place on.                                                     *)
LEMMA TermsType ==
    ASSUME NEW base \in 2..16, NEW n \in Nat, NEW text, Len(text) = n,
           \A i \in 1..n : IsDigit(text[i], base)
    PROVE  Terms(text, base) \in [1..n -> Nat]
<1> DEFINE w == Weights(base, n)
           t(i) == Digit(text[i], base) * w[n - i]
<1>1. ASSUME NEW i \in 1..n PROVE t(i) \in Nat
  <2>1. base \in Nat  OBVIOUS
  <2>2. Powers(w, base, n)  BY <2>1, WeightsAre
  <2>3. n - i \in 0..n  OBVIOUS
  <2>4. w[n - i] \in Nat  BY <2>2, <2>3 DEF Powers
  <2>5. Digit(text[i], base) \in Nat  BY DigitOf
  <2> DEFINE x == w[n - i]
             y == Digit(text[i], base)
  <2>6. x \in Nat /\ y \in Nat  BY <2>4, <2>5
  <2> HIDE DEF x, y, w
  <2>7. y * x \in Nat  BY <2>6
  <2> QED BY <2>7 DEF x, y
<1>2. Terms(text, base) = [i \in 1..n |-> t(i)]  BY DEF Terms
<1> HIDE DEF t
<1> QED BY <1>1, <1>2

LEMMA PositionalRuns ==
    ASSUME NEW base \in 2..16, NEW S, NEW text \in Seq(S), Numeral(text, base)
    PROVE  RunsTo(Positional(text, base), Len(text), Nat, 0, Adding(Terms(text, base)))
<1> DEFINE n == Len(text)
           U == 1..n
           list == [i \in DOMAIN text |-> i]
           T == Terms(text, base)
           Eq(g) == g = [s \in SUBSET U |->
               IF s = {} THEN 0
               ELSE g[s \ {Max(s)}] + Digit(text[list[Max(s)]], base)
                       * Weights(base, Len(text))[Len(text) - list[Max(s)]]]
           f == CHOOSE g : Eq(g)
           step == Adding(T)
<1>1. n \in Nat /\ DOMAIN text = U /\ DOMAIN list = U  BY LenProperties
<1>2. Positional(text, base) = f[U]
  <2>1. Positional(text, base) = (CHOOSE g : g = [s \in SUBSET DOMAIN list |->
            IF s = {} THEN 0
            ELSE g[s \ {Max(s)}] + Digit(text[list[Max(s)]], base)
                     * Weights(base, Len(text))[Len(text) - list[Max(s)]]])[DOMAIN list]
    BY DEF Positional, FoldLeft, MapThenFoldSet
  <2> QED BY <1>1, <2>1
<1>3. /\ T \in [1..n -> Nat]
      /\ \A i \in 1..n : T[i] = Digit(text[list[i]], base)
                                   * Weights(base, Len(text))[Len(text) - list[i]]
  <2>1. \A i \in 1..n : IsDigit(text[i], base)  BY <1>1 DEF Numeral, IsDigit
  <2>2. \A i \in 1..n : list[i] = i  BY <1>1
  <2> HIDE DEF list
  <2> QED BY <1>1, <2>1, <2>2, TermsType DEF Terms
<1> HIDE DEF T, list
<1>4. step \in [1..n -> [Nat -> Nat]] /\ \A i \in 1..n, x \in Nat : step[i][x] = x + T[i]
  BY <1>1, <1>3 DEF Adding
<1> HIDE DEF step
<1>5. \E g : Eq(g)
  <2>1. PICK g : Folds(g, n, Nat, 0, step)  BY <1>1, <1>4, FoldExists
  <2>2. ASSUME NEW s \in SUBSET U
        PROVE  g[s] = IF s = {} THEN 0
               ELSE g[s \ {Max(s)}] + Digit(text[list[Max(s)]], base)
                       * Weights(base, Len(text))[Len(text) - list[Max(s)]]
    <3>1. CASE s = {}  BY <2>1, <3>1 DEF Folds
    <3>2. CASE s # {}
      <4>1. Max(s) \in 1..n  BY <1>1, <3>2, MaxIn
      <4>2. g[s \ {Max(s)}] \in Nat  BY <2>1 DEF Folds
      <4>3. g[s] = step[Max(s)][g[s \ {Max(s)}]]  BY <2>1, <3>2 DEF Folds
      <4>4. g[s] = g[s \ {Max(s)}] + T[Max(s)]  BY <1>4, <4>1, <4>2, <4>3
      <4>5. T[Max(s)] = Digit(text[list[Max(s)]], base)
                * Weights(base, Len(text))[Len(text) - list[Max(s)]]
        BY <1>3, <4>1
      <4> QED BY <3>2, <4>4, <4>5
    <3> QED BY <3>1, <3>2
  <2>3. g \in [SUBSET U -> Nat]  BY <2>1 DEF Folds
  <2> HIDE DEF U
  <2>4. Eq(g)  BY <2>2, <2>3
  <2> QED BY <2>4
<1>6. Eq(f)
  <2> HIDE DEF Eq
  <2> QED BY <1>5
<1>7. \A s \in SUBSET U : f[s] = IF s = {} THEN 0
               ELSE f[s \ {Max(s)}] + Digit(text[list[Max(s)]], base)
                       * Weights(base, Len(text))[Len(text) - list[Max(s)]]
  BY <1>6
<1> HIDE DEF f
<1>8. f[{}] = 0  BY <1>7
<1>9. ASSUME NEW s \in SUBSET (1..n), s # {}, f[s \ {Max(s)}] \in Nat
      PROVE  f[s] = step[Max(s)][f[s \ {Max(s)}]]
  <2>1. Max(s) \in 1..n  BY <1>1, <1>9, MaxIn
  <2>2. f[s] = f[s \ {Max(s)}] + T[Max(s)]
    <3>1. T[Max(s)] = Digit(text[list[Max(s)]], base)
                * Weights(base, Len(text))[Len(text) - list[Max(s)]]
      BY <1>3, <2>1
    <3> QED BY <1>7, <1>9, <3>1
  <2> QED BY <1>4, <1>9, <2>1, <2>2
<1> HIDE DEF n
<1>10. /\ 0 \in Nat /\ n \in Nat /\ step \in [1..n -> [Nat -> Nat]] /\ f[{}] = 0
       /\ \A s \in SUBSET (1..n) : s # {} /\ f[s \ {Max(s)}] \in Nat =>
              f[s] = step[Max(s)][f[s \ {Max(s)}]]
  BY <1>1, <1>4, <1>8, <1>9
<1>11. 0 \in Nat /\ n \in Nat /\ step \in [1..n -> [Nat -> Nat]] /\ Obeys(f, n, Nat, 0, step)
  BY <1>10 DEF Obeys
<1>12. RunsTo(f[1..n], n, Nat, 0, step)  BY ONLY <1>11, FoldRuns
<1> QED BY <1>2, <1>12 DEF step, T, n

(* One digit more multiplies the weight of each digit before it by base.   *)
Longer(m, t, n, base) ==
    /\ Len(t) = n /\ Len(m) = n + 1 /\ \A i \in 1..n : m[i] = t[i]
    /\ \A i \in 1..(n + 1) : IsDigit(m[i], base)
Grown(m, t, n, base) ==
    /\ \A k \in 1..n : Terms(m, base)[k] = Terms(t, base)[k] * base
    /\ Terms(m, base)[n + 1] = Digit(m[n + 1], base)

LEMMA TermsGrow ==
    ASSUME NEW base \in 2..16, NEW n \in Nat, NEW t, NEW m, Longer(m, t, n, base)
    PROVE  Grown(m, t, n, base)
<1>0. /\ Len(t) = n /\ Len(m) = n + 1 /\ \A i \in 1..n : m[i] = t[i]
      /\ \A i \in 1..(n + 1) : IsDigit(m[i], base)
  BY DEF Longer
<1> DEFINE w == Weights(base, n)
           v == Weights(base, n + 1)
<1>1. base \in Nat /\ n + 1 \in Nat /\ n <= n + 1  OBVIOUS
<1>2. Powers(w, base, n) /\ Powers(v, base, n + 1)  BY <1>1, WeightsAre
<1> HIDE DEF w, v
<1>3. \A k \in 0..n : w[k] = v[k]  BY <1>1, <1>2, PowersAgree
<1>4. ASSUME NEW k \in 1..n PROVE Terms(m, base)[k] = Terms(t, base)[k] * base
  <2> DEFINE d == Digit(t[k], base)
             x == w[n - k]
  <2>1. IsDigit(m[k], base) /\ m[k] = t[k]
    <3>1. k \in 1..(n + 1)  OBVIOUS
    <3> QED BY <1>0, <3>1
  <2>2. d \in Nat
    <3>1. base \in 2..16 /\ IsDigit(t[k], base)  BY <2>1
    <3>2. d \in 0..(base - 1)  BY ONLY <3>1, DigitOf
    <3> HIDE DEF d
    <3> QED BY <3>2
  <2>3. n - k \in 0..n /\ n + 1 - k \in 1..(n + 1) /\ n + 1 - k - 1 = n - k  OBVIOUS
  <2>4. x \in Nat  BY <1>2, <2>3 DEF Powers
  <2>5. v[n + 1 - k] = x * base
    <3>1. v[n + 1 - k] = v[n + 1 - k - 1] * base  BY <1>2, <2>3 DEF Powers
    <3> QED BY <1>3, <2>3, <3>1
  <2>6. Terms(t, base)[k] = d * x  BY <1>0 DEF Terms, w
  <2>7. Terms(m, base)[k] = d * (x * base)
    <3>1. k \in 1..(n + 1)  OBVIOUS
    <3>2. Terms(m, base)[k] = Digit(m[k], base) * v[n + 1 - k]  BY <1>0, <3>1 DEF Terms, v
    <3> QED BY <2>1, <2>5, <3>2
  <2> HIDE DEF d, x
  <2>8. d * (x * base) = (d * x) * base  BY <1>1, <2>2, <2>4
  <2> QED BY <2>6, <2>7, <2>8
<1>5. Terms(m, base)[n + 1] = Digit(m[n + 1], base)
  <2> DEFINE d == Digit(m[n + 1], base)
  <2>1. n + 1 \in 1..(n + 1) /\ n + 1 - (n + 1) = 0  OBVIOUS
  <2>2. d \in Nat
    <3> DEFINE c == m[n + 1]
    <3>1. IsDigit(c, base)  BY <1>0, <2>1
    <3> HIDE DEF c
    <3>2. Digit(c, base) \in 0..(base - 1)  BY <3>1, DigitOf
    <3> QED BY <3>2 DEF c
  <2>3. Terms(m, base)[n + 1] = d * v[n + 1 - (n + 1)]  BY <1>0, <2>1 DEF Terms, v
  <2>4. v[0] = 1  BY <1>2 DEF Powers
  <2> HIDE DEF d
  <2>5. d * 1 = d  BY <2>2
  <2> QED BY <2>1, <2>3, <2>4, <2>5 DEF d
<1> QED BY <1>4, <1>5 DEF Grown

(* A run that adds: each round adds one term.                              *)
LEMMA AddingRuns ==
    ASSUME NEW n \in Nat, NEW T \in [1..n -> Nat], NEW V, Runs(V, n, Nat, 0, Adding(T))
    PROVE  /\ V \in [0..n -> Nat] /\ V[0] = 0
           /\ \A k \in 1..n : V[k] = V[k-1] + T[k]
<1>1. V \in [0..n -> Nat] /\ V[0] = 0  BY DEF Runs
<1>2. ASSUME NEW k \in 1..n PROVE V[k] = V[k-1] + T[k]
  <2>1. k - 1 \in 0..n /\ V[k-1] \in Nat  BY <1>1
  <2>2. V[k] = Adding(T)[k][V[k-1]]  BY DEF Runs
  <2> QED BY <2>1, <2>2 DEF Adding
<1> QED BY <1>1, <1>2

LEMMA PositionalType ==
    ASSUME NEW base \in 2..16, NEW S, NEW text \in Seq(S), Numeral(text, base)
    PROVE  Positional(text, base) \in Nat
<1>1. PICK V : Runs(V, Len(text), Nat, 0, Adding(Terms(text, base)))
               /\ Positional(text, base) = V[Len(text)]
  BY PositionalRuns DEF RunsTo
<1>2. Len(text) \in 0..Len(text)  BY LenProperties
<1> QED BY <1>1, <1>2 DEF Runs

LEMMA PositionalEmpty ==
    ASSUME NEW base \in 2..16
    PROVE  Positional(<<>>, base) = 0 /\ Numeral(<<>>, base)
<1>1. <<>> \in Seq(Nat) /\ Len(<<>>) = 0 /\ DOMAIN <<>> = {}  OBVIOUS
<1>2. Numeral(<<>>, base)  BY <1>1 DEF Numeral
<1> DEFINE none == <<>>
<1>3. none \in Seq(Nat) /\ Numeral(none, base) /\ Len(none) = 0  BY <1>1, <1>2
<1> HIDE DEF none
<1>4. RunsTo(Positional(none, base), Len(none), Nat, 0, Adding(Terms(none, base)))
  BY <1>3, PositionalRuns
<1> QED BY <1>2, <1>3, <1>4 DEF RunsTo, Runs, none

(* A digit more makes the number base times as large, and adds the digit.  *)
LEMMA PositionalAppend ==
    ASSUME NEW base \in 2..16, NEW S, NEW t \in Seq(S), NEW c \in S,
           Numeral(t, base), IsDigit(c, base)
    PROVE  /\ Numeral(Append(t, c), base)
           /\ Positional(Append(t, c), base) = Positional(t, base) * base + Digit(c, base)
<1> DEFINE n == Len(t)
           m == Append(t, c)
           p == Positional(t, base)
           q == Positional(m, base)
<1>1. /\ m \in Seq(S) /\ Len(m) = n + 1 /\ n \in Nat
      /\ \A i \in 1..n : m[i] = t[i]
      /\ m[n + 1] = c /\ DOMAIN m = 1..(n + 1) /\ DOMAIN t = 1..n
  BY AppendProperties, LenProperties
<1> HIDE DEF m
<1>2. \A i \in 1..(n + 1) : IsDigit(m[i], base)
  <2>1. \A i \in 1..(n + 1) : i = n + 1 \/ i \in 1..n  BY <1>1
  <2> QED BY <1>1, <2>1 DEF Numeral, IsDigit
<1>3. Numeral(m, base)  BY <1>1, <1>2 DEF Numeral, IsDigit
<1> DEFINE T == Terms(t, base)
           U == Terms(m, base)
<1>4. T \in [1..n -> Nat] /\ U \in [1..(n + 1) -> Nat]
  <2>1. \A i \in 1..n : IsDigit(t[i], base)  BY <1>1 DEF Numeral, IsDigit
  <2>2. T \in [1..n -> Nat]  BY <1>1, <2>1, TermsType
  <2> DEFINE k == n + 1
  <2>3. k \in Nat /\ Len(m) = k /\ \A i \in 1..k : IsDigit(m[i], base)  BY <1>1, <1>2
  <2> HIDE DEF k
  <2>4. U \in [1..k -> Nat]  BY <2>3, TermsType
  <2> QED BY <2>2, <2>4 DEF k
<1>5. (\A k \in 1..n : U[k] = T[k] * base) /\ U[n + 1] = Digit(c, base)
  <2>1. base \in 2..16 /\ n \in Nat /\ Longer(m, t, n, base)
    BY <1>1, <1>2 DEF Longer
  <2> HIDE DEF n
  <2>2. Grown(m, t, n, base)  BY ONLY <2>1, TermsGrow
  <2> QED BY <1>1, <2>2 DEF n, Grown
<1>6. PICK V : Runs(V, n, Nat, 0, Adding(T)) /\ p = V[n]
  BY PositionalRuns DEF RunsTo
<1>7. PICK X : Runs(X, n + 1, Nat, 0, Adding(U)) /\ q = X[n + 1]
  <2>1. RunsTo(q, Len(m), Nat, 0, Adding(U))  BY <1>1, <1>3, PositionalRuns
  <2> QED BY <1>1, <2>1 DEF RunsTo
<1> HIDE DEF n, p, q, T, U
<1>8. /\ V \in [0..n -> Nat] /\ V[0] = 0
      /\ \A k \in 1..n : V[k] = V[k-1] + T[k]
  BY <1>1, <1>4, <1>6, AddingRuns
<1>9. /\ X \in [0..(n+1) -> Nat] /\ X[0] = 0
      /\ \A k \in 1..(n+1) : X[k] = X[k-1] + U[k]
  <2> DEFINE j == n + 1
  <2>1. j \in Nat /\ U \in [1..j -> Nat] /\ Runs(X, j, Nat, 0, Adding(U))
    BY <1>1, <1>4, <1>7
  <2> HIDE DEF j
  <2>2. /\ X \in [0..j -> Nat] /\ X[0] = 0
        /\ \A k \in 1..j : X[k] = X[k-1] + U[k]
    BY <2>1, AddingRuns
  <2> QED BY <2>2 DEF j
<1> DEFINE Z == {k \in 0..n : X[k] = V[k] * base}
<1>10. 0 \in Z
  <2>1. 0 * base = 0  OBVIOUS
  <2> QED BY <1>1, <1>8, <1>9, <2>1
<1>11. ASSUME NEW k \in 1..n, k - 1 \in Z PROVE k \in Z
  <2> DEFINE x == X[k-1]
             v == V[k-1]
             u == T[k]
  <2>1. x = v * base  BY <1>11
  <2>2. k \in 1..(n+1) /\ k - 1 \in 0..n  BY <1>1
  <2>3. V[k] = v + u /\ X[k] = x + u * base  BY <1>5, <1>8, <1>9, <2>2
  <2>4. v \in Nat /\ u \in Nat /\ base \in Nat  BY <1>4, <1>8, <2>2
  <2> HIDE DEF x, v, u
  <2>5. v * base + u * base = (v + u) * base  BY <2>4
  <2> QED BY <2>1, <2>3, <2>5
<1> HIDE DEF Z
<1>12. \A k \in 0..n : k \in Z  BY <1>1, <1>10, <1>11, Climbs
<1>13. X[n] = V[n] * base
  <2>1. n \in 0..n  BY <1>1
  <2> QED BY <1>12, <2>1 DEF Z
<1>14. X[n + 1] = X[n] + Digit(c, base)
  <2> DEFINE j == n + 1
  <2>1. j \in 1..(n+1) /\ j - 1 = n  BY <1>1
  <2>2. U[j] = Digit(c, base)  BY <1>5
  <2> HIDE DEF j
  <2>3. X[j] = X[j - 1] + U[j]  BY <1>9, <2>1
  <2>4. X[j] = X[n] + Digit(c, base)  BY <2>1, <2>2, <2>3
  <2> QED BY <2>4 DEF j
<1>15. q = p * base + Digit(c, base)  BY <1>6, <1>7, <1>13, <1>14
<1> QED BY <1>3, <1>15 DEF m, p, q

(* Which characters are digits of either base, and that minus_0 and hexit  *)
(* give their values.                                                      *)
LEMMA DigitSets ==
    ASSUME NEW c
    PROVE  /\ IsDigit(c, 10) => c \in {Digits[i] : i \in 1..10}
           /\ IsDigit(c, 16) /\ c \notin {Digits[i] : i \in 11..16} => IsDigit(c, 10)
           /\ c \in {Digits[i] : i \in 11..16} => c \notin {SmallDigits[i] : i \in 1..6}
           /\ IsDigit(c, 10) \/ IsDigit(c, 16) => c \notin {SmallDigits[i] : i \in 1..6}
           /\ IsDigit(c, 10) => c \notin {Digits[i] : i \in 11..16}
<1>1. IsDigit(c, 10) => c \in {Digits[i] : i \in 1..10}
  BY DEF IsDigit
<1>2. IsDigit(c, 16) /\ c \notin {Digits[i] : i \in 11..16} => IsDigit(c, 10)
  BY DEF IsDigit
<1>3. \A i \in 1..16, j \in 1..6 : Digits[i] # SmallDigits[j]
  BY DEF Digits, SmallDigits
<1>4. IsDigit(c, 10) \/ IsDigit(c, 16) => c \notin {SmallDigits[i] : i \in 1..6}
  BY <1>3 DEF IsDigit
<1>5. c \in {Digits[i] : i \in 11..16} => IsDigit(c, 16)
  BY DEF IsDigit
<1>6. IsDigit(c, 10) => c \notin {Digits[i] : i \in 11..16}
  <2> SUFFICES ASSUME NEW d \in 1..10, NEW i \in 11..16, Digits[d] = Digits[i]
               PROVE  FALSE
    BY DEF IsDigit
  <2>1. d \in 1..16 /\ i \in 1..16 /\ d # i  OBVIOUS
  <2> QED BY <2>1, DigitsDistinct
<1> QED BY <1>1, <1>2, <1>4, <1>5, <1>6

LEMMA MinusIs ==
    ASSUME NEW c, IsDigit(c, 10)
    PROVE  minus_0(c) = Digit(c, 10)
<1>1. c \in {Digits[i] : i \in 1..10}  BY DigitSets
<1>2. Digit(c, 10) = CHOOSE d \in 0..9 : Digits[d + 1] = c
  <2>1. 10 - 1 = 9  OBVIOUS
  <2> QED BY <2>1 DEF Digit
<1> DEFINE A == c \in {Digits[i] : i \in 1..10}
           B == c \in {Digits[i] : i \in 11..16}
           C == c \in {SmallDigits[i] : i \in 1..6}
           D == c = Space
           a == CHOOSE d \in 0..9 : Digits[d + 1] = c
           b == CHOOSE d \in 0..5 : Digits[d + 11] = c
           e == CHOOSE d \in 0..5 : SmallDigits[d + 1] = c
<1>3. minus_0(c) = CASE A -> a [] B -> 17 + b [] C -> 49 + e [] c = "x" -> 72
          [] c = "=" -> 13 [] D -> -16 [] c = "tab" -> -39
  BY DEF minus_0
<1>4. A /\ a = Digit(c, 10) /\ ~B /\ ~C  BY <1>1, <1>2, DigitSets
<1>5. c \in {"0", "1", "2", "3", "4", "5", "6", "7", "8", "9"}
  BY <1>1 DEF Digits
<1>6. c # "x" /\ c # "=" /\ c # "tab"  BY <1>5
<1>7. ~D  BY <1>5, Zenon DEF Space
<1> HIDE DEF A, B, C, D, a, b, e
<1> QED BY <1>3, <1>4, <1>6, <1>7

LEMMA HexitIs ==
    ASSUME NEW c, IsDigit(c, 16)
    PROVE  hexit(c) = Digit(c, 16)
<1>1. CASE c \in {Digits[i] : i \in 11..16}
  <2>1. PICK i \in 11..16 : Digits[i] = c  BY <1>1
  <2> DEFINE d == i - 11
  <2>2. d \in 0..5 /\ d + 11 = i /\ d + 10 + 1 = i /\ d + 10 \in 0..(16 - 1) /\ 16 \in 2..16
    BY <2>1
  <2> HIDE DEF d
  <2>3. Digit(c, 16) = d + 10
    <3>1. Digit(Digits[d + 10 + 1], 16) = d + 10  BY <2>2, DigitIs
    <3> QED BY <2>1, <2>2, <3>1
  <2>4. \A e \in 0..5 : Digits[e + 11] = c => e = d
    <3> SUFFICES ASSUME NEW e \in 0..5, Digits[e + 11] = c PROVE e = d  OBVIOUS
    <3>1. e + 11 \in 1..16 /\ i \in 1..16 /\ Digits[e + 11] = Digits[i]
      BY <2>1
    <3>2. e + 11 = i  BY <3>1, DigitsDistinct
    <3> QED BY <2>2, <3>2
  <2>5. (CHOOSE e \in 0..5 : Digits[e + 11] = c) = d
    <3> HIDE DEF Digits
    <3> QED BY <2>1, <2>2, <2>4
  <2>6. hexit(c) = 10 + d
    <3> DEFINE A == c \in {Digits[j] : j \in 11..16}
               B == c \in {SmallDigits[j] : j \in 1..6}
               a == CHOOSE e \in 0..5 : Digits[e + 11] = c
               b == CHOOSE e \in 0..5 : SmallDigits[e + 1] = c
               o == minus_0(c)
    <3>1. hexit(c) = CASE A -> 10 + a [] B -> 10 + b [] OTHER -> o
      BY DEF hexit
    <3>2. A /\ ~B /\ a = d  BY <1>1, <2>5, DigitSets
    <3> HIDE DEF A, B, a, b, o
    <3> QED BY <3>1, <3>2
  <2> QED BY <2>2, <2>3, <2>6
<1>2. CASE c \notin {Digits[i] : i \in 11..16}
  <2>1. IsDigit(c, 10) /\ c \notin {SmallDigits[i] : i \in 1..6}
    BY <1>2, DigitSets
  <2>2. hexit(c) = minus_0(c)
    <3> DEFINE A == c \in {Digits[j] : j \in 11..16}
               B == c \in {SmallDigits[j] : j \in 1..6}
               a == CHOOSE e \in 0..5 : Digits[e + 11] = c
               b == CHOOSE e \in 0..5 : SmallDigits[e + 1] = c
               o == minus_0(c)
    <3>1. hexit(c) = CASE A -> 10 + a [] B -> 10 + b [] OTHER -> o
      BY DEF hexit
    <3>2. ~A /\ ~B  BY <1>2, <2>1
    <3> HIDE DEF A, B, a, b, o
    <3>3. hexit(c) = o  BY <3>1, <3>2
    <3> QED BY <3>3 DEF o
  <2>3. Digit(c, 10) = Digit(c, 16)
    <3>1. PICK i \in 1..10 : Digits[i] = c  BY <2>1 DEF IsDigit
    <3> DEFINE d == i - 1
    <3>2. d \in 0..(10 - 1) /\ d \in 0..(16 - 1) /\ d + 1 = i /\ 10 \in 2..16 /\ 16 \in 2..16
      BY <3>1
    <3> HIDE DEF d
    <3>3. Digit(Digits[d + 1], 10) = d /\ Digit(Digits[d + 1], 16) = d
      BY <3>2, DigitIs
    <3> QED BY <3>1, <3>2, <3>3
  <2> QED BY <2>1, <2>2, <2>3, MinusIs
<1> QED BY <1>1, <1>2

-----------------------------------------------------------------------------
(* Reading a numeral digit by digit, in words. *)
Word == 0..(U32 - 1)
Reading(v, base) == [i \in DOMAIN v |-> [x \in Word |-> (x * base + v[i]) % U32]]
Values(text, base) == [i \in 1..Len(text) |-> Digit(text[i], base)]

(* str_to_u32int and hex_str_to_u32int are runs of the same steps.         *)
LEMMA ReadingType ==
    ASSUME NEW n \in Nat, NEW base \in 2..16, NEW text, Len(text) = n,
           \A i \in 1..n : IsDigit(text[i], base)
    PROVE  /\ Values(text, base) \in [1..n -> 0..(base - 1)]
           /\ Reading(Values(text, base), base) \in [1..n -> [Word -> Word]]
           /\ \A i \in 1..n, x \in Word :
                 Reading(Values(text, base), base)[i][x]
                    = (x * base + Digit(text[i], base)) % U32
<1> DEFINE v == Values(text, base)
<1>1. v \in [1..n -> 0..(base - 1)] /\ \A i \in 1..n : v[i] = Digit(text[i], base)
  <2>1. \A i \in 1..n : Digit(text[i], base) \in 0..(base - 1)  BY DigitOf
  <2> QED BY <2>1 DEF Values
<1> HIDE DEF v
<1>2. ASSUME NEW i \in 1..n, NEW x \in Word PROVE (x * base + v[i]) % U32 \in Word
  <2>1. x \in Nat /\ U32 \in Nat /\ U32 > 0  BY NumbersAssumption DEF Word
  <2> DEFINE e == v[i]
  <2>2. e \in Nat  BY <1>1
  <2>3. x * base \in Nat  BY <2>1
  <2> DEFINE y == x * base
             z == y + e
  <2>4. z \in Nat  BY <2>2, <2>3
  <2> HIDE DEF z
  <2>5. z % U32 \in 0..(U32 - 1)  BY <2>1, <2>4
  <2> QED BY <2>5 DEF z, Word
<1>3. /\ Reading(v, base) \in [1..n -> [Word -> Word]]
      /\ \A i \in 1..n, x \in Word : Reading(v, base)[i][x] = (x * base + v[i]) % U32
  BY <1>1, <1>2 DEF Reading
<1> QED BY <1>1, <1>3 DEF v

LEMMA StrRuns ==
    ASSUME NEW S, NEW text \in Seq(S), Numeral(text, 10)
    PROVE  RunsTo(str_to_u32int(text), Len(text), Word, 0, Reading(Values(text, 10), 10))
<1> DEFINE n == Len(text)
           U == 1..n
           Eq(g) == g = [s \in SUBSET U |->
               IF s = {} THEN 0 ELSE (g[s \ {Max(s)}] * 10 + minus_0(text[Max(s)])) % U32]
           f == CHOOSE g : Eq(g)
           step == Reading(Values(text, 10), 10)
<1>1. n \in Nat /\ DOMAIN text = U  BY LenProperties
<1>a. \A i \in 1..n : IsDigit(text[i], 10)  BY <1>1 DEF Numeral, IsDigit
<1>2. str_to_u32int(text) = f[U]
  <2>1. str_to_u32int(text) = (CHOOSE g : g = [s \in SUBSET DOMAIN text |->
            IF s = {} THEN 0
            ELSE (g[s \ {Max(s)}] * 10 + minus_0(text[Max(s)])) % U32])[DOMAIN text]
    BY DEF str_to_u32int, FoldLeft, MapThenFoldSet
  <2> QED BY <1>1, <2>1
<1>3. \A i \in 1..n : minus_0(text[i]) = Digit(text[i], 10)  BY <1>a, MinusIs
<1>4. /\ step \in [1..n -> [Word -> Word]]
      /\ \A i \in 1..n, x \in Word : step[i][x] = (x * 10 + minus_0(text[i])) % U32
      /\ 0 \in Word
  <2>1. 10 \in 2..16 /\ 0 \in Word  BY NumbersAssumption DEF Word
  <2> HIDE DEF n
  <2>2. Len(text) = n  BY DEF n
  <2> QED BY <1>1, <1>a, <1>3, <2>1, <2>2, ReadingType
<1> HIDE DEF step
<1>5. \E g : Eq(g)
  <2>1. PICK g : Folds(g, n, Word, 0, step)  BY <1>1, <1>4, FoldExists
  <2>2. ASSUME NEW s \in SUBSET U
        PROVE  g[s] = IF s = {} THEN 0
               ELSE (g[s \ {Max(s)}] * 10 + minus_0(text[Max(s)])) % U32
    <3>1. CASE s = {}  BY <2>1, <3>1 DEF Folds
    <3>2. CASE s # {}
      <4>1. Max(s) \in 1..n  BY <1>1, <3>2, MaxIn
      <4>2. g[s \ {Max(s)}] \in Word  BY <2>1 DEF Folds
      <4>3. g[s] = step[Max(s)][g[s \ {Max(s)}]]  BY <2>1, <3>2 DEF Folds
      <4> QED BY <1>4, <3>2, <4>1, <4>2, <4>3
    <3> QED BY <3>1, <3>2
  <2>3. g \in [SUBSET U -> Word]  BY <2>1 DEF Folds
  <2> HIDE DEF U
  <2>4. Eq(g)  BY <2>2, <2>3
  <2> QED BY <2>4
<1>6. Eq(f)
  <2> HIDE DEF Eq
  <2> QED BY <1>5
<1>7. \A s \in SUBSET U : f[s] = IF s = {} THEN 0
               ELSE (f[s \ {Max(s)}] * 10 + minus_0(text[Max(s)])) % U32
  BY <1>6
<1> HIDE DEF f
<1>8. ASSUME NEW s \in SUBSET (1..n), s # {}, f[s \ {Max(s)}] \in Word
      PROVE  f[s] = step[Max(s)][f[s \ {Max(s)}]]
  <2>1. Max(s) \in 1..n  BY <1>1, <1>8, MaxIn
  <2> QED BY <1>4, <1>7, <1>8, <2>1
<1>9. Obeys(f, n, Word, 0, step)  BY <1>7, <1>8 DEF Obeys
<1> HIDE DEF n
<1>10. 0 \in Word /\ n \in Nat /\ step \in [1..n -> [Word -> Word]] /\ Obeys(f, n, Word, 0, step)
  BY <1>1, <1>4, <1>9
<1>11. RunsTo(f[1..n], n, Word, 0, step)  BY ONLY <1>10, FoldRuns
<1> QED BY <1>2, <1>11 DEF step, n

(* hex_str_to_u32int behind the prefix.                                    *)
HexRead(str) == FoldLeft(LAMBDA result, c : (result * 16 + hexit(c)) % U32, 0, str)

LEMMA HexRuns ==
    ASSUME NEW S, NEW text \in Seq(S), Numeral(text, 16)
    PROVE  RunsTo(HexRead(text), Len(text), Word, 0, Reading(Values(text, 16), 16))
<1> DEFINE n == Len(text)
           U == 1..n
           Eq(g) == g = [s \in SUBSET U |->
               IF s = {} THEN 0 ELSE (g[s \ {Max(s)}] * 16 + hexit(text[Max(s)])) % U32]
           f == CHOOSE g : Eq(g)
           step == Reading(Values(text, 16), 16)
<1>1. n \in Nat /\ DOMAIN text = U  BY LenProperties
<1>a. \A i \in 1..n : IsDigit(text[i], 16)  BY <1>1 DEF Numeral, IsDigit
<1>2. HexRead(text) = f[U]
  <2>1. HexRead(text) = (CHOOSE g : g = [s \in SUBSET DOMAIN text |->
            IF s = {} THEN 0
            ELSE (g[s \ {Max(s)}] * 16 + hexit(text[Max(s)])) % U32])[DOMAIN text]
    BY DEF HexRead, FoldLeft, MapThenFoldSet
  <2> QED BY <1>1, <2>1
<1>3. \A i \in 1..n : hexit(text[i]) = Digit(text[i], 16)  BY <1>a, HexitIs
<1>4. /\ step \in [1..n -> [Word -> Word]]
      /\ \A i \in 1..n, x \in Word : step[i][x] = (x * 16 + hexit(text[i])) % U32
      /\ 0 \in Word
  <2>1. 16 \in 2..16 /\ 0 \in Word  BY NumbersAssumption DEF Word
  <2> HIDE DEF n
  <2>2. Len(text) = n  BY DEF n
  <2> QED BY <1>1, <1>a, <1>3, <2>1, <2>2, ReadingType
<1> HIDE DEF step
<1>5. \E g : Eq(g)
  <2>1. PICK g : Folds(g, n, Word, 0, step)  BY <1>1, <1>4, FoldExists
  <2>2. ASSUME NEW s \in SUBSET U
        PROVE  g[s] = IF s = {} THEN 0
               ELSE (g[s \ {Max(s)}] * 16 + hexit(text[Max(s)])) % U32
    <3>1. CASE s = {}  BY <2>1, <3>1 DEF Folds
    <3>2. CASE s # {}
      <4>1. Max(s) \in 1..n  BY <1>1, <3>2, MaxIn
      <4>2. g[s \ {Max(s)}] \in Word  BY <2>1 DEF Folds
      <4>3. g[s] = step[Max(s)][g[s \ {Max(s)}]]  BY <2>1, <3>2 DEF Folds
      <4> QED BY <1>4, <3>2, <4>1, <4>2, <4>3
    <3> QED BY <3>1, <3>2
  <2>3. g \in [SUBSET U -> Word]  BY <2>1 DEF Folds
  <2> HIDE DEF U
  <2>4. Eq(g)  BY <2>2, <2>3
  <2> QED BY <2>4
<1>6. Eq(f)
  <2> HIDE DEF Eq
  <2> QED BY <1>5
<1>7. \A s \in SUBSET U : f[s] = IF s = {} THEN 0
               ELSE (f[s \ {Max(s)}] * 16 + hexit(text[Max(s)])) % U32
  BY <1>6
<1> HIDE DEF f
<1>8. ASSUME NEW s \in SUBSET (1..n), s # {}, f[s \ {Max(s)}] \in Word
      PROVE  f[s] = step[Max(s)][f[s \ {Max(s)}]]
  <2>1. Max(s) \in 1..n  BY <1>1, <1>8, MaxIn
  <2> QED BY <1>4, <1>7, <1>8, <2>1
<1>9. Obeys(f, n, Word, 0, step)  BY <1>7, <1>8 DEF Obeys
<1> HIDE DEF n
<1>10. 0 \in Word /\ n \in Nat /\ step \in [1..n -> [Word -> Word]] /\ Obeys(f, n, Word, 0, step)
  BY <1>1, <1>4, <1>9
<1>11. RunsTo(f[1..n], n, Word, 0, step)  BY ONLY <1>10, FoldRuns
<1> QED BY <1>2, <1>11 DEF step, n

(* A text grows by one character after the other.                          *)
Prefix(text, k) == [i \in 1..k |-> text[i]]

LEMMA PrefixIs ==
    ASSUME NEW S, NEW text \in Seq(S)
    PROVE  /\ Prefix(text, 0) = <<>> /\ Prefix(text, Len(text)) = text
           /\ \A k \in 0..Len(text) : Prefix(text, k) \in Seq(S)
           /\ \A k \in 1..Len(text) : Prefix(text, k) = Append(Prefix(text, k - 1), text[k])
<1>1. /\ Len(text) \in Nat /\ text = [i \in 1..Len(text) |-> text[i]]
      /\ \A i \in 1..Len(text) : text[i] \in S
  BY LenProperties
<1>2. Prefix(text, 0) = <<>> /\ Prefix(text, Len(text)) = text  BY <1>1 DEF Prefix
<1>3. \A k \in 0..Len(text) :
         Prefix(text, k) \in Seq(S) /\ Len(Prefix(text, k)) = k
  BY <1>1 DEF Prefix
<1>4. ASSUME NEW k \in 1..Len(text)
      PROVE  Prefix(text, k) = Append(Prefix(text, k - 1), text[k])
  <2> DEFINE j == k - 1
             f == Prefix(text, j)
             c == text[k]
             u == Append(f, c)
  <2>1. j \in Nat /\ j + 1 = k /\ j \in 0..Len(text) /\ c \in S  BY <1>1
  <2>2. f \in Seq(S) /\ Len(f) = j /\ \A i \in 1..j : f[i] = text[i]
    BY <1>3, <2>1 DEF Prefix
  <2> HIDE DEF j, f, c
  <2>3. /\ u \in Seq(S) /\ Len(u) = k /\ u[k] = c
        /\ \A i \in 1..j : u[i] = f[i]
    BY <2>1, <2>2, AppendProperties
  <2> HIDE DEF u
  <2>4. u = [i \in 1..k |-> u[i]]  BY <2>3, LenProperties
  <2>5. \A i \in 1..k : u[i] = text[i]
    <3>1. \A i \in 1..k : i = k \/ i \in 1..j  BY <2>1
    <3> QED BY <2>2, <2>3, <3>1 DEF c
  <2>6. Prefix(text, k) = u  BY <2>4, <2>5 DEF Prefix
  <2> QED BY <2>6 DEF u, f, j, c
<1> QED BY <1>2, <1>3, <1>4

(* Reading digit by digit gives the number, as a word.                     *)
LEMMA ReadsNumber ==
    ASSUME NEW base \in 2..16, NEW S, NEW text \in Seq(S), Numeral(text, base), NEW r,
           RunsTo(r, Len(text), Word, 0, Reading(Values(text, base), base))
    PROVE  r = Positional(text, base) % U32
<1> DEFINE n == Len(text)
           step == Reading(Values(text, base), base)
           p(k) == Positional(Prefix(text, k), base)
           Z == {k \in 0..n : Numeral(Prefix(text, k), base)}
<1>1. /\ n \in Nat /\ DOMAIN text = 1..n /\ U32 \in Nat /\ U32 > 0
      /\ \A i \in 1..n : text[i] \in S
  BY LenProperties, NumbersAssumption
<1>2. \A i \in 1..n : IsDigit(text[i], base)  BY <1>1 DEF Numeral, IsDigit
<1>3. PICK V : Runs(V, n, Word, 0, step) /\ r = V[n]  BY DEF RunsTo
<1>4. /\ V \in [0..n -> Word] /\ V[0] = 0
      /\ \A k \in 1..n : V[k] = (V[k-1] * base + Digit(text[k], base)) % U32
  <2>1. /\ V \in [0..n -> Word] /\ V[0] = 0
        /\ \A k \in 1..n : V[k] = step[k][V[k-1]]
    BY <1>3 DEF Runs
  <2>2. \A i \in 1..n, x \in Word : step[i][x] = (x * base + Digit(text[i], base)) % U32
    <3> HIDE DEF n
    <3>1. Len(text) = n  BY DEF n
    <3> QED BY <1>1, <1>2, <3>1, ReadingType
  <2> HIDE DEF step
  <2>3. ASSUME NEW k \in 1..n
        PROVE  V[k] = (V[k-1] * base + Digit(text[k], base)) % U32
    <3>1. k - 1 \in 0..n /\ V[k-1] \in Word  BY <2>1
    <3> QED BY <2>1, <2>2, <3>1
  <2> QED BY <2>1, <2>3
<1>5. ASSUME NEW k \in 0..n PROVE Numeral(Prefix(text, k), base)
  <2>1. \A i \in 1..k : i \in 1..n /\ Prefix(text, k)[i] = text[i]  BY <1>1 DEF Prefix
  <2>2. DOMAIN Prefix(text, k) = 1..k  BY DEF Prefix
  <2> QED BY <1>2, <2>1, <2>2 DEF Numeral, IsDigit
<1> DEFINE Y == {k \in 0..n : V[k] = p(k) % U32}
<1>6. 0 \in Y
  <2>1. p(0) = 0  BY PrefixIs, PositionalEmpty
  <2>2. 0 % U32 = 0  BY <1>1
  <2> HIDE DEF p
  <2> QED BY <1>1, <1>4, <2>1, <2>2
<1>7. ASSUME NEW k \in 1..n, k - 1 \in Y PROVE k \in Y
  <2> DEFINE t == Prefix(text, k - 1)
             c == text[k]
             q == Positional(t, base)
             d == Digit(c, base)
  <2>1. k - 1 \in 0..n  BY <1>1
  <2>2. t \in Seq(S) /\ Numeral(t, base) /\ c \in S /\ IsDigit(c, base)
        /\ Prefix(text, k) = Append(t, c)
    BY <1>1, <1>2, <1>5, <2>1, PrefixIs
  <2>3. V[k-1] = q % U32  BY <1>7
  <2> HIDE DEF t, c
  <2>4. Positional(Append(t, c), base) = q * base + d  BY <2>2, PositionalAppend
  <2>5. q \in Nat /\ d \in Nat /\ base \in Nat
    <3>1. q \in Nat  BY <2>2, PositionalType
    <3>2. d \in 0..(base - 1)  BY <2>2, DigitOf
    <3> QED BY <3>1, <3>2
  <2>6. V[k] = ((q % U32) * base + d) % U32  BY <1>4, <2>3 DEF c
  <2> HIDE DEF q, d
  <2>7. V[k] = (q * base + d) % U32
    <3>1. U32 \in Nat /\ U32 > 0 /\ q \in Nat /\ base \in Nat /\ d \in Nat
      BY <1>1, <2>5
    <3>2. ((q % U32) * base + d) % U32 = (q * base + d) % U32
      BY ONLY <3>1, ModStep, Zenon
    <3> QED BY <2>6, <3>2
  <2>8. p(k) = q * base + d  BY <2>2, <2>4
  <2> HIDE DEF p
  <2> QED BY <2>7, <2>8
<1> HIDE DEF Y
<1>8. \A k \in 0..n : k \in Y  BY <1>1, <1>6, <1>7, Climbs
<1>9. n \in Y
  <2>1. n \in 0..n  BY <1>1
  <2> QED BY <1>8, <2>1
<1>10. V[n] = Positional(text, base) % U32  BY <1>9, PrefixIs DEF Y
<1> QED BY <1>3, <1>10

(* str_to_u32int and, behind the prefix, hex_str_to_u32int read the        *)
(* number.                                                                 *)
LEMMA StrReads ==
    ASSUME NEW S, NEW text \in Seq(S), Numeral(text, 10)
    PROVE  str_to_u32int(text) = Positional(text, 10) % U32
<1>1. 10 \in 2..16  OBVIOUS
<1> QED BY <1>1, StrRuns, ReadsNumber

LEMMA HexReads ==
    ASSUME NEW S, NEW text \in Seq(S), Numeral(text, 16)
    PROVE  HexRead(text) = Positional(text, 16) % U32
<1>1. 16 \in 2..16  OBVIOUS
<1> QED BY <1>1, HexRuns, ReadsNumber

-----------------------------------------------------------------------------
(* The digits of a number.  Seen from the back, they come one by one.      *)
LEMMA ReverseConcat ==
    ASSUME NEW S, NEW s \in Seq(S), NEW d \in S
    PROVE  /\ Reverse(s) \in Seq(S) /\ Len(Reverse(s)) = Len(s)
           /\ Reverse(<<d>> \o s) = Append(Reverse(s), d)
<1> DEFINE n == Len(s)
           r == Reverse(s)
           u == Append(r, d)
           w == <<d>> \o s
<1>1. n \in Nat /\ \A i \in 1..n : s[i] \in S  BY LenProperties
<1>2. r \in Seq(S) /\ Len(r) = n /\ \A i \in 1..n : r[i] = s[(n - i) + 1]
  <2>1. \A i \in 1..n : (n - i) + 1 \in 1..n  BY <1>1
  <2> QED BY <1>1, <2>1 DEF Reverse
<1>3. /\ Len(w) = n + 1 /\ w[1] = d
      /\ \A i \in 2..(n + 1) : w[i] = s[i - 1]
  <2>1. <<d>> \in Seq(S) /\ Len(<<d>>) = 1 /\ <<d>>[1] = d  OBVIOUS
  <2> DEFINE one == <<d>>
  <2>2. one \in Seq(S) /\ Len(one) = 1 /\ one[1] = d  BY <2>1
  <2> HIDE DEF one
  <2>3. /\ Len(one \o s) = Len(one) + Len(s)
        /\ \A i \in 1..(Len(one) + Len(s)) :
              (one \o s)[i] = IF i <= Len(one) THEN one[i] ELSE s[i - Len(one)]
    BY <2>2, ConcatProperties
  <2> QED BY <1>1, <2>2, <2>3 DEF one
<1> HIDE DEF r, w
<1>4. /\ u \in Seq(S) /\ Len(u) = n + 1 /\ u[n + 1] = d
      /\ \A i \in 1..n : u[i] = r[i]
  BY <1>2, AppendProperties
<1> HIDE DEF u
<1>5. u = [i \in 1..(n + 1) |-> u[i]]  BY <1>4, LenProperties
<1>6. ASSUME NEW i \in 1..(n + 1) PROVE w[(n + 1 - i) + 1] = u[i]
  <2>1. CASE i = n + 1
    <3>1. (n + 1 - i) + 1 = 1  BY <1>1, <2>1
    <3> QED BY <1>3, <1>4, <2>1, <3>1
  <2>2. CASE i # n + 1
    <3> DEFINE j == (n + 1 - i) + 1
    <3>1. i \in 1..n /\ j \in 2..(n + 1) /\ j - 1 = (n - i) + 1  BY <1>1, <2>2
    <3> HIDE DEF j
    <3>2. w[j] = s[(n - i) + 1]  BY <1>3, <3>1
    <3>3. u[i] = s[(n - i) + 1]  BY <1>2, <1>4, <3>1
    <3> QED BY <3>2, <3>3 DEF j
  <2> QED BY <2>1, <2>2
<1>7. Reverse(w) = [i \in 1..(n + 1) |-> w[(n + 1 - i) + 1]]
  BY <1>3 DEF Reverse
<1>8. Reverse(w) = u  BY <1>5, <1>6, <1>7
<1> QED BY <1>2, <1>8 DEF r, u, w

(* The digits' characters, and low_digits as the equation it fulfils.      *)
Chars == {Digits[i] : i \in 1..16}
Lows(g, n, base) ==
    /\ g \in [0..n -> Seq(Chars)]
    /\ \A acc \in 0..n :
          g[acc] = IF acc > 0 THEN <<Digits[(acc % base) + 1]>> \o g[acc \div base]
                   ELSE <<>>

(* A number loses its last digit, and becomes smaller.                     *)
LEMMA Shrinks ==
    ASSUME NEW base \in 2..16, NEW k \in Nat \ {0}
    PROVE  /\ k \div base \in 0..(k - 1) /\ k % base \in 0..(base - 1)
           /\ k = (k \div base) * base + (k % base)
<1> DEFINE q == k \div base
           r == k % base
<1>1. q \in Nat /\ r \in 0..(base - 1) /\ k = q * base + r
  <2>1. base \in Nat /\ base > 0  OBVIOUS
  <2> QED BY <2>1, DivMod
<1> HIDE DEF q, r
<1>2. q < k
  <2>1. CASE q = 0  BY <2>1
  <2>2. CASE q # 0
    <3>1. PICK b \in Nat : base = 2 + b
      <4>1. base - 2 \in Nat /\ base = 2 + (base - 2)  OBVIOUS
      <4> QED BY <4>1
    <3>2. q * base = q + q + q * b  BY <1>1, <3>1
    <3>3. q * b \in Nat  BY <1>1, <3>1
    <3> QED BY <1>1, <2>2, <3>2, <3>3
  <2> QED BY <2>1, <2>2
<1> QED BY <1>1, <1>2 DEF q, r

LEMMA LowsExist ==
    ASSUME NEW base \in 2..16, NEW n \in Nat
    PROVE  \E g : Lows(g, n, base)
<1> DEFINE S == {k \in 0..n : \E g : Lows(g, k, base)}
<1>1. 0 \in S
  <2> DEFINE g == [j \in 0..0 |-> <<>>]
  <2>1. g \in [0..0 -> Seq(Chars)]  OBVIOUS
  <2>2. \A acc \in 0..0 : ~(acc > 0) /\ g[acc] = <<>>  OBVIOUS
  <2> HIDE DEF g
  <2>3. Lows(g, 0, base)  BY <2>1, <2>2 DEF Lows
  <2> QED BY <2>3
<1>2. ASSUME NEW k \in 1..n, k - 1 \in S PROVE k \in S
  <2>1. PICK g : Lows(g, k - 1, base)  BY <1>2
  <2> DEFINE new == <<Digits[(k % base) + 1]>> \o g[k \div base]
             h == [j \in 0..k |-> IF j = k THEN new ELSE g[j]]
  <2>2. k \div base \in 0..(k - 1) /\ k % base \in 0..(base - 1)  BY Shrinks
  <2>3. new \in Seq(Chars)
    <3>1. g[k \div base] \in Seq(Chars)  BY <2>1, <2>2 DEF Lows
    <3>2. (k % base) + 1 \in 1..16  BY <2>2
    <3>3. Digits[(k % base) + 1] \in Chars  BY <3>2 DEF Chars
    <3> HIDE DEF Chars
    <3> QED BY <3>1, <3>3
  <2>4. h \in [0..k -> Seq(Chars)]
    <3>1. \A j \in 0..k : j = k \/ j \in 0..(k-1)  OBVIOUS
    <3>2. \A j \in 0..(k-1) : g[j] \in Seq(Chars)  BY <2>1 DEF Lows
    <3> HIDE DEF new, Chars
    <3> QED BY <2>3, <3>1, <3>2
  <2>5. ASSUME NEW acc \in 0..k
        PROVE  h[acc] = IF acc > 0 THEN <<Digits[(acc % base) + 1]>> \o h[acc \div base]
                        ELSE <<>>
    <3>1. CASE acc = 0
      <4>1. acc # k /\ acc \in 0..(k-1) /\ ~(acc > 0)  BY <3>1
      <4>2. h[acc] = g[acc]  BY <4>1
      <4>3. g[acc] = <<>>  BY <2>1, <4>1 DEF Lows
      <4> QED BY <4>1, <4>2, <4>3
    <3>2. CASE acc # 0
      <4>1. acc > 0 /\ acc \div base \in 0..(acc - 1)  BY <3>2, Shrinks
      <4>2. acc \div base \in 0..k /\ acc \div base # k  BY <4>1
      <4>3. h[acc \div base] = g[acc \div base]  BY <4>2
      <4>4. CASE acc = k  BY <4>1, <4>3, <4>4
      <4>5. CASE acc # k
        <5>1. acc \in 0..(k-1)  BY <4>5
        <5>2. g[acc] = <<Digits[(acc % base) + 1]>> \o g[acc \div base]
          BY <2>1, <4>1, <5>1 DEF Lows
        <5>3. h[acc] = g[acc]  BY <4>5
        <5> QED BY <4>1, <4>3, <5>2, <5>3
      <4> QED BY <4>4, <4>5
    <3> QED BY <3>1, <3>2
  <2> HIDE DEF h
  <2>6. Lows(h, k, base)  BY <2>4, <2>5 DEF Lows
  <2> QED BY <2>6
<1> HIDE DEF S
<1>3. \A k \in 0..n : k \in S  BY <1>1, <1>2, Climbs
<1>4. n \in S  BY <1>3
<1> QED BY <1>4 DEF S

(* low_digits is what its equation says, for every number.                 *)
LEMMA LowDigitsAre ==
    ASSUME NEW base \in 2..16, NEW n \in Nat
    PROVE  \E g : Lows(g, n, base) /\ low_digits(n, base) = g[n]
<1> DEFINE Eq(g) == g = [acc \in 0..n |->
               IF acc > 0 THEN <<Digits[(acc % base) + 1]>> \o g[acc \div base] ELSE <<>>]
           f == CHOOSE g : Eq(g)
<1>1. low_digits(n, base) = f[n]  BY DEF low_digits
<1>2. PICK g : Lows(g, n, base)  BY LowsExist
<1>3. Eq(g)  BY <1>2 DEF Lows
<1>4. Eq(f)
  <2> HIDE DEF Eq
  <2> QED BY <1>3
<1>5. \A acc \in 0..n :
         f[acc] = IF acc > 0 THEN <<Digits[(acc % base) + 1]>> \o f[acc \div base] ELSE <<>>
  BY <1>4
<1>6. f = [acc \in 0..n |-> f[acc]]
  <2>1. f = [acc \in 0..n |->
               IF acc > 0 THEN <<Digits[(acc % base) + 1]>> \o f[acc \div base] ELSE <<>>]
    BY <1>4
  <2> HIDE DEF f
  <2> QED BY <2>1
<1> HIDE DEF f
<1> DEFINE S == {k \in 0..n : \A j \in 0..k : f[j] = g[j]}
<1>7. 0 \in S
  <2>1. 0 \in 0..n /\ \A j \in 0..0 : j = 0  OBVIOUS
  <2>2. f[0] = <<>> /\ g[0] = <<>>
    <3> DEFINE z == 0
    <3>1. z \in 0..n /\ ~(z > 0)  OBVIOUS
    <3> HIDE DEF z
    <3>2. f[z] = <<>>  BY <1>5, <3>1
    <3>3. g[z] = <<>>  BY <1>2, <3>1 DEF Lows
    <3> QED BY <3>2, <3>3 DEF z
  <2> QED BY <2>1, <2>2
<1>8. ASSUME NEW k \in 1..n, k - 1 \in S PROVE k \in S
  <2>1. k \div base \in 0..(k - 1)  BY Shrinks
  <2>2. f[k \div base] = g[k \div base]  BY <1>8, <2>1
  <2>3. k \in 0..n /\ k > 0  OBVIOUS
  <2>4. f[k] = <<Digits[(k % base) + 1]>> \o f[k \div base]  BY <1>5, <2>3
  <2>5. g[k] = <<Digits[(k % base) + 1]>> \o g[k \div base]  BY <1>2, <2>3 DEF Lows
  <2>6. \A j \in 0..k : j = k \/ j \in 0..(k-1)  OBVIOUS
  <2>7. \A j \in 0..k : f[j] = g[j]  BY <1>8, <2>2, <2>4, <2>5, <2>6
  <2> QED BY <2>3, <2>7
<1> HIDE DEF S
<1>9. \A k \in 0..n : k \in S  BY <1>7, <1>8, Climbs
<1>10. f[n] = g[n]
  <2>1. n \in S /\ n \in 0..n  BY <1>9
  <2> QED BY <2>1 DEF S
<1> QED BY <1>1, <1>2, <1>10

(* In order they spell it.                                                 *)
SpellsOut(text, base, v) ==
    /\ text \in Seq(Chars) /\ Numeral(text, base) /\ Positional(text, base) = v
    /\ (v > 0 => text # <<>> /\ text[1] # "0")
    /\ (v = 0 => text = <<>>)

(* The last digit is appended to a text that spells the rest.              *)
LEMMA SpellsMore ==
    ASSUME NEW base \in 2..16, NEW k \in Nat \ {0}, NEW s \in Seq(Chars),
           SpellsOut(Reverse(s), base, k \div base)
    PROVE  SpellsOut(Reverse(<<Digits[(k % base) + 1]>> \o s), base, k)
<1> DEFINE q == k \div base
           e == k % base
           d == Digits[e + 1]
           r == Reverse(s)
           t == Append(r, d)
<1>1. q \in 0..(k - 1) /\ e \in 0..(base - 1) /\ k = q * base + e  BY Shrinks
<1> HIDE DEF q, e
<1>2. Digit(d, base) = e /\ IsDigit(d, base)  BY <1>1, DigitIs
<1>3. d \in Chars
  <2>1. e + 1 \in 1..16  BY <1>1
  <2> QED BY <2>1 DEF Chars
<1>4. d = "0" => e = 0
  <2>1. Digits[1] = "0"  BY DEF Digits
  <2>2. e + 1 \in 1..16  BY <1>1
  <2>3. ASSUME Digits[e + 1] = "0" PROVE e = 0
    <3>1. Digits[e + 1] = Digits[1] /\ 1 \in 1..16  BY <2>1, <2>3
    <3>2. e + 1 = 1  BY <2>2, <3>1, DigitsDistinct
    <3> QED BY <1>1, <3>2
  <2> QED BY <2>3
<1> HIDE DEF d
<1>5. r \in Seq(Chars) /\ Reverse(<<d>> \o s) = t /\ SpellsOut(r, base, q)
  <2> HIDE DEF Chars
  <2> QED BY <1>3, ReverseConcat DEF q
<1> HIDE DEF r
<1>6. Numeral(t, base) /\ Positional(t, base) = k
  <2>1. Numeral(r, base) /\ Positional(r, base) = q  BY <1>5 DEF SpellsOut
  <2>2. Numeral(t, base) /\ Positional(t, base) = Positional(r, base) * base + Digit(d, base)
    <3> HIDE DEF Chars
    <3> QED BY <1>2, <1>3, <1>5, <2>1, PositionalAppend
  <2> QED BY <1>1, <1>2, <2>1, <2>2
<1>7. t \in Seq(Chars) /\ Len(t) = Len(r) + 1 /\ Len(r) \in Nat
      /\ (\A i \in 1..Len(r) : t[i] = r[i]) /\ t[Len(r) + 1] = d
  <2> HIDE DEF Chars
  <2> QED BY <1>3, <1>5, AppendProperties, LenProperties
<1> HIDE DEF t
<1>8. t # <<>>  BY <1>7
<1>9. t[1] # "0"
  <2>1. CASE q = 0
    <3>1. r = <<>> /\ Len(r) = 0  BY <1>5, <2>1 DEF SpellsOut
    <3>2. t[1] = d
      <4>1. Len(r) + 1 = 1  BY <3>1
      <4> QED BY <1>7, <4>1
    <3>3. e # 0  BY <1>1, <2>1
    <3> QED BY <1>4, <3>2, <3>3
  <2>2. CASE q # 0
    <3>1. q > 0  BY <1>1, <2>2
    <3>2. r # <<>> /\ r[1] # "0"  BY <1>5, <3>1 DEF SpellsOut
    <3>3. 1 \in 1..Len(r)
      <4>1. Len(r) # 0  BY <1>5, <3>2, EmptySeq
      <4> QED BY <1>7, <4>1
    <3> QED BY <1>7, <3>2, <3>3
  <2> QED BY <2>1, <2>2
<1>10. SpellsOut(t, base, k)  BY <1>6, <1>7, <1>8, <1>9 DEF SpellsOut
<1> QED BY <1>5, <1>10 DEF d, e

(* So what the loops produce spells the number, by induction over it.      *)
LEMMA LowsSpell ==
    ASSUME NEW base \in 2..16, NEW n \in Nat
    PROVE  SpellsOut(Reverse(low_digits(n, base)), base, n)
<1>1. PICK g : Lows(g, n, base) /\ low_digits(n, base) = g[n]  BY LowDigitsAre
<1>2. /\ g \in [0..n -> Seq(Chars)]
      /\ \A acc \in 0..n :
            g[acc] = IF acc > 0 THEN <<Digits[(acc % base) + 1]>> \o g[acc \div base]
                     ELSE <<>>
  BY <1>1 DEF Lows
<1> DEFINE S == {k \in 0..n : \A j \in 0..k : SpellsOut(Reverse(g[j]), base, j)}
<1>3. 0 \in S
  <2> DEFINE z == 0
             none == <<>>
  <2>1. z \in 0..n /\ ~(z > 0)  OBVIOUS
  <2>2. Reverse(none) = <<>>
    <3>1. Len(none) = 0 /\ 1..0 = {}  OBVIOUS
    <3>2. Reverse(none) = [i \in 1..0 |-> none[(0 - i) + 1]]  BY <3>1 DEF Reverse
    <3>3. [i \in 1..0 |-> none[(0 - i) + 1]] = <<>>  OBVIOUS
    <3> QED BY <3>2, <3>3
  <2> HIDE DEF z
  <2>3. g[z] = none  BY <1>2, <2>1
  <2>4. none \in Seq(Chars)  OBVIOUS
  <2>5. SpellsOut(none, base, 0)  BY <2>4, PositionalEmpty DEF SpellsOut
  <2>6. SpellsOut(Reverse(g[0]), base, 0)  BY <2>2, <2>3, <2>5 DEF z
  <2>7. \A j \in 0..0 : j = 0  OBVIOUS
  <2> QED BY <2>6, <2>7
<1>4. ASSUME NEW k \in 1..n, k - 1 \in S PROVE k \in S
  <2>1. k \div base \in 0..(k - 1) /\ k \in Nat \ {0} /\ k \in 0..n /\ k > 0  BY Shrinks
  <2> DEFINE s == g[k \div base]
  <2>2. k \div base \in 0..n  BY <2>1
  <2>3. s \in Seq(Chars)  BY <1>2, <2>2
  <2>4. SpellsOut(Reverse(s), base, k \div base)  BY <1>4, <2>1
  <2>5. g[k] = <<Digits[(k % base) + 1]>> \o s  BY <1>2, <2>1
  <2> HIDE DEF s
  <2>6. SpellsOut(Reverse(g[k]), base, k)  BY <2>1, <2>3, <2>4, <2>5, SpellsMore
  <2>7. \A j \in 0..k : j = k \/ j \in 0..(k-1)  OBVIOUS
  <2>8. \A j \in 0..k : SpellsOut(Reverse(g[j]), base, j)  BY <1>4, <2>6, <2>7
  <2> QED BY <2>1, <2>8
<1> HIDE DEF S
<1>5. \A k \in 0..n : k \in S  BY <1>3, <1>4, Climbs
<1>6. SpellsOut(Reverse(g[n]), base, n)
  <2>1. n \in S /\ n \in 0..n  BY <1>5
  <2> QED BY <2>1 DEF S
<1> QED BY <1>1, <1>6

(* What put_hex and put_dec put, without "0x". *)
Written(n, base) == IF n = 0 THEN <<"0">> ELSE Reverse(low_digits(n, base))

LEMMA WrittenSpells ==
    ASSUME NEW base \in 2..16, NEW n \in Nat
    PROVE  /\ Written(n, base) \in Seq(Chars) /\ Spells(Written(n, base), base, n)
<1> DEFINE t == Written(n, base)
<1>1. CASE n = 0
  <2>1. 1 \in 1..16 /\ Digits[1] = "0" /\ 0 \in 0..(base - 1) /\ 0 + 1 = 1  BY DEF Digits
  <2> DEFINE c == Digits[1]
  <2>2. c \in Chars /\ IsDigit(c, base) /\ Digit(c, base) = 0
    <3>1. IsDigit(c, base) /\ Digit(c, base) = 0  BY <2>1, DigitIs
    <3>2. c \in Chars  BY <2>1 DEF Chars
    <3> QED BY <3>1, <3>2
  <2>3. t = <<c>>  BY <1>1, <2>1 DEF Written
  <2> HIDE DEF c, t, Chars
  <2> DEFINE none == <<>>
  <2>4. none \in Seq(Chars) /\ Numeral(none, base) /\ Positional(none, base) = 0
        /\ Append(none, c) = <<c>>
    BY PositionalEmpty
  <2> HIDE DEF none
  <2>5. Numeral(t, base) /\ Positional(t, base) = 0 * base + 0
    BY <2>2, <2>3, <2>4, PositionalAppend
  <2>6. 0 * base + 0 = 0  OBVIOUS
  <2>7. t \in Seq(Chars) /\ t # <<>> /\ Len(t) = 1  BY <2>2, <2>3
  <2>8. Positional(t, base) = 0  BY <2>5, <2>6
  <2>9. ~(Len(t) > 1)  BY <2>7
  <2>10. Spells(t, base, n)  BY <1>1, <2>5, <2>7, <2>8, <2>9 DEF Spells
  <2> QED BY <2>7, <2>10 DEF t
<1>2. CASE n # 0
  <2>1. n > 0 /\ t = Reverse(low_digits(n, base))  BY <1>2 DEF Written
  <2> HIDE DEF t
  <2>2. SpellsOut(t, base, n)  BY <2>1, LowsSpell
  <2> QED BY <2>1, <2>2 DEF SpellsOut, Spells, t
<1> QED BY <1>1, <1>2

-----------------------------------------------------------------------------
(* Texts that are put together. *)
LEMMA SliceIs ==
    ASSUME NEW S, NEW w \in Seq(S), NEW s, NEW k \in Nat,
           \A i \in 1..Len(w) : s[k + i] = w[i]
    PROVE  SubSeq(s, k + 1, k + Len(w)) = w
<1> DEFINE n == Len(w)
           u == SubSeq(s, k + 1, k + n)
<1>1. n \in Nat /\ w = [i \in 1..n |-> w[i]] /\ \A i \in 1..n : w[i] \in S
  BY LenProperties
<1> HIDE DEF n
<1>2. \A j \in (k + 1)..(k + n) : s[j] \in S
  <2> SUFFICES ASSUME NEW j \in (k + 1)..(k + n) PROVE s[j] \in S  OBVIOUS
  <2> DEFINE i == j - k
  <2>1. i \in 1..n /\ k + i = j  BY <1>1
  <2> HIDE DEF i
  <2>2. s[k + i] = w[i]  BY <2>1 DEF n
  <2> QED BY <1>1, <2>1, <2>2
<1>3. /\ u \in Seq(S) /\ Len(u) = n
      /\ \A i \in 1..n : u[i] = s[k + i]
  <2> DEFINE a == k + 1
             b == k + n
  <2>1. a \in Int /\ b \in Int /\ \A j \in a..b : s[j] \in S  BY <1>1, <1>2
  <2>2. b - a + 1 = n /\ (a <= b <=> n >= 1) /\ \A i \in 1..n : a + i - 1 = k + i  BY <1>1
  <2> HIDE DEF a, b
  <2>3. /\ SubSeq(s, a, b) \in Seq(S)
        /\ Len(SubSeq(s, a, b)) = IF a <= b THEN b - a + 1 ELSE 0
        /\ \A i \in 1..(b - a + 1) : SubSeq(s, a, b)[i] = s[a + i - 1]
    BY <2>1, SubSeqProperties
  <2>4. Len(SubSeq(s, a, b)) = n  BY <1>1, <2>2, <2>3
  <2> QED BY <2>2, <2>3, <2>4 DEF a, b
<1> HIDE DEF u
<1>4. u = [i \in 1..n |-> u[i]]  BY <1>3, LenProperties
<1>5. \A i \in 1..n : u[i] = w[i]  BY <1>3 DEF n
<1>6. u = w  BY <1>1, <1>4, <1>5
<1> QED BY <1>6 DEF u, n

Symbols == Chars \cup {"x", "=", ">", "newline", Space}

LEMMA CharsAre ==
    \A c \in Chars : c # "x" /\ c # "=" /\ c # "newline" /\ c \in Symbols
<1>1. \A c \in Chars : c # "x" /\ c # "=" /\ c # "newline"
  BY DEF Chars, Digits
<1> HIDE DEF Chars, Space
<1> QED BY <1>1 DEF Symbols

LEMMA LineIs ==
    ASSUME NEW m \in Seq(Symbols)
    PROVE  /\ Len(Line(m)) = Len(m) + 3 /\ Line(m)[1] = "newline"
           /\ \A i \in 1..Len(m) : Line(m)[1 + i] = m[i]
<1> DEFINE a == <<"newline">>
           b == <<"newline", ">">>
           am == a \o m
<1>1. "newline" \in Symbols /\ ">" \in Symbols  BY DEF Symbols
<1> HIDE DEF Symbols
<1>2. a \in Seq(Symbols) /\ Len(a) = 1 /\ a[1] = "newline"
      /\ b \in Seq(Symbols) /\ Len(b) = 2
  BY <1>1
<1> HIDE DEF a, b
<1>3. Line(m) = am \o b  BY DEF Line, a, b
<1>4. /\ am \in Seq(Symbols) /\ Len(am) = Len(a) + Len(m)
      /\ \A i \in 1..(Len(a) + Len(m)) :
            am[i] = IF i <= Len(a) THEN a[i] ELSE m[i - Len(a)]
  BY <1>2, ConcatProperties
<1> HIDE DEF am
<1>5. /\ Len(am \o b) = Len(am) + Len(b)
      /\ \A i \in 1..(Len(am) + Len(b)) :
            (am \o b)[i] = IF i <= Len(am) THEN am[i] ELSE b[i - Len(am)]
  <2>1. am \in Seq(Symbols) /\ b \in Seq(Symbols)  BY <1>2, <1>4
  <2> QED BY ONLY <2>1, ConcatProperties
<1>6. Len(m) \in Nat  BY LenProperties
<1>7. \A i \in 1..(Len(m) + 1) : (am \o b)[i] = am[i]
  BY <1>2, <1>4, <1>5, <1>6
<1>8. am[1] = "newline" /\ \A i \in 1..Len(m) : am[1 + i] = m[i]
  <2>1. \A i \in 1..Len(m) : 1 + i \in 1..(1 + Len(m)) /\ ~(1 + i <= 1) /\ 1 + i - 1 = i
    BY <1>6
  <2> QED BY <1>2, <1>4, <1>6, <2>1
<1> QED BY <1>2, <1>3, <1>4, <1>5, <1>6, <1>7, <1>8

(* "0x" and the digits. *)
LEMMA PrefixedIs ==
    ASSUME NEW w \in Seq(Chars)
    PROVE  /\ <<"0", "x">> \o w \in Seq(Symbols)
           /\ Len(<<"0", "x">> \o w) = Len(w) + 2
           /\ (<<"0", "x">> \o w)[1] = "0" /\ (<<"0", "x">> \o w)[2] = "x"
           /\ \A i \in 1..Len(w) : (<<"0", "x">> \o w)[2 + i] = w[i]
<1> DEFINE a == <<"0", "x">>
<1>1. "x" \in Symbols /\ "0" \in Symbols /\ w \in Seq(Symbols) /\ Len(w) \in Nat
  <2>1. 1 \in 1..16 /\ Digits[1] = "0"  BY DEF Digits
  <2>2. "0" \in Chars  BY <2>1 DEF Chars
  <2> HIDE DEF Chars
  <2> QED BY <2>2, LenProperties DEF Symbols
<1> HIDE DEF Symbols
<1>2. a \in Seq(Symbols) /\ Len(a) = 2 /\ a[1] = "0" /\ a[2] = "x"  BY <1>1
<1> HIDE DEF a
<1>3. /\ a \o w \in Seq(Symbols) /\ Len(a \o w) = Len(a) + Len(w)
      /\ \A i \in 1..(Len(a) + Len(w)) :
            (a \o w)[i] = IF i <= Len(a) THEN a[i] ELSE w[i - Len(a)]
  BY <1>1, <1>2, ConcatProperties
<1>4. \A i \in 1..Len(w) : 2 + i \in 1..(2 + Len(w)) /\ ~(2 + i <= 2) /\ 2 + i - 2 = i
  BY <1>1
<1>5. 1 \in 1..(2 + Len(w)) /\ 2 \in 1..(2 + Len(w)) /\ 1 <= 2 /\ 2 <= 2  BY <1>1
<1>6. (a \o w)[1] = "0" /\ (a \o w)[2] = "x"
  <2> DEFINE p == 1
             q == 2
  <2>1. (a \o w)[p] = a[p]  BY <1>2, <1>3, <1>5
  <2>2. (a \o w)[q] = a[q]  BY <1>2, <1>3, <1>5
  <2> QED BY <1>2, <2>1, <2>2
<1>7. \A i \in 1..Len(w) : (a \o w)[2 + i] = w[i]  BY <1>2, <1>3, <1>4
<1>8. Len(a \o w) = Len(w) + 2  BY <1>1, <1>2, <1>3
<1> QED BY <1>3, <1>6, <1>7, <1>8 DEF a

(* The pointer that malloc shows is read back. *)
LEMMA HexReadsBack ==
    ASSUME NEW p \in 0..(U32 - 1)
    PROVE  hex_str_to_u32int(hex_text(p)) = p
<1> DEFINE w == Written(p, 16)
           s == <<"0", "x">> \o w
<1>1. p \in Nat /\ 16 \in 2..16 /\ U32 \in Nat  BY NumbersAssumption
<1>2. w \in Seq(Chars) /\ Spells(w, 16, p)  BY <1>1, WrittenSpells
<1>3. hex_text(p) = s  BY DEF hex_text, Written
<1> HIDE DEF w
<1>4. /\ Len(s) = Len(w) + 2 /\ s[1] = "0" /\ s[2] = "x"
      /\ \A i \in 1..Len(w) : s[2 + i] = w[i]
  BY <1>2, PrefixedIs
<1> HIDE DEF s
<1>5. Len(w) \in Nat /\ Len(w) # 0  BY <1>2, EmptySeq, LenProperties DEF Spells
<1>6. Len(s) > 2  BY <1>4, <1>5
<1>7. hex_str_to_u32int(s) = HexRead(SubSeq(s, 3, Len(s)))
  BY <1>4, <1>6 DEF hex_str_to_u32int, HexRead
<1>8. SubSeq(s, 3, Len(s)) = w
  <2>1. 2 \in Nat /\ 2 + 1 = 3 /\ 2 + Len(w) = Len(s)  BY <1>4, <1>5
  <2>2. SubSeq(s, 2 + 1, 2 + Len(w)) = w
    <3> HIDE DEF Chars
    <3> QED BY <1>2, <1>4, <2>1, SliceIs
  <2> QED BY <2>1, <2>2
<1>9. HexRead(w) = Positional(w, 16) % U32
  <2>1. Numeral(w, 16)  BY <1>2 DEF Spells
  <2> HIDE DEF Chars
  <2> QED BY <1>2, <2>1, HexReads
<1>10. Positional(w, 16) = p  BY <1>2 DEF Spells
<1>11. p % U32 = p  BY <1>1
<1> QED BY <1>3, <1>7, <1>8, <1>9, <1>10, <1>11

(* A numeral has no prefix. *)
LEMMA HexPlain ==
    ASSUME NEW S, NEW arg \in Seq(S), Numeral(arg, 16)
    PROVE  hex_str_to_u32int(arg) = Positional(arg, 16) % U32
<1>1. Len(arg) \in Nat /\ DOMAIN arg = 1..Len(arg)  BY LenProperties
<1>2. ~(Len(arg) > 2 /\ arg[1] = "0" /\ arg[2] = "x")
  <2> SUFFICES ASSUME Len(arg) > 2, arg[2] = "x" PROVE FALSE  OBVIOUS
  <2>1. 2 \in DOMAIN arg  BY <1>1
  <2>2. PICK d \in 1..16 : Digits[d] = arg[2]  BY <2>1 DEF Numeral
  <2>3. arg[2] \in Chars  BY <2>2 DEF Chars
  <2> QED BY <2>3, CharsAre
<1>3. hex_str_to_u32int(arg) = HexRead(SubSeq(arg, 1, Len(arg)))
  BY <1>2 DEF hex_str_to_u32int, HexRead
<1>4. SubSeq(arg, 1, Len(arg)) = arg
  <2>1. SubSeq(arg, 0 + 1, 0 + Len(arg)) = arg
    <3>1. \A i \in 1..Len(arg) : arg[0 + i] = arg[i]  OBVIOUS
    <3>2. 0 \in Nat  OBVIOUS
    <3> QED BY <3>1, <3>2, SliceIs
  <2> QED BY <1>1, <2>1
<1> QED BY <1>3, <1>4, HexReads

-----------------------------------------------------------------------------
(* What hex_convert puts: the number in hexadecimal, an "=" with a blank   *)
(* on either side, and the number in decimal, where it has one.            *)
Both(w, e) == (<<"0", "x">> \o w) \o <<Space, "=", Space>> \o e

LEMMA BothIs ==
    ASSUME NEW w \in Seq(Chars), NEW e \in Seq(Chars)
    PROVE  /\ Both(w, e) \in Seq(Symbols)
           /\ Len(Both(w, e)) = Len(w) + Len(e) + 5
           /\ Both(w, e)[1] = "0" /\ Both(w, e)[2] = "x"
           /\ \A i \in 1..Len(w) : Both(w, e)[2 + i] = w[i]
           /\ Both(w, e)[Len(w) + 3] = Space /\ Both(w, e)[Len(w) + 4] = "="
           /\ \A i \in 1..Len(e) : Both(w, e)[Len(w) + 5 + i] = e[i]
<1> DEFINE a == <<"0", "x">> \o w
           b == <<Space, "=", Space>>
           ab == a \o b
           t == ab \o e
           n == Len(w)
<1>1. Space \in Symbols /\ "=" \in Symbols  BY DEF Symbols
<1>2. /\ a \in Seq(Symbols) /\ Len(a) = n + 2 /\ a[1] = "0" /\ a[2] = "x"
      /\ \A i \in 1..n : a[2 + i] = w[i]
  BY PrefixedIs
<1>3. n \in Nat /\ Len(e) \in Nat /\ e \in Seq(Symbols)  BY LenProperties DEF Symbols
<1> HIDE DEF Symbols, Space
<1>4. b \in Seq(Symbols) /\ Len(b) = 3 /\ b[1] = Space /\ b[2] = "="  BY <1>1
<1>5. Both(w, e) = t  BY DEF Both
<1> HIDE DEF a, b, n
<1>6. /\ ab \in Seq(Symbols) /\ Len(ab) = Len(a) + Len(b)
      /\ \A i \in 1..(Len(a) + Len(b)) :
            ab[i] = IF i <= Len(a) THEN a[i] ELSE b[i - Len(a)]
  <2>1. a \in Seq(Symbols) /\ b \in Seq(Symbols)  BY <1>2, <1>4
  <2> QED BY ONLY <2>1, ConcatProperties
<1> HIDE DEF ab
<1>7. /\ t \in Seq(Symbols) /\ Len(t) = Len(ab) + Len(e)
      /\ \A i \in 1..(Len(ab) + Len(e)) :
            t[i] = IF i <= Len(ab) THEN ab[i] ELSE e[i - Len(ab)]
  <2>1. ab \in Seq(Symbols) /\ e \in Seq(Symbols)  BY <1>3, <1>6
  <2> QED BY ONLY <2>1, ConcatProperties
<1> HIDE DEF t
<1>8. Len(ab) = n + 5 /\ Len(t) = n + Len(e) + 5  BY <1>2, <1>3, <1>4, <1>6, <1>7
<1>9. \A i \in 1..(n + 2) : t[i] = a[i]
  <2>1. \A i \in 1..(n + 2) : i \in 1..(n + 5) /\ i <= n + 5 /\ i \in 1..(n + 5 + Len(e))
                              /\ i <= n + 2
    BY <1>3
  <2>2. \A i \in 1..(n + 2) : ab[i] = a[i]  BY <1>2, <1>4, <1>6, <2>1
  <2> QED BY <1>7, <1>8, <2>1, <2>2
<1>10. \A j \in 1..3 : t[n + 2 + j] = b[j]
  <2> SUFFICES ASSUME NEW j \in 1..3 PROVE t[n + 2 + j] = b[j]  OBVIOUS
  <2> DEFINE i == n + 2 + j
  <2>1. i \in 1..(n + 2 + 3) /\ i <= n + 5 /\ i \in 1..(n + 5 + Len(e))
        /\ ~(i <= n + 2) /\ i - (n + 2) = j
    BY <1>3
  <2> HIDE DEF i
  <2>2. ab[i] = b[j]  BY <1>2, <1>4, <1>6, <2>1
  <2>3. t[i] = ab[i]  BY <1>7, <1>8, <2>1
  <2> QED BY <2>2, <2>3 DEF i
<1>11. \A i \in 1..Len(e) : t[n + 5 + i] = e[i]
  <2> SUFFICES ASSUME NEW j \in 1..Len(e) PROVE t[n + 5 + j] = e[j]  OBVIOUS
  <2> DEFINE i == n + 5 + j
  <2>1. i \in 1..(n + 5 + Len(e)) /\ ~(i <= n + 5) /\ i - (n + 5) = j  BY <1>3
  <2> HIDE DEF i
  <2>2. t[i] = e[j]  BY <1>7, <1>8, <2>1
  <2> QED BY <2>2 DEF i
<1>12. t[1] = "0" /\ t[2] = "x" /\ \A i \in 1..n : t[2 + i] = w[i]
  <2>1. 1 \in 1..(n + 2) /\ 2 \in 1..(n + 2) /\ \A i \in 1..n : 2 + i \in 1..(n + 2)
    BY <1>3
  <2> DEFINE p == 1
             q == 2
  <2>2. t[p] = a[p] /\ t[q] = a[q]  BY <1>9, <2>1
  <2>3. \A i \in 1..n : t[2 + i] = a[2 + i]  BY <1>9, <2>1
  <2> QED BY <1>2, <2>2, <2>3
<1>13. t[n + 3] = Space /\ t[n + 4] = "="
  <2>1. n + 2 + 1 = n + 3 /\ n + 2 + 2 = n + 4 /\ 1 \in 1..3 /\ 2 \in 1..3  BY <1>3
  <2>2. t[n + 2 + 1] = b[1] /\ t[n + 2 + 2] = b[2]  BY <1>10, <2>1
  <2> QED BY <1>4, <2>1, <2>2
<1> QED BY <1>5, <1>7, <1>8, <1>11, <1>12, <1>13 DEF n

LEMMA ShownParts ==
    ASSUME NEW w \in Seq(Chars), NEW e \in Seq(Chars), NEW text, text = Line(Both(w, e)),
           NEW sign, sign = SelectInSeq(text, LAMBDA c : c = "=")
    PROVE  /\ SubSeq(text, 4, sign - 2) = w
           /\ SubSeq(text, sign + 2, Len(text) - 2) = e
<1> DEFINE n == Len(w)
           m == Both(w, e)
<1>1. /\ m \in Seq(Symbols) /\ Len(m) = n + Len(e) + 5
      /\ m[1] = "0" /\ m[2] = "x"
      /\ \A i \in 1..n : m[2 + i] = w[i]
      /\ m[n + 3] = Space /\ m[n + 4] = "="
      /\ \A i \in 1..Len(e) : m[n + 5 + i] = e[i]
  BY BothIs
<1>2. n \in Nat /\ Len(e) \in Nat /\ (\A i \in 1..n : w[i] \in Chars)  BY LenProperties
<1> HIDE DEF m, Symbols, Chars, Space, n
<1>3. /\ Len(text) = n + Len(e) + 8 /\ text[1] = "newline"
      /\ \A i \in 1..(n + Len(e) + 5) : text[1 + i] = m[i]
  <2>1. /\ Len(Line(m)) = Len(m) + 3 /\ Line(m)[1] = "newline"
        /\ \A i \in 1..Len(m) : Line(m)[1 + i] = m[i]
    BY <1>1, LineIs
  <2>2. text = Line(m)  BY DEF m
  <2> QED BY <1>1, <1>2, <2>1, <2>2
<1>4. \A i \in 1..n : text[3 + i] = w[i]
  <2> SUFFICES ASSUME NEW i \in 1..n PROVE text[3 + i] = w[i]  OBVIOUS
  <2> DEFINE j == 2 + i
  <2>1. j \in 1..(n + Len(e) + 5) /\ 1 + j = 3 + i  BY <1>2
  <2>2. m[j] = w[i]  BY <1>1
  <2> HIDE DEF j
  <2>3. text[1 + j] = m[j]  BY <1>3, <2>1
  <2> QED BY <2>1, <2>2, <2>3
<1>5. \A i \in 1..Len(e) : text[n + 6 + i] = e[i]
  <2> SUFFICES ASSUME NEW i \in 1..Len(e) PROVE text[n + 6 + i] = e[i]  OBVIOUS
  <2> DEFINE j == n + 5 + i
  <2>1. j \in 1..(n + Len(e) + 5) /\ 1 + j = n + 6 + i  BY <1>2
  <2>2. m[j] = e[i]  BY <1>1
  <2> HIDE DEF j
  <2>3. text[1 + j] = m[j]  BY <1>3, <2>1
  <2> QED BY <2>1, <2>2, <2>3
<1>6. text[2] = "0" /\ text[3] = "x" /\ text[n + 4] = Space /\ text[n + 5] = "="
  <2>1. /\ 1 \in 1..(n + Len(e) + 5) /\ 2 \in 1..(n + Len(e) + 5)
        /\ n + 3 \in 1..(n + Len(e) + 5) /\ n + 4 \in 1..(n + Len(e) + 5)
        /\ 1 + (n + 3) = n + 4 /\ 1 + (n + 4) = n + 5
    BY <1>2
  <2>2. text[1 + 1] = m[1] /\ text[1 + 2] = m[2]  BY <1>3, <2>1
  <2>3. text[1 + (n + 3)] = m[n + 3] /\ text[1 + (n + 4)] = m[n + 4]  BY <1>3, <2>1
  <2>4. 1 + 1 = 2 /\ 1 + 2 = 3  OBVIOUS
  <2> QED BY <1>1, <2>1, <2>2, <2>3, <2>4
<1> DEFINE I == {i \in 1..Len(text) : text[i] = "="}
<1>7. sign = IF I # {} THEN Min(I) ELSE 0  BY DEF SelectInSeq
<1>8. n + 5 \in I  BY <1>2, <1>3, <1>6
<1>9. \A i \in 1..(n + 4) : text[i] # "="
  <2> SUFFICES ASSUME NEW i \in 1..(n + 4) PROVE text[i] # "="  OBVIOUS
  <2>1. Space # "="  BY Zenon DEF Space
  <2>2. i = 1 \/ i = 2 \/ i = 3 \/ i = n + 4 \/ i \in 4..(n + 3)  BY <1>2
  <2>3. ASSUME i \in 4..(n + 3) PROVE text[i] # "="
    <3> DEFINE j == i - 3
    <3>1. j \in 1..n /\ 3 + j = i  BY <1>2, <2>3
    <3> HIDE DEF j
    <3>2. text[i] = w[j] /\ w[j] \in Chars  BY <1>2, <1>4, <3>1
    <3> QED BY <3>2, CharsAre
  <2> QED BY <1>3, <1>6, <2>1, <2>2, <2>3
<1>10. \A i \in I : n + 5 <= i
  <2> SUFFICES ASSUME NEW i \in I, ~(n + 5 <= i) PROVE FALSE  OBVIOUS
  <2>1. i \in 1..(n + 4) /\ text[i] = "="  BY <1>2, <1>3
  <2> QED BY <1>9, <2>1
<1>11. \A i \in I : i \in Int  BY <1>2, <1>3
<1> HIDE DEF I
<1>12. sign = n + 5
  <2>1. \A x \in I : (\A y \in I : x <= y) => x = n + 5  BY <1>2, <1>8, <1>10, <1>11
  <2>2. Min(I) = n + 5  BY <1>8, <1>10, <2>1 DEF Min
  <2> QED BY <1>7, <1>8, <2>2
<1>13. SubSeq(text, 3 + 1, 3 + n) = w
  <2>1. 3 \in Nat /\ \A i \in 1..Len(w) : text[3 + i] = w[i]  BY <1>4 DEF n
  <2> QED BY <2>1, SliceIs DEF n
<1>14. SubSeq(text, n + 6 + 1, n + 6 + Len(e)) = e
  <2> DEFINE k == n + 6
  <2>1. k \in Nat /\ \A i \in 1..Len(e) : text[k + i] = e[i]  BY <1>2, <1>5
  <2> HIDE DEF k
  <2>2. SubSeq(text, k + 1, k + Len(e)) = e  BY <2>1, SliceIs
  <2> QED BY <2>2 DEF k
<1>15. /\ 3 + 1 = 4 /\ 3 + n = sign - 2 /\ n + 6 + 1 = sign + 2
       /\ n + 6 + Len(e) = Len(text) - 2
  BY <1>2, <1>3, <1>12
<1> QED BY <1>13, <1>14, <1>15

-----------------------------------------------------------------------------
(* What the last command was given, and what it shows. *)
Typing == Seq(Printable \cup {"tab"})
Shown(v) == Line(hex_text(v) \o <<Space, "=", Space>> \o dec_text(v))

JobInv ==
    /\ tick \in Nat
    /\ job.name = "hex_convert" =>
          job.arg \in Typing /\ job.text = Shown(hex_str_to_u32int(job.arg))
    /\ job.name = "ticks" => job.value \in Nat /\ job.text = Line(dec_text(job.value))
    /\ job.name = "malloc" => job.arg \in Typing /\ job.value = str_to_u32int(job.arg)
    /\ job.name = "free" => \E p \in Pointers :
          job.arg = hex_text(p) /\ job.value = hex_str_to_u32int(hex_text(p))

LEMMA JobInit == Init => JobInv
<1> SUFFICES ASSUME Init PROVE JobInv  OBVIOUS
<1>1. tick = 0 /\ job.name = "none"  BY DEF Init
<1> QED BY <1>1 DEF JobInv

LEMMA JobStays ==
    ASSUME JobInv, job' = job, tick' \in Nat
    PROVE  JobInv'
BY DEF JobInv

(* A command is recorded with what it is given and what it puts. *)
LEMMA JobStarts ==
    ASSUME NEW name, NEW arg, NEW value, NEW text, Start(name, arg, value, text)
    PROVE  /\ job'.name = name /\ job'.arg = arg
           /\ job'.value = value /\ job'.text = text
           /\ tick' = tick
BY DEF Start

(* Each command that the properties are about records what it was given.   *)
LEMMA JobNext == JobInv /\ [Next]_vars => JobInv'
<1> SUFFICES ASSUME JobInv, [Next]_vars PROVE JobInv'  OBVIOUS
<1>0. tick \in Nat /\ Args \subseteq Typing  BY ShellAssumption DEF JobInv, Typing
<1>1. ASSUME job' = job, tick' = tick PROVE JobInv'
  BY <1>0, <1>1, JobStays
<1>2. ASSUME NEW name, NEW arg, NEW value, NEW text, Start(name, arg, value, text),
             name \in {"echo", "key", "rub"}
      PROVE  JobInv'
  BY <1>0, <1>2, JobStarts DEF JobInv
<1>3. CASE UNCHANGED vars  BY <1>1, <1>3 DEF vars
<1>4. CASE PutNext  BY <1>1, <1>4 DEF PutNext
<1>5. ASSUME NEW arg \in Args, HexConvert(arg) PROVE JobInv'
  <2> DEFINE v == hex_str_to_u32int(arg)
  <2>1. Start("hex_convert", arg, v, Shown(v))  BY <1>5 DEF HexConvert, Shown
  <2> HIDE DEF v
  <2>2. job'.name = "hex_convert" /\ job'.arg = arg /\ job'.text = Shown(v) /\ tick' = tick
    BY <2>1, JobStarts
  <2>3. job'.arg \in Typing /\ job'.text = Shown(hex_str_to_u32int(job'.arg))
    BY <1>0, <2>2 DEF v
  <2> QED BY <1>0, <2>2, <2>3 DEF JobInv
<1>6. CASE Ticks
  <2>1. Start("ticks", <<>>, tick, Line(dec_text(tick)))  BY <1>6 DEF Ticks
  <2>2. /\ job'.name = "ticks" /\ job'.value = tick
        /\ job'.text = Line(dec_text(tick)) /\ tick' = tick
    BY <2>1, JobStarts
  <2>3. job'.value \in Nat /\ job'.text = Line(dec_text(job'.value))  BY <1>0, <2>2
  <2> QED BY <1>0, <2>2, <2>3 DEF JobInv
<1>7. ASSUME NEW arg \in Args, NEW p \in Pointers, Malloc(arg, p) PROVE JobInv'
  <2> DEFINE text == <<"newline">> \o Line(<<"=">> \o hex_text(p))
             v == str_to_u32int(arg)
  <2>1. Start("malloc", arg, v, text)  BY <1>7 DEF Malloc
  <2> HIDE DEF text, v
  <2>2. job'.name = "malloc" /\ job'.arg = arg /\ job'.value = v /\ tick' = tick
    BY <2>1, JobStarts
  <2>3. job'.arg \in Typing /\ job'.value = str_to_u32int(job'.arg)  BY <1>0, <2>2 DEF v
  <2> QED BY <1>0, <2>2, <2>3 DEF JobInv
<1>8. ASSUME NEW p \in Pointers, Free(p) PROVE JobInv'
  <2> DEFINE text == <<"newline", ">">>
             v == hex_str_to_u32int(hex_text(p))
  <2>1. Start("free", hex_text(p), v, text)  BY <1>8 DEF Free
  <2> HIDE DEF text, v
  <2>2. job'.name = "free" /\ job'.arg = hex_text(p) /\ job'.value = v /\ tick' = tick
    BY <2>1, JobStarts
  <2>3. \E q \in Pointers : /\ job'.arg = hex_text(q)
                            /\ job'.value = hex_str_to_u32int(hex_text(q))
    BY <2>2 DEF v
  <2> QED BY <1>0, <2>2, <2>3 DEF JobInv
<1>9. CASE Clear
  <2>1. job'.name = "clear" /\ tick' = tick  BY <1>9 DEF Clear
  <2> QED BY <1>0, <2>1 DEF JobInv
<1>10. CASE timer_interrupt_handler
  <2>1. job' = job /\ tick' = (tick + 1) % U32  BY <1>10 DEF timer_interrupt_handler
  <2>2. tick' \in Nat  BY <1>0, <2>1, NumbersAssumption
  <2> QED BY <2>1, <2>2, JobStays
<1> QED
  BY <1>2, <1>3, <1>4, <1>5, <1>6, <1>7, <1>8, <1>9, <1>10
  DEF Next, Echo, EchoKey, Rub

LEMMA JobKept == Spec => []JobInv
BY JobInit, JobNext, PTL DEF Spec

(* Up to 2^31 put_dec puts the number, above it nothing. *)
LEMMA DecIs ==
    ASSUME NEW v \in Nat
    PROVE  /\ dec_text(v) \in Seq(Chars)
           /\ 2 * v < U32 => Spells(dec_text(v), 10, v)
<1> DEFINE w == Written(v, 10)
           A == v = 0
           B == 0 < v /\ 2 * v < U32
           zero == <<"0">>
           low == Reverse(low_digits(v, 10))
           none == <<>>
<1>0. U32 \in Nat \ {0, 1}  BY NumbersAssumption
<1>1. w \in Seq(Chars) /\ Spells(w, 10, v)
  <2>1. 10 \in 2..16  OBVIOUS
  <2> QED BY <2>1, WrittenSpells
<1>2. w = IF A THEN zero ELSE low  BY DEF Written
<1>3. dec_text(v) = CASE A -> zero [] B -> low [] OTHER -> none  BY DEF dec_text
<1>4. (A => ~B) /\ (A => 2 * v < U32) /\ (2 * v < U32 => A \/ B)  BY <1>0
<1>5. none \in Seq(Chars)  OBVIOUS
<1>6. B => 2 * v < U32  OBVIOUS
<1> HIDE DEF w, A, B, zero, low, none, Chars
<1>7. CASE A
  <2>1. dec_text(v) = w  BY <1>2, <1>3, <1>4, <1>7
  <2> QED BY <1>1, <2>1
<1>8. CASE B
  <2>1. ~A  BY <1>4, <1>8
  <2>2. dec_text(v) = w  BY <1>2, <1>3, <1>8, <2>1
  <2> QED BY <1>1, <2>2
<1>9. CASE ~A /\ ~B
  <2>1. dec_text(v) = none  BY <1>3, <1>9
  <2> QED BY <1>4, <1>5, <1>9, <2>1
<1> QED BY <1>7, <1>8, <1>9

LEMMA HexIs ==
    ASSUME NEW v
    PROVE  hex_text(v) = <<"0", "x">> \o Written(v, 16)
BY DEF hex_text, Written

LEMMA WordIs ==
    ASSUME NEW p \in Nat
    PROVE  p % U32 \in Nat
BY NumbersAssumption

(* What hex_convert shows for v. *)
LEMMA ShownIs ==
    ASSUME NEW v \in Nat, NEW text, text = Shown(v),
           NEW sign, sign = SelectInSeq(text, LAMBDA c : c = "=")
    PROVE  /\ Spells(SubSeq(text, 4, sign - 2), 16, v)
           /\ 2 * v < U32 => Spells(SubSeq(text, sign + 2, Len(text) - 2), 10, v)
<1> DEFINE w == Written(v, 16)
           e == dec_text(v)
<1>1. w \in Seq(Chars) /\ Spells(w, 16, v)
  <2>1. 16 \in 2..16  OBVIOUS
  <2> QED BY <2>1, WrittenSpells
<1>2. e \in Seq(Chars) /\ (2 * v < U32 => Spells(e, 10, v))  BY DecIs
<1>3. text = Line(Both(w, e))  BY HexIs DEF Shown, Both
<1> HIDE DEF w, e
<1>4. /\ SubSeq(text, 4, sign - 2) = w
      /\ SubSeq(text, sign + 2, Len(text) - 2) = e
  BY <1>1, <1>2, <1>3, ShownParts
<1> QED BY <1>1, <1>2, <1>4

LEMMA TicksShown ==
    ASSUME NEW v \in Nat, 2 * v < U32
    PROVE  Spells(SubSeq(Line(dec_text(v)), 2, Len(Line(dec_text(v))) - 2), 10, v)
<1> DEFINE e == dec_text(v)
           text == Line(e)
<1>1. e \in Seq(Chars) /\ Spells(e, 10, v)  BY DecIs
<1>2. e \in Seq(Symbols) /\ Len(e) \in Nat  BY <1>1, LenProperties DEF Symbols
<1> HIDE DEF e, Chars, Symbols
<1>3. Len(text) = Len(e) + 3 /\ \A i \in 1..Len(e) : text[1 + i] = e[i]
  BY <1>2, LineIs
<1> HIDE DEF text
<1>4. SubSeq(text, 1 + 1, 1 + Len(e)) = e
  <2>1. 1 \in Nat  OBVIOUS
  <2> QED BY <1>1, <1>3, <2>1, SliceIs
<1>5. 1 + 1 = 2 /\ 1 + Len(e) = Len(text) - 2  BY <1>2, <1>3
<1> QED BY <1>1, <1>4, <1>5 DEF e, text

(* Whatever hex_convert is given and whatever the counter is, the command  *)
(* shows that number: put_hex and put_dec spell what str_to_u32int and     *)
(* hex_str_to_u32int read, whatever the timer does in between.             *)
THEOREM NumbersSpeltAlways == Spec => []NumbersSpelt
<1>1. JobInv => NumbersSpelt
  <2> SUFFICES ASSUME JobInv PROVE NumbersSpelt  OBVIOUS
  <2>1. ASSUME job.name = "hex_convert", job.arg # <<>>, Numeral(job.arg, 16),
               NEW v, v = Positional(job.arg, 16) % U32,
               NEW sign, sign = SelectInSeq(job.text, LAMBDA c : c = "=")
        PROVE  /\ Spells(SubSeq(job.text, 4, sign - 2), 16, v)
               /\ 2 * v < U32 =>
                     Spells(SubSeq(job.text, sign + 2, Len(job.text) - 2), 10, v)
    <3>1. job.arg \in Typing /\ job.text = Shown(hex_str_to_u32int(job.arg))
      BY <2>1 DEF JobInv
    <3>2. hex_str_to_u32int(job.arg) = v  BY <2>1, <3>1, HexPlain DEF Typing
    <3>3. v \in Nat
      <4>1. 16 \in 2..16  OBVIOUS
      <4>2. Positional(job.arg, 16) \in Nat
        BY <2>1, <3>1, <4>1, PositionalType DEF Typing
      <4> QED BY <2>1, <4>2, WordIs
    <3>4. job.text = Shown(v)  BY <3>1, <3>2
    <3> QED BY <2>1, <3>3, <3>4, ShownIs
  <2>2. ASSUME job.name = "ticks", 2 * job.value < U32
        PROVE  Spells(SubSeq(job.text, 2, Len(job.text) - 2), 10, job.value)
    <3>1. job.value \in Nat /\ job.text = Line(dec_text(job.value))  BY <2>2 DEF JobInv
    <3> QED BY <2>2, <3>1, TicksShown
  <2> QED BY <2>1, <2>2 DEF NumbersSpelt
<1> QED BY <1>1, JobKept, PTL

(* malloc asks for the number that was typed, and free gets the pointer    *)
(* that malloc has shown: hex_str_to_u32int reads back what put_hex put.   *)
THEOREM PointersReadBackAlways == Spec => []PointersReadBack
<1>1. JobInv => PointersReadBack
  <2> SUFFICES ASSUME JobInv PROVE PointersReadBack  OBVIOUS
  <2>1. ASSUME job.name = "malloc", Numeral(job.arg, 10)
        PROVE  job.value = Positional(job.arg, 10) % U32
    <3>1. job.arg \in Typing /\ job.value = str_to_u32int(job.arg)  BY <2>1 DEF JobInv
    <3> QED BY <2>1, <3>1, StrReads DEF Typing
  <2>2. ASSUME job.name = "free"
        PROVE  \E p \in Pointers :
                  job.value = p /\ Spells(SubSeq(job.arg, 3, Len(job.arg)), 16, p)
    <3>1. PICK p \in Pointers : /\ job.arg = hex_text(p)
                                /\ job.value = hex_str_to_u32int(hex_text(p))
      BY <2>2 DEF JobInv
    <3>2. p \in 0..(U32 - 1) /\ p \in Nat  BY ShellAssumption, NumbersAssumption
    <3>3. job.value = p  BY <3>1, <3>2, HexReadsBack
    <3> DEFINE w == Written(p, 16)
               s == <<"0", "x">> \o w
    <3>4. w \in Seq(Chars) /\ Spells(w, 16, p) /\ job.arg = s
      <4>1. 16 \in 2..16  OBVIOUS
      <4> QED BY <3>1, <3>2, <4>1, WrittenSpells, HexIs
    <3> HIDE DEF w
    <3>5. Len(s) = Len(w) + 2 /\ \A i \in 1..Len(w) : s[2 + i] = w[i]
      BY <3>4, PrefixedIs
    <3> HIDE DEF s
    <3>6. SubSeq(s, 2 + 1, 2 + Len(w)) = w
      <4>1. 2 \in Nat  OBVIOUS
      <4> HIDE DEF Chars
      <4> QED BY <3>4, <3>5, <4>1, SliceIs
    <3>7. 2 + 1 = 3 /\ 2 + Len(w) = Len(s)
      <4> HIDE DEF Chars
      <4>1. Len(w) \in Nat  BY <3>4, LenProperties
      <4> QED BY <3>5, <4>1
    <3>8. Spells(SubSeq(job.arg, 3, Len(job.arg)), 16, p)  BY <3>4, <3>6, <3>7
    <3> QED BY <3>3, <3>8
  <2> QED BY <2>1, <2>2 DEF PointersReadBack
<1> QED BY <1>1, JobKept, PTL
=============================================================================
