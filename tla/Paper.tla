------------------------------- MODULE Paper --------------------------------
(***************************************************************************)
(* What a screen that scrolls promises: text typed on a roll of paper that *)
(* is as long as it takes.  The screen is the window on its last rows.     *)
(***************************************************************************)
EXTENDS Integers, Sequences

CONSTANTS Width, Height, Stop, Printable

VARIABLES
    text,            \* what is to be typed
    rows, row, col

vars == <<text, rows, row, col>>

BlankRow == [i \in 1..Width |-> " "]
Sheet == [i \in 1..Height |-> BlankRow]

Init == rows = Sheet /\ row = 1 /\ col = 1

Take(c) == text # <<>> /\ Head(text) = c /\ text' = Tail(text)

(* The next row, on the paper as it is now. *)
Down(paper) ==
    /\ col' = 1
    /\ row' = row + 1
    /\ rows' = IF row = Len(paper) THEN Append(paper, BlankRow) ELSE paper

Type == \E c \in Printable :
    LET typed == [rows EXCEPT ![row][col] = c]
    IN  /\ Take(c)
        /\ \/ col < Width /\ col' = col + 1 /\ rows' = typed /\ UNCHANGED row
           \/ col = Width /\ Down(typed)

Back ==
    /\ Take("backspace")
    /\ col' = IF col > 1 THEN col - 1 ELSE col
    /\ UNCHANGED <<rows, row>>

(* To the next column behind a multiple of Stop. *)
Tab ==
    /\ Take("tab")
    /\ \E next \in (col + 1)..(col + Stop) :
          /\ (next - 1) % Stop = 0
          /\ \/ next <= Width /\ col' = next /\ UNCHANGED <<rows, row>>
             \/ next > Width /\ Down(rows)

Return == Take("return") /\ col' = 1 /\ UNCHANGED <<rows, row>>

Feed == Take("newline") /\ Down(rows)

(* Nothing else leaves a mark. *)
Ignore ==
    /\ text # <<>> /\ text' = Tail(text)
    /\ Head(text) \notin Printable \cup {"backspace", "tab", "return", "newline"}
    /\ UNCHANGED <<rows, row, col>>

(* What comes next is typed on this sheet, or at the top of a new one. *)
More == text = <<>> /\ UNCHANGED <<rows, row, col>>

NewSheet == text = <<>> /\ rows' = Sheet /\ row' = 1 /\ UNCHANGED col

Next == Type \/ Back \/ Tab \/ Return \/ Feed \/ Ignore \/ More \/ NewSheet

Spec == Init /\ [][Next]_vars
=============================================================================
