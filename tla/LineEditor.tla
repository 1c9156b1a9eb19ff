----------------------------- MODULE LineEditor -----------------------------
(***************************************************************************)
(* What the terminal is for: keys edit a line, and a newline runs it as a  *)
(* command with what stands behind the first blank as its argument.        *)
(***************************************************************************)
EXTENDS Sequences, SequencesExt, Integers

CONSTANT Printable

VARIABLES keys, line, commands

vars == <<keys, line, commands>>

Init == keys = <<>> /\ line = <<>> /\ commands = <<>>

Type == \E c \in Printable :
    /\ keys' = Append(keys, c)
    /\ line' = Append(line, c)
    /\ UNCHANGED commands

Rub ==
    /\ line # <<>>
    /\ keys' = Append(keys, "erase")
    /\ line' = Front(line)
    /\ UNCHANGED commands

Blanks == {i \in 1..Len(line) : line[i] = " "}
FirstBlank == CHOOSE i \in Blanks : \A j \in Blanks : i <= j

(* Without a blank it is not said what the argument is. *)
Run ==
    /\ keys' = Append(keys, "enter")
    /\ line' = <<>>
    /\ Len(commands') = Len(commands) + 1
    /\ Front(commands') = commands
    /\ IF Blanks = {} THEN Last(commands').token = line
       ELSE Last(commands') = [token    |-> SubSeq(line, 1, FirstBlank - 1),
                               argument |-> SubSeq(line, FirstBlank + 1, Len(line))]

Next == Type \/ Rub \/ Run

Spec == Init /\ [][Next]_vars
=============================================================================
