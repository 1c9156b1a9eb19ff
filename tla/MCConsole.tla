----------------------------- MODULE MCConsole -----------------------------
(***************************************************************************)
(* The console with small buffers and few keys.                            *)
(***************************************************************************)
EXTENDS Console

(* With slow typing every newline runs a command, sooner or later.         *)
Newlines == Len(SelectSeq(typed, LAMBDA c : c = "enter"))
EveryNewlineRuns == \A n \in 1..MaxKeys :
    Newlines >= n ~> Len(commands) >= n
=============================================================================
