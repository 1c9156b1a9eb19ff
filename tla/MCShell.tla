------------------------------ MODULE MCShell -------------------------------
(***************************************************************************)
(* The shell on a screen of a few cells, with words of ten bits: numbers   *)
(* of three digits wrap, and the signed half is reached.                   *)
(***************************************************************************)
EXTENDS Shell

MC_Printable == {Digits[i] : i \in 1..16} \cup {SmallDigits[i] : i \in 1..6}
                    \cup {" ", "x", "=", ">"}
MC_Args == {<<>>, <<"0">>, <<"1", "C", "9">>, <<"0", "x", "2", "b">>, <<"0", "x">>,
            <<"4", "0", "7">>, <<"2", "0", "4", "8">>, <<"7", "tab", "7">>}
MC_Typed == {"8", "tab", "other"}
MC_Pointers == {0, 750}
=============================================================================
