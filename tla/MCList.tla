------------------------------- MODULE MCList -------------------------------
(***************************************************************************)
(* Two lists, as free and used are, and four nodes.                        *)
(***************************************************************************)
EXTENDS List, TLC

MC_Symmetry == Permutations(Nodes) \cup Permutations(Lists)
=============================================================================
