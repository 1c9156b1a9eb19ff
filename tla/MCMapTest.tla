----------------------------- MODULE MCMapTest -----------------------------
(***************************************************************************)
(* mapTest on a directory of four entries; the kernel has the second one.  *)
(* Of ten frames the first four are the kernel's.                          *)
(***************************************************************************)
EXTENDS MapTest

MC_Regions == {[base |-> 0, length |-> 10, type |-> 1]}
MC_KernelFrames == 0..3
MC_Values == {NotPresent, 5}
=============================================================================
