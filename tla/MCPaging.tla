------------------------------ MODULE MCPaging ------------------------------
(***************************************************************************)
(* A directory and tables of four entries; the kernel has the second       *)
(* table.  Of ten frames the first four are the kernel's.  Running code    *)
(* writes words that are not an entry, and words that look like one.       *)
(***************************************************************************)
EXTENDS Paging

MC_Regions == {[base |-> 0, length |-> 10, type |-> 1]}
MC_KernelFrames == 0..3
MC_Values == {NotPresent, 5}
=============================================================================
