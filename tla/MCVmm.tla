------------------------------- MODULE MCVmm -------------------------------
(***************************************************************************)
(* A page directory of four entries for four addresses each: one without a *)
(* table, one whose table maps the second of its two pages, one without a  *)
(* table, and the last one, which vmm_initialize leaves out.               *)
(***************************************************************************)
EXTENDS Vmm

MC_M == 16

MC_Visits == <<
    [virt |-> 0, size |-> 4, present |-> FALSE],
    [virt |-> 4, size |-> 2, present |-> FALSE],
    [virt |-> 6, size |-> 2, present |-> TRUE],
    [virt |-> 8, size |-> 4, present |-> FALSE]>>
=============================================================================
