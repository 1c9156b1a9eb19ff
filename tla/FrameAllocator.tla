--------------------------- MODULE FrameAllocator ---------------------------
(***************************************************************************)
(* What alloc_frame and free_frame of src/src/c/pmm.c promise: frames are  *)
(* in a pool or held by a caller, and each in one place only.              *)
(***************************************************************************)
CONSTANT Frames

VARIABLES avail, held

vars == <<avail, held>>

Init == avail = Frames /\ held = {}

Alloc ==
    \E f \in avail :
        /\ avail' = avail \ {f}
        /\ held' = held \cup {f}

Free ==
    \E f \in held :
        /\ avail' = avail \cup {f}
        /\ held' = held \ {f}

(* alloc_frame with an empty pool changes nothing. *)
Next == Alloc \/ Free

Spec == Init /\ [][Next]_vars
=============================================================================
