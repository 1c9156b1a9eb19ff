-------------------------------- MODULE Heap --------------------------------
(***************************************************************************)
(* What malloc and free of src/src/c/vmm.c promise, without lists, nodes   *)
(* or splits: an exact first fit over the addresses that are not in use.   *)
(***************************************************************************)
EXTENDS Integers

CONSTANTS
    Space,    \* the addresses the heap may hand out
    Sizes     \* the sizes malloc is called with

VARIABLES
    live,     \* the blocks in use: [virt, size]
    lost      \* a call has left defined behaviour

vars == <<live, lost>>

Taken == UNION {b.virt .. (b.virt + b.size - 1) : b \in live}

(* A block of "size" bytes may start where "size" + 1 addresses are free:  *)
(* malloc keeps one byte behind each block, and the lowest place wins.     *)
Places(size) == {a \in Space : a .. (a + size) \subseteq Space \ Taken}

Init == live = {} /\ lost = FALSE

Malloc(size) ==
    /\ ~lost
    /\ \/ /\ \E a \in Places(size) :
                /\ \A b \in Places(size) : a <= b
                /\ live' = live \cup {[virt |-> a, size |-> size]}
          /\ UNCHANGED lost
       \/ /\ Places(size) = {}
          /\ lost' = TRUE
          /\ UNCHANGED live

(* A block that is in use can always be freed. *)
Free(block) ==
    /\ ~lost
    /\ live' = live \ {block}
    /\ UNCHANGED lost

(* free of an address that is not in use has no effect, unless nothing is. *)
FreeUnknown ==
    /\ ~lost
    /\ live = {}
    /\ lost' = TRUE
    /\ UNCHANGED live

Next ==
    \/ \E size \in Sizes : Malloc(size)
    \/ \E block \in live : Free(block)
    \/ FreeUnknown

Spec == Init /\ [][Next]_vars
=============================================================================
