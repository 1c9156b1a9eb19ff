-------------------------------- MODULE Pmm --------------------------------
(***************************************************************************)
(* The physical memory manager of src/src/c/pmm.c as operators on its      *)
(* bitmap: what pmm_initialize makes of the multiboot memory map, and      *)
(* alloc_frame and free_frame.  Modules that call them keep the bitmap in  *)
(* a variable.                                                             *)
(***************************************************************************)
EXTENDS Bitmap

CONSTANTS
    PageSize,      \* bytes in a frame: 0x1000
    M,             \* u32int wraps at M
    Bytes,         \* bytes of the bitmap
    Regions,       \* the memory map: a set of [base, length, type], where
                   \* base and length have 64 bits
    KernelFrames   \* the frames of the 4 MB pages in BootPageDirectory

ASSUME PmmAssumption ==
    /\ PageSize \in Nat \ {0} /\ M \in Nat \ {0} /\ Bytes \in Nat
    /\ \A r \in Regions : r.base \in Nat /\ r.length \in Nat /\ r.type \in Nat
    /\ KernelFrames \subseteq 0..(Bytes * W - 1)

NoFrame == -1          \* alloc_frame's error value 0xFFFFFFFF
Bits == 0..(Bytes * W - 1)

(* Mutant: the length of a region is rounded up.                           *)
RegionBits_up(r) ==
    {(((r.base % M) + i * PageSize) % M) \div PageSize :
        i \in 0..((((r.length % M) + PageSize - 1) \div PageSize) - 1)}

(* The bits the first loop clears for a region.  base_addr_high and        *)
(* length_high are never read, and the division drops the distance to the  *)
(* start of the frame.                                                     *)
RegionBits(r) ==
    {(((r.base % M) + i * PageSize) % M) \div PageSize :
        i \in 0..(((r.length % M) \div PageSize) - 1)}

ReleasedBits == UNION {RegionBits(r) : r \in {q \in Regions : q.type = 1}}

pmm_initialize == LET clear == ReleasedBits \ KernelFrames IN
    [i \in 0..(Bytes-1) |-> {j \in Full : i * W + j \notin clear}]

(* alloc_frame and free_frame: the frame and the bitmap they leave. *)
alloc_frame(frames) ==
    IF any_bit_clear(frames) THEN find_first_clear_bit(frames) ELSE NoFrame

(* Mutant: the bit of the frame is not set.                                *)
after_alloc_unset(frames) == frames

after_alloc(frames) ==
    IF any_bit_clear(frames)
    THEN set_bit(frames, find_first_clear_bit(frames)) ELSE frames

free_frame(frames, frame) == clear_bit(frames, frame)

FreeFrames(frames) == {bit \in Bits : ~test_bit(frames, bit)}
=============================================================================
