------------------------------ MODULE PmmCalls ------------------------------
(***************************************************************************)
(* The physical memory manager with its callers: they allocate frames and  *)
(* give back only frames they hold, as map_page does with the frame it     *)
(* cannot use for a table.                                                 *)
(***************************************************************************)
EXTENDS Pmm

VARIABLES
    pmm_frames,   \* the bitmap
    held          \* the frames the callers hold

vars == <<pmm_frames, held>>

Init == pmm_frames = pmm_initialize /\ held = {}

Alloc ==
    /\ pmm_frames' = after_alloc(pmm_frames)
    /\ held' = held \cup ({alloc_frame(pmm_frames)} \ {NoFrame})

Free(frame) ==
    /\ pmm_frames' = free_frame(pmm_frames, frame)
    /\ held' = held \ {frame}

Next == Alloc \/ \E frame \in held : Free(frame)

Spec == Init /\ [][Next]_vars

-----------------------------------------------------------------------------
TypeOK == pmm_frames \in Bitmaps(Bytes) /\ held \subseteq Bits

(* The addresses of a frame, and whether the memory map lists them all as  *)
(* memory to use.                                                          *)
Addresses(frame) == frame * PageSize .. (frame * PageSize + PageSize - 1)
Usable(frame) == \A a \in Addresses(frame) : \E r \in Regions :
    r.type = 1 /\ r.base <= a /\ a < r.base + r.length

(* alloc_frame only hands out frames that lie wholly in memory which the   *)
(* memory map says is free, and never one of the kernel's.                 *)
FramesUsable ==
    \A f \in held \cup FreeFrames(pmm_frames) : Usable(f) /\ f \notin KernelFrames

(* The frames the kernel can use, handed out or not, are always all there. *)
FA == INSTANCE FrameAllocator WITH
    Frames <- {f \in Bits : Usable(f) /\ f \notin KernelFrames},
    avail <- FreeFrames(pmm_frames)

(* The bitmap implements a set of frames: a frame is never handed out      *)
(* twice, giving one back changes no other, and none gets lost.            *)
ImplementsFrameAllocator == FA!Spec
=============================================================================
