----------------------------- MODULE PmmProofs -----------------------------
(***************************************************************************)
(* Proofs about PmmCalls, for every size of byte, frame and bitmap, and    *)
(* every memory map whose free regions start at a frame and end below the  *)
(* last 32-bit address.                                                    *)
(***************************************************************************)
EXTENDS PmmCalls, PmmLemmas

MapAligned == \A r \in Regions : r.type = 1 =>
    /\ \E b \in Nat : r.base = b * PageSize
    /\ r.base + r.length <= M /\ r.length < M

-----------------------------------------------------------------------------
(* The bit that the loop clears for the i-th frame of a free region is the *)
(* number of that frame.                                                   *)
LEMMA RegionFrame ==
    ASSUME NEW r \in Regions, NEW b \in Nat, NEW i \in Nat,
           r.base = b * PageSize, r.base + r.length <= M,
           (i + 1) * PageSize <= r.length
    PROVE  (((r.base % M) + i * PageSize) % M) \div PageSize = b + i
<1>1. PageSize \in Nat /\ PageSize > 0 /\ M \in Nat /\ M > 0
      /\ r.base \in Nat /\ r.length \in Nat
  BY PmmAssumption
<1>2. i * PageSize \in Nat /\ (i + 1) * PageSize = i * PageSize + PageSize
  BY <1>1
<1>3. r.base + i * PageSize < M /\ r.base < M  BY <1>1, <1>2
<1>4. r.base % M = r.base  BY <1>1, <1>3
<1>5. (r.base + i * PageSize) % M = r.base + i * PageSize
  <2> DEFINE n == r.base + i * PageSize
  <2>1. n \in Nat /\ n < M  BY <1>1, <1>2, <1>3
  <2> HIDE DEF n
  <2>2. n % M = n  BY <1>1, <2>1
  <2> QED BY <2>2 DEF n
<1>6. r.base + i * PageSize = (b + i) * PageSize + 0
  BY <1>1
<1>7. ((b + i) * PageSize + 0) \div PageSize = b + i
  BY <1>1, DivUnique
<1> QED BY <1>4, <1>5, <1>6, <1>7

(* length_low is the whole length of a region below M.                     *)
LEMMA LengthLow ==
    ASSUME MapAligned, NEW r \in Regions, r.type = 1
    PROVE  r.length % M = r.length
<1> DEFINE l == r.length
<1>1. l \in Nat /\ M \in Nat /\ l < M  BY PmmAssumption DEF MapAligned
<1> HIDE DEF l
<1>2. l % M = l  BY <1>1
<1> QED BY <1>2 DEF l

(* The clear bits are those of the frames that lie wholly in free memory.  *)
LEMMA ReleasedUsable ==
    ASSUME MapAligned, NEW bit \in ReleasedBits
    PROVE  bit \in Nat /\ Usable(bit)
<1>0. PICK r \in Regions : r.type = 1 /\ bit \in RegionBits(r)
  BY DEF ReleasedBits
<1>1. PICK i \in 0..((r.length \div PageSize) - 1) :
         bit = (((r.base % M) + i * PageSize) % M) \div PageSize
  BY <1>0, LengthLow DEF RegionBits
<1>2. PICK b \in Nat : r.base = b * PageSize /\ r.base + r.length <= M
  BY <1>0 DEF MapAligned
<1>3. PageSize \in Nat /\ PageSize > 0 /\ r.base \in Nat /\ r.length \in Nat
  BY PmmAssumption
<1> DEFINE q == r.length \div PageSize
<1>4. q \in Nat /\ q * PageSize <= r.length
  <2>1. /\ q \in Nat /\ r.length % PageSize \in 0..(PageSize-1)
        /\ r.length = q * PageSize + (r.length % PageSize)
    BY <1>3, DivMod
  <2> QED BY <2>1, <1>3
<1>5. i \in Nat /\ i < q  BY <1>1, <1>4
<1> HIDE DEF q
<1>6. i * PageSize + PageSize <= r.length
  <2>1. i * PageSize + PageSize <= q * PageSize  BY <1>3, <1>4, <1>5, Grows
  <2> QED BY <2>1, <1>3, <1>4, <1>5
<1>7. (i + 1) * PageSize <= r.length  BY <1>3, <1>5, <1>6
<1>8. bit = b + i  BY <1>1, <1>2, <1>5, <1>7, RegionFrame
<1>9. bit \in Nat /\ bit * PageSize = r.base + i * PageSize
  BY <1>2, <1>3, <1>5, <1>8
<1>10. \A a \in Addresses(bit) : r.base <= a /\ a < r.base + r.length
  <2>1. bit * PageSize \in Nat /\ i * PageSize \in Nat  BY <1>3, <1>5, <1>9
  <2> QED BY <1>3, <1>6, <1>9, <2>1 DEF Addresses
<1> QED BY <1>0, <1>9, <1>10 DEF Usable

LEMMA UsableReleased ==
    ASSUME MapAligned, NEW bit \in Nat, Usable(bit)
    PROVE  bit \in ReleasedBits
<1>1. PageSize \in Nat /\ PageSize > 0 /\ bit * PageSize \in Nat
  BY PmmAssumption
<1> DEFINE a == bit * PageSize + PageSize - 1
<1>2. a \in Addresses(bit)  BY <1>1 DEF Addresses
<1>3. PICK r \in Regions : r.type = 1 /\ r.base <= a /\ a < r.base + r.length
  BY <1>2 DEF Usable
<1>4. PICK b \in Nat : r.base = b * PageSize /\ r.base + r.length <= M
  BY <1>3 DEF MapAligned
<1>5. r.base \in Nat /\ r.length \in Nat  BY PmmAssumption
<1>6. b <= bit
  <2> SUFFICES ASSUME bit < b PROVE FALSE  BY <1>4
  <2>1. bit * PageSize + PageSize <= b * PageSize  BY <1>1, <1>4, Grows
  <2> QED BY <1>1, <1>3, <1>4, <1>5, <2>1
<1> DEFINE i == bit - b
<1>7. i \in Nat /\ bit = b + i  BY <1>4, <1>6
<1> HIDE DEF i
<1>8. /\ (i + 1) * PageSize = i * PageSize + PageSize
      /\ i * PageSize \in Nat
      /\ bit * PageSize = r.base + i * PageSize
  BY <1>1, <1>4, <1>7
<1>9. (i + 1) * PageSize <= r.length  BY <1>1, <1>3, <1>5, <1>8
<1>10. i \in 0..((r.length \div PageSize) - 1)
  <2> DEFINE q == r.length \div PageSize
             s == r.length % PageSize
  <2>1. q \in Nat /\ s \in 0..(PageSize-1) /\ r.length = q * PageSize + s
    BY <1>1, <1>5, DivMod
  <2> HIDE DEF q, s
  <2>2. ASSUME q < i + 1 PROVE FALSE
    <3>1. q * PageSize + PageSize <= (i + 1) * PageSize
      BY <1>1, <1>7, <2>1, <2>2, Grows
    <3>2. q * PageSize \in Nat /\ (i + 1) * PageSize \in Nat
      BY <1>1, <1>7, <2>1
    <3> QED BY <1>1, <1>5, <1>9, <2>1, <3>1, <3>2
  <2>3. i \in 0..(q - 1)  BY <1>7, <2>1, <2>2
  <2> QED BY <2>3 DEF q
<1>11. bit = (((r.base % M) + i * PageSize) % M) \div PageSize
  BY <1>4, <1>7, <1>9, RegionFrame
<1>12. bit \in RegionBits(r)  BY <1>3, <1>10, <1>11, LengthLow DEF RegionBits
<1> QED BY <1>3, <1>12 DEF ReleasedBits

LEMMA InitialFrames ==
    ASSUME MapAligned
    PROVE  FreeFrames(pmm_initialize) = {f \in Bits : Usable(f) /\ f \notin KernelFrames}
<1>1. Bytes \in Nat /\ Bits \subseteq Nat
  <2>1. Bytes * W \in Nat  BY PmmAssumption, WAssumption
  <2> QED BY <2>1, PmmAssumption DEF Bits
<1>2. FreeFrames(pmm_initialize) = (ReleasedBits \ KernelFrames) \cap Bits
  BY <1>1, InitialFree
<1>3. \A f \in Bits : f \in ReleasedBits <=> Usable(f)
  BY <1>1, ReleasedUsable, UsableReleased
<1> QED BY <1>2, <1>3

-----------------------------------------------------------------------------
(* The frames in the bitmap and those of the callers are together always   *)
(* the ones the bitmap had at the start.                                   *)
PoolKept == held \cup FreeFrames(pmm_frames) = FreeFrames(pmm_initialize)

LEMMA PoolInit ==
    ASSUME Init
    PROVE  TypeOK /\ PoolKept
<1>1. Bytes \in Nat  BY PmmAssumption
<1>2. pmm_initialize \in Bitmaps(Bytes)  BY <1>1, InitialFree
<1> QED BY <1>2 DEF Init, TypeOK, PoolKept

(* What a step does to the two sets: a frame moves from one to the other,  *)
(* or there was none to move.                                              *)
LEMMA AllocMoves ==
    ASSUME TypeOK, Alloc
    PROVE  /\ TypeOK'
           /\ \/ \E f \in FreeFrames(pmm_frames) :
                    /\ FreeFrames(pmm_frames)' = FreeFrames(pmm_frames) \ {f}
                    /\ held' = held \cup {f}
              \/ FreeFrames(pmm_frames) = {} /\ UNCHANGED vars
<1>1. Bytes \in Nat /\ Bytes * W \in Nat  BY PmmAssumption, WAssumption
<1>2. pmm_frames \in Bitmaps(Bytes) /\ held \subseteq Bits  BY DEF TypeOK
<1>3. pmm_frames' = after_alloc(pmm_frames)
      /\ held' = held \cup ({alloc_frame(pmm_frames)} \ {NoFrame})
  BY DEF Alloc
<1>4. pmm_frames' \in Bitmaps(Bytes)  BY <1>1, <1>2, <1>3, AllocFrame
<1>5. CASE /\ alloc_frame(pmm_frames) \in FreeFrames(pmm_frames)
           /\ FreeFrames(after_alloc(pmm_frames))
                 = FreeFrames(pmm_frames) \ {alloc_frame(pmm_frames)}
  <2> DEFINE f == alloc_frame(pmm_frames)
  <2>1. f \in Bits /\ f # NoFrame
    <3>1. f \in Bits  BY <1>5 DEF FreeFrames
    <3>2. NoFrame \notin Bits  BY <1>1 DEF NoFrame, Bits
    <3> QED BY <3>1, <3>2
  <2>2. FreeFrames(pmm_frames)' = FreeFrames(pmm_frames) \ {f}
    BY <1>3, <1>5 DEF FreeFrames
  <2>3. held' = held \cup {f}  BY <1>3, <2>1
  <2> QED BY <1>2, <1>4, <1>5, <2>1, <2>2, <2>3 DEF TypeOK, Bits
<1>6. CASE /\ alloc_frame(pmm_frames) = NoFrame
           /\ FreeFrames(pmm_frames) = {}
           /\ after_alloc(pmm_frames) = pmm_frames
  BY <1>2, <1>3, <1>6 DEF TypeOK, vars, Bits
<1> QED BY <1>1, <1>2, <1>5, <1>6, AllocFrame

LEMMA FreeMoves ==
    ASSUME TypeOK, NEW f \in held, Free(f)
    PROVE  /\ TypeOK'
           /\ FreeFrames(pmm_frames)' = FreeFrames(pmm_frames) \cup {f}
           /\ held' = held \ {f}
<1>1. Bytes \in Nat /\ f \in Bits /\ pmm_frames \in Bitmaps(Bytes)
  BY PmmAssumption DEF TypeOK
<1>2. pmm_frames' = clear_bit(pmm_frames, f) /\ held' = held \ {f}
  BY DEF Free, free_frame
<1>3. /\ pmm_frames' \in Bitmaps(Bytes)
      /\ FreeFrames(clear_bit(pmm_frames, f)) = FreeFrames(pmm_frames) \cup {f}
  BY <1>1, <1>2, ClearBit
<1> QED BY <1>2, <1>3 DEF TypeOK, FreeFrames, Bits

LEMMA PoolStep ==
    ASSUME TypeOK, PoolKept, [Next]_vars
    PROVE  TypeOK' /\ PoolKept'
<1>1. CASE Alloc
  <2>1. TypeOK'  BY <1>1, AllocMoves
  <2>2. held' \cup FreeFrames(pmm_frames)' = held \cup FreeFrames(pmm_frames)
    <3>1. CASE \E f \in FreeFrames(pmm_frames) :
                  /\ FreeFrames(pmm_frames)' = FreeFrames(pmm_frames) \ {f}
                  /\ held' = held \cup {f}
      BY ONLY <3>1
    <3>2. CASE UNCHANGED vars  BY <3>2 DEF vars, FreeFrames
    <3> QED BY <1>1, <3>1, <3>2, AllocMoves
  <2> QED BY <2>1, <2>2 DEF PoolKept
<1>2. CASE \E f \in held : Free(f)
  <2>1. PICK f \in held : Free(f)  BY <1>2
  <2>2. /\ TypeOK'
        /\ FreeFrames(pmm_frames)' = FreeFrames(pmm_frames) \cup {f}
        /\ held' = held \ {f}
    BY <2>1, FreeMoves
  <2>3. held' \cup FreeFrames(pmm_frames)' = held \cup FreeFrames(pmm_frames)
    BY ONLY <2>2, f \in held
  <2> QED BY <2>2, <2>3 DEF PoolKept
<1>3. CASE UNCHANGED vars
  BY <1>3 DEF TypeOK, PoolKept, vars, FreeFrames
<1> QED BY <1>1, <1>2, <1>3 DEF Next

(* alloc_frame and free_frame keep the bitmap a bitmap of its size, and    *)
(* only frames that are on it are handed out, whatever the memory map is.  *)
THEOREM PmmTypeCorrect == Spec => [](TypeOK /\ PoolKept)
<1>1. Init => TypeOK /\ PoolKept  BY PoolInit
<1>2. (TypeOK /\ PoolKept) /\ [Next]_vars => (TypeOK /\ PoolKept)'
  BY PoolStep
<1> QED BY <1>1, <1>2, PTL DEF Spec

(* With free regions that start at a frame and end below the last 32-bit   *)
(* address, every frame that alloc_frame can hand out lies wholly in free  *)
(* memory and is not one of the kernel's.                                  *)
THEOREM FramesUsableAlways ==
    ASSUME MapAligned
    PROVE  Spec => []FramesUsable
<1>1. PoolKept => FramesUsable
  BY InitialFrames DEF PoolKept, FramesUsable
<1> QED BY <1>1, PmmTypeCorrect, PTL

(* With such a memory map the bitmap implements a set of frames: none is   *)
(* handed out twice, giving one back changes no other, and no usable frame *)
(* is lost, at the start or later.                                         *)
THEOREM FrameAllocatorImplemented ==
    ASSUME MapAligned
    PROVE  Spec => ImplementsFrameAllocator
<1>1. Init => FA!Init
  BY InitialFrames DEF Init, FA!Init
<1>2. TypeOK /\ [Next]_vars => [FA!Next]_(FA!vars)
  <2> SUFFICES ASSUME TypeOK, [Next]_vars PROVE [FA!Next]_(FA!vars)
    OBVIOUS
  <2>1. CASE Alloc
    BY <2>1, AllocMoves DEF FA!Next, FA!Alloc, FA!vars, vars, FreeFrames
  <2>2. CASE \E f \in held : Free(f)
    <3>1. PICK f \in held : Free(f)  BY <2>2
    <3> QED BY <3>1, FreeMoves DEF FA!Next, FA!Free
  <2>3. CASE UNCHANGED vars
    BY <2>3 DEF vars, FA!vars, FreeFrames
  <2> QED BY <2>1, <2>2, <2>3 DEF Next
<1> QED BY <1>1, <1>2, PmmTypeCorrect, PTL DEF Spec, FA!Spec, ImplementsFrameAllocator
=============================================================================
