----------------------------- MODULE PmmLemmas -----------------------------
(***************************************************************************)
(* What the operators of Bitmap and Pmm return, for every size of byte and *)
(* bitmap and every memory map: set_bit and clear_bit change one bit,      *)
(* alloc_frame takes a clear one if there is one.                          *)
(***************************************************************************)
EXTENDS Pmm, DataLemmas

-----------------------------------------------------------------------------
(* The bits of a bitmap: set_bit and clear_bit change one bit, and         *)
(* find_first_clear_bit finds a clear one if there is one.                 *)
LEMMA BitOf ==
    ASSUME NEW bit \in Bits, Bytes \in Nat
    PROVE  /\ bit \div W \in 0..(Bytes-1)
           /\ bit % W \in Full
           /\ bit = (bit \div W) * W + (bit % W)
<1>1. /\ bit \div W \in Nat /\ bit % W \in 0..(W-1)
      /\ bit = (bit \div W) * W + (bit % W)
  BY WAssumption, DivMod DEF Bits
<1>2. ASSUME Bytes <= bit \div W PROVE FALSE
  <2>1. Bytes * W <= (bit \div W) * W
    <3>1. CASE Bytes = bit \div W
      <4>1. (bit \div W) * W \in Nat  BY <1>1, WAssumption
      <4> QED BY ONLY <3>1, <4>1
    <3>2. CASE Bytes < bit \div W
      <4>1. Bytes * W + W <= (bit \div W) * W  BY <3>2, <1>1, WAssumption, Grows
      <4> QED BY <4>1, <1>1, WAssumption
    <3> QED BY <3>1, <3>2, <1>2, <1>1
  <2> QED BY <2>1, <1>1, WAssumption DEF Bits
<1> QED BY <1>1, <1>2 DEF Full

LEMMA BitAt ==
    ASSUME NEW i \in 0..(Bytes-1), NEW j \in Full, Bytes \in Nat
    PROVE  /\ i * W + j \in Bits
           /\ (i * W + j) \div W = i
           /\ (i * W + j) % W = j
<1>1. (i * W + j) \div W = i /\ (i * W + j) % W = j
  BY WAssumption, DivUnique DEF Full
<1>2. i * W + W <= Bytes * W  BY WAssumption, Grows
<1>3. i * W \in Nat  BY WAssumption
<1> QED BY <1>1, <1>2, <1>3, WAssumption DEF Full, Bits

LEMMA SetBit ==
    ASSUME NEW b \in Bitmaps(Bytes), NEW bit \in Bits, Bytes \in Nat
    PROVE  /\ set_bit(b, bit) \in Bitmaps(Bytes)
           /\ FreeFrames(set_bit(b, bit)) = FreeFrames(b) \ {bit}
<1>1. bit \div W \in 0..(Bytes-1) /\ bit % W \in Full  BY BitOf
<1>2. set_bit(b, bit) \in Bitmaps(Bytes)  BY <1>1 DEF set_bit, Bitmaps
<1>3. ASSUME NEW x \in Bits
      PROVE  test_bit(set_bit(b, bit), x) <=> test_bit(b, x) \/ x = bit
  <2>1. /\ x \div W \in 0..(Bytes-1) /\ x % W \in Full
        /\ x = (x \div W) * W + (x % W)
        /\ bit = (bit \div W) * W + (bit % W)
    BY BitOf
  <2> DEFINE i == bit \div W
             j == bit % W
             k == x \div W
             l == x % W
  <2>2. x = bit <=> k = i /\ l = j
    <3>1. x = k * W + l /\ bit = i * W + j  BY <2>1
    <3> HIDE DEF i, j, k, l
    <3>2. k = i /\ l = j => x = bit  BY ONLY <3>1
    <3>3. x = bit => k = i /\ l = j  BY DEF i, j, k, l
    <3> QED BY ONLY <3>2, <3>3
  <2>3. /\ i \in 0..(Bytes-1) /\ k \in 0..(Bytes-1)
        /\ set_bit(b, bit) = [b EXCEPT ![i] = @ \cup {j}]
        /\ test_bit(set_bit(b, bit), x) <=> l \in set_bit(b, bit)[k]
        /\ test_bit(b, x) <=> l \in b[k]
    BY <1>1, <2>1 DEF set_bit, test_bit
  <2>4. DOMAIN b = 0..(Bytes-1)  BY DEF Bitmaps
  <2> HIDE DEF i, j, k, l
  <2> QED BY ONLY <2>2, <2>3, <2>4
<1> QED BY <1>2, <1>3 DEF FreeFrames

LEMMA ClearBit ==
    ASSUME NEW b \in Bitmaps(Bytes), NEW bit \in Bits, Bytes \in Nat
    PROVE  /\ clear_bit(b, bit) \in Bitmaps(Bytes)
           /\ FreeFrames(clear_bit(b, bit)) = FreeFrames(b) \cup {bit}
<1>1. bit \div W \in 0..(Bytes-1) /\ bit % W \in Full  BY BitOf
<1>2. clear_bit(b, bit) \in Bitmaps(Bytes)  BY <1>1 DEF clear_bit, Bitmaps
<1>3. ASSUME NEW x \in Bits
      PROVE  test_bit(clear_bit(b, bit), x) <=> test_bit(b, x) /\ x # bit
  <2>1. /\ x \div W \in 0..(Bytes-1) /\ x % W \in Full
        /\ x = (x \div W) * W + (x % W)
        /\ bit = (bit \div W) * W + (bit % W)
    BY BitOf
  <2> DEFINE i == bit \div W
             j == bit % W
             k == x \div W
             l == x % W
  <2>2. x = bit <=> k = i /\ l = j
    <3>1. x = k * W + l /\ bit = i * W + j  BY <2>1
    <3> HIDE DEF i, j, k, l
    <3>2. k = i /\ l = j => x = bit  BY ONLY <3>1
    <3>3. x = bit => k = i /\ l = j  BY DEF i, j, k, l
    <3> QED BY ONLY <3>2, <3>3
  <2>3. /\ i \in 0..(Bytes-1) /\ k \in 0..(Bytes-1)
        /\ clear_bit(b, bit) = [b EXCEPT ![i] = @ \ {j}]
        /\ test_bit(clear_bit(b, bit), x) <=> l \in clear_bit(b, bit)[k]
        /\ test_bit(b, x) <=> l \in b[k]
    BY <1>1, <2>1 DEF clear_bit, test_bit
  <2>4. DOMAIN b = 0..(Bytes-1)  BY DEF Bitmaps
  <2> HIDE DEF i, j, k, l
  <2> QED BY ONLY <2>2, <2>3, <2>4
<1> QED BY <1>2, <1>3 DEF FreeFrames

LEMMA FindFirstClear ==
    ASSUME NEW b \in Bitmaps(Bytes), any_bit_clear(b), Bytes \in Nat
    PROVE  find_first_clear_bit(b) \in FreeFrames(b)
<1> DEFINE Open == {k \in DOMAIN b : b[k] # Full}
           i == Min(Open)
           Zeros == Full \ b[i]
           j == Min(Zeros)
<1>1. DOMAIN b = 0..(Bytes-1) /\ Open # {} /\ Open \subseteq Nat
  BY DEF Bitmaps, any_bit_clear
<1>2. i \in Open
  <2>1. PICK x \in Open : \A y \in Open : x <= y  BY <1>1, LeastExists
  <2> HIDE DEF Open
  <2> QED BY ONLY <2>1, Zenon DEF Min
<1>3. i \in 0..(Bytes-1) /\ b[i] # Full /\ b[i] \subseteq Full
  BY <1>1, <1>2 DEF Bitmaps
<1>4. Zeros # {} /\ Zeros \subseteq Nat
  <2>1. Full \subseteq Nat  BY WAssumption DEF Full
  <2> HIDE DEF i
  <2> QED BY <1>3, <2>1
<1>5. j \in Zeros
  <2>1. PICK x \in Zeros : \A y \in Zeros : x <= y  BY <1>4, LeastExists
  <2> HIDE DEF Zeros
  <2> QED BY ONLY <2>1, Zenon DEF Min
<1>6. find_first_clear_bit(b) = i * W + j  BY DEF find_first_clear_bit
<1>7. j \in Full /\ j \notin b[i]  BY <1>5
<1> HIDE DEF i, j
<1>8. /\ i * W + j \in Bits
      /\ (i * W + j) \div W = i
      /\ (i * W + j) % W = j
  BY <1>3, <1>7, BitAt
<1> QED BY <1>6, <1>7, <1>8 DEF FreeFrames, test_bit

(* alloc_frame either takes a clear bit, or there is none. *)
LEMMA AllocFrame ==
    ASSUME NEW b \in Bitmaps(Bytes), Bytes \in Nat
    PROVE  /\ after_alloc(b) \in Bitmaps(Bytes)
           /\ \/ /\ alloc_frame(b) \in FreeFrames(b)
                 /\ FreeFrames(after_alloc(b)) = FreeFrames(b) \ {alloc_frame(b)}
              \/ /\ alloc_frame(b) = NoFrame
                 /\ FreeFrames(b) = {}
                 /\ after_alloc(b) = b
<1>1. CASE any_bit_clear(b)
  <2>1. find_first_clear_bit(b) \in FreeFrames(b)  BY <1>1, FindFirstClear
  <2>2. find_first_clear_bit(b) \in Bits  BY <2>1 DEF FreeFrames
  <2>3. /\ set_bit(b, find_first_clear_bit(b)) \in Bitmaps(Bytes)
        /\ FreeFrames(set_bit(b, find_first_clear_bit(b)))
              = FreeFrames(b) \ {find_first_clear_bit(b)}
    BY <2>2, SetBit
  <2> QED BY <1>1, <2>1, <2>3 DEF alloc_frame, after_alloc
<1>2. CASE ~any_bit_clear(b)
  <2>1. \A bit \in Bits : test_bit(b, bit)
    <3> TAKE bit \in Bits
    <3>1. bit \div W \in 0..(Bytes-1) /\ bit % W \in Full  BY BitOf
    <3>2. b[bit \div W] = Full  BY <1>2, <3>1 DEF any_bit_clear, Bitmaps
    <3> QED BY <3>1, <3>2 DEF test_bit
  <2> QED BY <1>2, <2>1 DEF FreeFrames, alloc_frame, after_alloc
<1> QED BY <1>1, <1>2

-----------------------------------------------------------------------------
(* What pmm_initialize leaves clear: the frames of the free regions.       *)
LEMMA InitialFree ==
    ASSUME Bytes \in Nat
    PROVE  /\ pmm_initialize \in Bitmaps(Bytes)
           /\ FreeFrames(pmm_initialize) = (ReleasedBits \ KernelFrames) \cap Bits
<1> DEFINE clear == ReleasedBits \ KernelFrames
           b == [i \in 0..(Bytes-1) |-> {j \in Full : i * W + j \notin clear}]
<1>1. pmm_initialize = b  BY DEF pmm_initialize
<1>2. b \in Bitmaps(Bytes)  BY DEF Bitmaps
<1>3. ASSUME NEW bit \in Bits
      PROVE  test_bit(b, bit) <=> bit \notin clear
  <2>1. /\ bit \div W \in 0..(Bytes-1)
        /\ bit % W \in Full
        /\ bit = (bit \div W) * W + (bit % W)
    BY BitOf
  <2> DEFINE i == bit \div W
             j == bit % W
  <2>2. test_bit(b, bit) <=> j \in b[i]  BY DEF test_bit
  <2>3. i \in 0..(Bytes-1) /\ j \in Full /\ bit = i * W + j  BY <2>1
  <2> HIDE DEF i, j, clear
  <2>4. b[i] = {k \in Full : i * W + k \notin clear}  BY <2>3
  <2> QED BY ONLY <2>2, <2>3, <2>4
<1> HIDE DEF b
<1> QED BY <1>1, <1>2, <1>3 DEF FreeFrames
=============================================================================
