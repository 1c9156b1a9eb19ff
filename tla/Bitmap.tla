------------------------------- MODULE Bitmap -------------------------------
(***************************************************************************)
(* src/src/c/bitmap.c.  A bitmap is a sequence of bytes, counted from 0; a *)
(* byte is the set of the positions at which it has a 1.                   *)
(***************************************************************************)
EXTENDS Integers, FiniteSetsExt

CONSTANT W    \* bits in a byte: 8 in the code

ASSUME WAssumption == W \in Nat /\ W > 0

Full == 0..(W-1)
Bitmaps(bytes) == [0..(bytes-1) -> SUBSET Full]

test_bit(bitmap, bit) == bit % W \in bitmap[bit \div W]

(* Mutants, for the checks of the properties: the shift forgets "% 8", and *)
(* a whole byte is cleared.                                                *)
set_bit_unreduced(bitmap, bit) == [bitmap EXCEPT ![bit \div W] = @ \cup {bit}]
clear_bit_byte(bitmap, bit) == [bitmap EXCEPT ![bit \div W] = {}]

(* A write to a bit behind the last byte changes some other memory: on the *)
(* bitmap it has no effect.                                                *)
set_bit(bitmap, bit) == [bitmap EXCEPT ![bit \div W] = @ \cup {bit % W}]
clear_bit(bitmap, bit) == [bitmap EXCEPT ![bit \div W] = @ \ {bit % W}]

any_bit_clear(bitmap) == \E i \in DOMAIN bitmap : bitmap[i] # Full

(* The first byte that is not full, and the first 0 in it; 0 if there is   *)
(* none, which is also the number of the first bit.                        *)
find_first_clear_bit(bitmap) ==
    IF any_bit_clear(bitmap)
    THEN LET i == Min({j \in DOMAIN bitmap : bitmap[j] # Full})
         IN  i * W + Min(Full \ bitmap[i])
    ELSE 0
=============================================================================
