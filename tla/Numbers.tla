------------------------------ MODULE Numbers -------------------------------
(***************************************************************************)
(* Numbers and their texts: str_to_u32int and hex_str_to_u32int of         *)
(* src/src/c/string.c, put_dec and put_hex of src/src/c/vga.c.  A text is  *)
(* a sequence of characters, without the 0 at its end.                     *)
(***************************************************************************)
EXTENDS Integers, Sequences, SequencesExt

CONSTANT U32      \* a u32int counts modulo this

ASSUME NumbersAssumption == U32 \in Nat /\ U32 > 1

Digits == <<"0", "1", "2", "3", "4", "5", "6", "7", "8", "9",
            "A", "B", "C", "D", "E", "F">>
SmallDigits == <<"a", "b", "c", "d", "e", "f">>
Space == " "

(* The character's code less that of "0", for those that are typed here.   *)
minus_0(c) ==
    CASE c \in {Digits[i] : i \in 1..10}  -> CHOOSE d \in 0..9 : Digits[d + 1] = c
      [] c \in {Digits[i] : i \in 11..16} -> 17 + CHOOSE d \in 0..5 : Digits[d + 11] = c
      [] c \in {SmallDigits[i] : i \in 1..6} ->
            49 + CHOOSE d \in 0..5 : SmallDigits[d + 1] = c
      [] c = "x" -> 72
      [] c = "=" -> 13
      [] c = Space -> -16
      [] c = "tab" -> -39

hexit(c) ==
    CASE c \in {Digits[i] : i \in 11..16} -> 10 + CHOOSE d \in 0..5 : Digits[d + 11] = c
      [] c \in {SmallDigits[i] : i \in 1..6} ->
            10 + CHOOSE d \in 0..5 : SmallDigits[d + 1] = c
      [] OTHER -> minus_0(c)

str_to_u32int(str) ==
    FoldLeft(LAMBDA result, c : (result * 10 + minus_0(c)) % U32, 0, str)

(* Mutant: the prefix "0x" is not skipped.                                 *)
hex_str_to_u32int_prefixed(str) ==
    FoldLeft(LAMBDA result, c : (result * 16 + hexit(c)) % U32, 0, str)

hex_str_to_u32int(str) ==
    LET first == IF Len(str) > 2 /\ str[1] = "0" /\ str[2] = "x" THEN 3 ELSE 1
    IN  FoldLeft(LAMBDA result, c : (result * 16 + hexit(c)) % U32, 0,
                 SubSeq(str, first, Len(str)))

-----------------------------------------------------------------------------
(* The digits of a number, the last one first, as the loops produce them.  *)
low_digits(n, base) ==
    LET low[acc \in 0..n] ==
            IF acc > 0 THEN <<Digits[(acc % base) + 1]>> \o low[acc \div base]
            ELSE <<>>
    IN  low[n]

(* Mutant: the digits are not put in order.                                *)
dec_text_backwards(n) == IF n = 0 THEN <<"0">> ELSE low_digits(n, 10)

(* What put_dec puts.  Its accumulator is signed, and the loop does not    *)
(* run for a negative one.                                                 *)
dec_text(n) ==
    CASE n = 0             -> <<"0">>
      [] 0 < n /\ 2 * n < U32 -> Reverse(low_digits(n, 10))
      [] OTHER             -> <<>>

hex_text(n) ==
    <<"0", "x">> \o (IF n = 0 THEN <<"0">> ELSE Reverse(low_digits(n, 16)))
=============================================================================
