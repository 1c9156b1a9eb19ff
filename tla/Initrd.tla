------------------------------- MODULE Initrd -------------------------------
(***************************************************************************)
(* The walk over the initial RAM disk (src/src/c/initrd.c), a tar archive: *)
(* for each file a block with its header, then the blocks of its contents, *)
(* and empty blocks at the end.  Memory is a sequence of such blocks.      *)
(***************************************************************************)
EXTENDS Integers, Sequences, SequencesExt

CONSTANTS
    BLOCK,       \* the bytes of a block, 512 in the code
    DIGITS,      \* the digits of a size, 11 in the code
    U32,         \* a u32int counts modulo this
    Archives     \* the archives: the sizes of their files, in order

(* What is left of a size without its last 0, 1, 2, ... octal digits.      *)
Rests(size) ==
    LET rest[j \in 0..DIGITS] == IF j = 0 THEN size ELSE rest[j-1] \div 8
    IN  rest

(* What tar writes: the size in octal, and padding to a whole block.  The  *)
(* bytes of an empty block are 0, not the digit '0', which is 48.          *)
Octal(size) == [j \in 1..DIGITS |-> Rests(size)[DIGITS - j] % 8]
Header(size) == [name |-> "file", size |-> Octal(size)]
Empty == [name |-> "nul", size |-> [j \in 1..DIGITS |-> -48]]
Contents(size) ==
    [i \in 1..((size + BLOCK - 1) \div BLOCK) |-> [name |-> "data", size |-> Octal(0)]]
Archive(sizes) ==
    FoldLeft(LAMBDA blocks, size : Append(blocks, Header(size)) \o Contents(size),
             <<>>, sizes) \o <<Empty, Empty>>

(* A size fits its digits, and an archive that GRUB has loaded fits the    *)
(* memory.  (Addresses are counted from where it begins.)                  *)
ASSUME InitrdAssumption ==
    /\ {BLOCK, DIGITS} \subseteq Nat \ {0} /\ U32 \in Nat \ {0, 1}
    /\ Archives \subseteq Seq(Nat)
    /\ \A sizes \in Archives :
          /\ \A i \in DOMAIN sizes : Rests(sizes[i])[DIGITS] = 0
          /\ Len(Archive(sizes)) * BLOCK < U32

(* The digits' sum, from the last one on.                                  *)
get_size(in) ==
    FoldLeft(LAMBDA sum, digit : [size  |-> (sum.size + digit * sum.count) % U32,
                                  count |-> (sum.count * 8) % U32],
             [size |-> 0, count |-> 1], Reverse(in)).size

(* Mutant: a block is added for the rest even when there is none.          *)
next_header_padded(memory, header_addr) ==
    LET size == get_size(memory[(header_addr \div BLOCK) + 1].size)
    IN  (header_addr + ((size \div BLOCK) + 1) * BLOCK + BLOCK) % U32

next_header(memory, header_addr) ==
    LET size == get_size(memory[(header_addr \div BLOCK) + 1].size)
    IN  (header_addr + ((size \div BLOCK) + 1) * BLOCK
             + (IF size % BLOCK # 0 THEN BLOCK ELSE 0)) % U32

(* The loop's rounds, up to the first that ends at an empty header.        *)
headers(memory) ==
    LET header[count \in 0..Len(memory)] ==
            IF count = 0 THEN 0 ELSE next_header(memory, header[count - 1])
    IN  header

count_headers(memory) ==
    LET header == headers(memory)
        ended(count) == memory[(header[count] \div BLOCK) + 1].name = "nul"
    IN  CHOOSE count \in 1..Len(memory) :
            ended(count) /\ \A earlier \in 1..(count - 1) : ~ended(earlier)

(* The initial RAM disk has as many headers as files, whatever their sizes *)
(* are: the walk stops at each of them and at nothing else.  An archive    *)
(* without files is left out: do-while (initrd.c:104) takes its first      *)
(* empty block for a header, with the size that eleven digits of -48 make, *)
(* and so leaves the archive.                                              *)
HeadersCounted == \A sizes \in Archives :
    sizes # <<>> => count_headers(Archive(sizes)) = Len(sizes)
=============================================================================
