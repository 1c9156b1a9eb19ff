------------------------------- MODULE MCBoot -------------------------------
(***************************************************************************)
(* The boot and the console with small buffers, few keys, and one device   *)
(* on the second controller that nobody handles; archives of up to two     *)
(* files with sizes around a block of two bytes, and of two octal digits,  *)
(* which hold more than a word of five bits.                               *)
(***************************************************************************)
EXTENDS Boot, Initrd

MC_Archives == UNION {[1..n -> {0, 1, 2, 3, 9}] : n \in 0..2}
=============================================================================
