------------------------------- MODULE MCPmm -------------------------------
(***************************************************************************)
(* Memory maps of a machine with 16 frames of 4 addresses, of which 14 are *)
(* on the bitmap's 7 bytes of 2 bits.  Frames 0 to 3 are the first 4 MB.   *)
(***************************************************************************)
EXTENDS PmmCalls

(* What a BIOS reports: low memory that ends inside a frame, a reserved    *)
(* hole, and memory above it in two regions.                               *)
MC_Regions == {
    [base |-> 0, length |-> 6, type |-> 1],
    [base |-> 6, length |-> 2, type |-> 2],
    [base |-> 8, length |-> 18, type |-> 1],
    [base |-> 26, length |-> 6, type |-> 3],
    [base |-> 32, length |-> 24, type |-> 1]}

(* The same with a free region that starts inside frame 6, and one behind   *)
(* the first 2^32 addresses (here: 64), 40 addresses further on.            *)
MC_OddRegions == {
    [base |-> 0, length |-> 22, type |-> 1],
    [base |-> 22, length |-> 4, type |-> 2],
    [base |-> 26, length |-> 14, type |-> 1],
    [base |-> 40, length |-> 16, type |-> 3],
    [base |-> 104, length |-> 8, type |-> 1]}
=============================================================================
