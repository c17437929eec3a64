------------------------------ MODULE MCVMFifo ------------------------------
(***************************************************************************)
(* Four pages of two bytes, one frame more than pages, a TLB of two.       *)
(* The addresses name every page; -1 and 9 only alias one through the cast *)
(* to uint8_t.                                                             *)
(***************************************************************************)
EXTENDS VMFifo

MCAddresses == {-1, 1, 2, 4, 5, 9}
MCFileLens == {0, 1, 6}
=============================================================================
