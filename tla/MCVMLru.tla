------------------------------- MODULE MCVMLru -------------------------------
(***************************************************************************)
(* Five pages of two bytes, three frames, a TLB of two: eight lines fill   *)
(* the frames, replace pages several times and return to evicted ones.     *)
(***************************************************************************)
EXTENDS VMLru

MCAddresses == {0, 3, 4, 6, 9}
MCFileLens == {0, 1, 8}
=============================================================================
