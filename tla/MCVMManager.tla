---------------------------- MODULE MCVMManager ----------------------------
(***************************************************************************)
(* Four pages of two bytes, as many frames as pages, a TLB of three.  Seven *)
(* lines are enough to load a page other than 0 first, to leave a zero     *)
(* entry, to read page 0 through it, to fill the TLB and to push a page    *)
(* out of it.                                                              *)
(***************************************************************************)
EXTENDS VMManager

MCAddresses == {1, 2, 5, 7, -1}
MCFileLens == {0, 1, 7}
=============================================================================
