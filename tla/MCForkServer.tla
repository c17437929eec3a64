---------------------------- MODULE MCForkServer ----------------------------
(***************************************************************************)
(* Five clients, of which two may wait for accept(): several children end  *)
(* between two deliveries of the signal.                                   *)
(***************************************************************************)
EXTENDS ForkServer, TLC

CONSTANTS c1, c2, c3, c4, c5
MCClients == {c1, c2, c3, c4, c5}
ClientSymmetry == Permutations(MCClients)
=============================================================================
