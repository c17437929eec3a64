----------------------------- MODULE MCUdpEcho -----------------------------
(***************************************************************************)
(* Two clients with three tries each, and a socket that holds two          *)
(* datagrams.                                                              *)
(***************************************************************************)
EXTENDS UdpEcho

CONSTANTS c1, c2
MCClients == {c1, c2}
=============================================================================
