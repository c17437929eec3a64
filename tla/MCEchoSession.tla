--------------------------- MODULE MCEchoSession ---------------------------
(***************************************************************************)
(* Up to three lines of one to four bytes, with a buffer of six: fgets()   *)
(* reads four bytes and recv() five.  A line of five is read in two parts, *)
(* the second of which ends the session.                                   *)
(***************************************************************************)
EXTENDS EchoSession

MCInputs == SeqOf({1, 2, 4, 5}, 3)
=============================================================================
