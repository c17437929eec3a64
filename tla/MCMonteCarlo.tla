---------------------------- MODULE MCMonteCarlo ----------------------------
(***************************************************************************)
(* Eight points are two for each of three workers and none for the last;   *)
(* five are one for each of the four.                                      *)
(***************************************************************************)
EXTENDS MonteCarlo

MCArguments == {0, 3, 5, 8}
=============================================================================
