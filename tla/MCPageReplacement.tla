-------------------------- MODULE MCPageReplacement --------------------------
(***************************************************************************)
(* Every string of six references to four pages, with up to three frames.  *)
(***************************************************************************)
EXTENDS PageReplacement

MCRefPages == {0, 1, 2, 3}
MCRefCounts == {0, 6}
MCArguments == {0, 1, 2, 3, 8}
MCFirstSlots == {-5, 0, 1, 2, 7}
=============================================================================
