---------------------------- MODULE MCStatistics ----------------------------
(***************************************************************************)
(* No number, one, and every list of two to four numbers out of 1, 2 and 4 *)
(* for one scan at a time, beside the sort.                                *)
(***************************************************************************)
EXTENDS Statistics

MCLists == {<<>>, <<5>>} \union UNION {[1 .. n -> {1, 2, 4}] : n \in 2 .. 4}
MCThreadSets == {{"myMin", "myMax"}, {"myAvg"}, {"myStdDev"}}
=============================================================================
