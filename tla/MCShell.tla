------------------------------- MODULE MCShell -------------------------------
(***************************************************************************)
(* Three lines out of those that reach every branch: pipes with fewer, as  *)
(* many and more words behind | than before, both redirections with and    *)
(* without a file, a program that does not exist, & with and without a     *)
(* command, and every form of cd.  A pipe holds one unit.  cwd_buff starts *)
(* empty, with one character in it, or too full for "osh>"; if it is empty *)
(* two longer paths fill it.                                               *)
(***************************************************************************)
EXTENDS Shell

MCPrograms == {"a", "b"}
MCHome == <<"home">>
MCLines ==
  { <<>>, <<"!!">>, <<"a">>, <<"b", "&">>, <<"&">>, <<"q">>, <<"exit">>,
    <<"cd", "x">>, <<"cd", ".">>, <<"cd", "..">>, <<"cd", "x/..">>, <<"cd", "/x">>,
    <<"cd">>,
    <<"a", "<", "f">>, <<"a", "<">>, <<"a", ">", "f">>, <<"a", ">", "<", "f">>,
    <<"a", "|", "b">>, <<"a", "|", "b", "x">>, <<"a", "x", "|", "b", "x">>,
    <<"a", "|", "b", "x", "b", "&">> }

MCSpelling == [w \in Words |-> CASE w = "x/.." -> <<"x", "/", "..">>
                                [] w = "/x" -> <<"/", "x">>
                                [] OTHER -> <<w>>]
MCLeftovers == {<<>>, <<"?">>, <<"????????">>}
MCSize == [part \in Text |-> CASE part = "osh" -> 3
                              [] part = "????????" -> 8
                              [] part = ".." -> 2
                              [] OTHER -> 1]
=============================================================================
