------------------------------- MODULE MCQueries -------------------------------
EXTENDS Queries

(* Five rows of three files in two repositories, of two sessions; the      *)
(* first has a body of twice what fits.                                    *)
Rows == 1 .. 5
PathAt == <<"a", "b", "a", "b", "c">>
RepoOf == <<"p", "p", "p", "q", "p">>
SessionOf == <<"s", "t", "s", "t", "u">>
TimeOf == <<2, 3, 3, 1, 2>>
SnippetOf == <<5, 2, 2, 1, 3>>
FullOf == <<8, 2, 4, 1, 3>>
WordsOf == <<{1, 2, 3}, {2, 3}, {1, 3, 4}, {3, 4}, {4}>>

NarrowOf == [two |-> {2, 3}, phrase |-> {1, 2, 4, 5}, unclosed |-> {}]
WideOf == [two |-> {1, 2, 3, 5}, phrase |-> {1, 2, 4, 5}, unclosed |-> {}]
SaidIn == [two |-> {2}, phrase |-> {4}, unclosed |-> {}]

ScopeOf == {Nothing, {"p"}}
================================================================================
