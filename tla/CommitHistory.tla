----------------------------- MODULE CommitHistory -----------------------------
(* The commit graph of one repository, as a revision walk sees it.         *)
CONSTANTS
    Commit,     \* every commit the repository may ever hold
    Parents,    \* [Commit -> SUBSET Commit]
    None        \* no commit: an unborn HEAD, a repository with no cursor row

ParentClosed(S) == \A c \in S : Parents[c] \subseteq S

(* A commit and everything reachable from it through parent links: the     *)
(* least parent-closed set that holds it.                                  *)
Ancestry ==
    [c \in Commit |->
        {a \in Commit :
            \A S \in SUBSET Commit : c \in S /\ ParentClosed(S) => a \in S}]

(* What a walk pushed at c can reach when the commits in cut are missing   *)
(* from a shallow clone; nothing from an unborn HEAD.                      *)
Reach(c, cut) == IF c = None THEN {} ELSE Ancestry[c] \ cut
================================================================================
