------------------------------- MODULE CommitLog -------------------------------
(***************************************************************************)
(* What the commit corpus promises its readers, without saying how it is   *)
(* kept: the set of commits that have a row only grows, and the per-repo   *)
(* cursor (indexed_repos.last_indexed_oid) names a commit only when all of *)
(* that commit's visible history has a row.  The cursor is what every      *)
(* later pass trusts to skip work, so a cursor that promised too much      *)
(* would hide commits from the corpus for good.                            *)
(***************************************************************************)
EXTENDS CommitHistory

VARIABLES
    hidden,     \* commits below the boundary of a shallow clone
    known,      \* commits with a row in the corpus
    cursor      \* indexed_repos.last_indexed_oid

vars == <<hidden, known, cursor>>

Init ==
    /\ hidden \in SUBSET Commit
    /\ known = {}
    /\ cursor = None

Learn(c) ==
    /\ known' = known \union {c}
    /\ UNCHANGED <<hidden, cursor>>

Advance(h) ==
    /\ Reach(h, hidden) \subseteq known
    /\ cursor' = h
    /\ UNCHANGED <<hidden, known>>

Next == \E c \in Commit : Learn(c) \/ Advance(c)

Spec == Init /\ [][Next]_vars
================================================================================
