----------------------------- MODULE MCCommitIndex -----------------------------
(* A root, two branches on it and their merge: HEAD can move forward,      *)
(* switch between branches, be reset and be rewritten, and one walk covers *)
(* all of it.                                                              *)
EXTENDS CommitIndex, TLC

CONSTANTS a, b, c, m, watch, user

MCParents == (a :> {}) @@ (b :> {a}) @@ (c :> {a}) @@ (m :> {b, c})
MCCommittedAt == (a :> 1) @@ (b :> 2) @@ (c :> 2) @@ (m :> 3)
MCShallowCuts == {{}, {a}}
================================================================================
