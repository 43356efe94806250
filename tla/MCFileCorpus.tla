------------------------------ MODULE MCFileCorpus ------------------------------
(* A project's CLAUDE.md, two design docs and two memory files.            *)
EXTENDS FileCorpus, TLC

CONSTANTS claude, claude2, doc1, doc2, mem1, mem2, k1, k2, k3, old, new

E(k, t) == [key |-> k, text |-> t]

MCKind ==
    [f \in File |-> IF f \in {claude, claude2} THEN "session"
                    ELSE IF f \in {mem1, mem2} THEN "memory" ELSE "design"]

MCTexts ==
    [k \in Kinds |->
        CASE k = "session" -> {{}, {E(k1, old)}, {E(k1, new), E(k2, old)}}
          [] k = "memory" -> {{E(k1, old)}, {E(k2, new)}}
          [] k = "design" -> {{E(k1, old)}, {E(k2, old), E(k3, old)}}]

(* Two CLAUDE.md that number their sessions apart                          *)
MCTextsApart ==
    [k \in Kinds |-> IF k = "session" THEN {{E(k1, old)}, {E(k2, old)}} ELSE {}]

(* No property of these runs is temporal, nothing tells the docs apart.   *)
Symmetry == Permutations({doc1, doc2}) \union Permutations({mem1, mem2})
=================================================================================
