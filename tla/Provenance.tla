------------------------------ MODULE Provenance ------------------------------
(***************************************************************************)
(* Who introduced a piece of code (diff_index.rs, `nibdex resolve-code`):  *)
(* the blocks of the change map that match a query, and the session edits  *)
(* that do, resolved to an author, feeders and the rest.  A match is a     *)
(* record [commit, at, path, rank]; a lower rank is a better match.        *)
(***************************************************************************)
EXTENDS Integers, Sequences, SequencesExt, FiniteSets, FiniteSetsExt

CONSTANTS
    Base,           \* the last component of each path
    InMemory,       \* paths with a component "memory"
    Ext,            \* the extension of each path, or its base if it has none
    CodeExt, ConfigExt, DesignExt,
    None            \* no author, and so no distance to one

LayerOf(path) ==
    IF Base[path] = "CLAUDE.md" THEN "session"
    ELSE IF Base[path] = "MEMORY.md" \/ path \in InMemory THEN "memory"
    ELSE IF Ext[path] \in CodeExt THEN "code"
    ELSE IF Ext[path] \in ConfigExt THEN "config"
    ELSE IF Ext[path] \in DesignExt THEN "design"
    ELSE "other"

IsFeeder(layer) == layer \in {"design", "session", "memory"}

(* The match that stands for its group: the first of the best rank.        *)
BestAt(ms, I) == Min({i \in I : \A j \in I : ms[i].rank <= ms[j].rank})

(* Mutant: the first to arrive.                                            *)
FirstAt(ms, I) == Min(I)

Chosen(ms, I) == BestAt(ms, I)

Commits(ms) == {ms[i].commit : i \in DOMAIN ms}

Representatives(ms) ==
    {ms[Chosen(ms, {i \in DOMAIN ms : ms[i].commit = c})] : c \in Commits(ms)}

(* Oldest first, the better rank first among the equally old               *)
Before(m, n) == m.at < n.at \/ (m.at = n.at /\ m.rank <= n.rank)

(* What `code.first()` may be: the groups come out of a hash map, so any   *)
(* that no other is strictly before.                                       *)
Authors(code) ==
    IF code = {} THEN {None} ELSE {m \in code : \A n \in code : Before(m, n)}

(* The difference of an earlier or later time to the author's              *)
Delta(at, author) == IF author = None THEN None ELSE at - author.at

Predates(d) == IF d = None THEN FALSE ELSE d < 0

(* resolve_from_matches, for one of the authors it may name                *)
Resolution(ms, author) ==
    LET reps == Representatives(ms)
        code == {m \in reps : LayerOf(m.path) = "code"}
        feeders == {[layer |-> LayerOf(m.path), commit |-> m, delta |-> Delta(m.at, author)] :
                        m \in {n \in reps : IsFeeder(LayerOf(n.path))}}
    IN [author     |-> author,
        otherCode  |-> code \ {author},
        feeders    |-> feeders,
        other      |-> {m \in reps : LayerOf(m.path) \in {"config", "other"}},
        codeCount  |-> Cardinality(code),
        predating  |-> Cardinality({f \in feeders : Predates(f.delta)})]

Resolutions(ms) ==
    LET code == {m \in Representatives(ms) : LayerOf(m.path) = "code"}
    IN {Resolution(ms, a) : a \in Authors(code)}

(* resolve_session_feeders: one edit per session and file                  *)
SessionFeeders(author, es) ==
    LET Group(i) == {j \in DOMAIN es : es[j].session = es[i].session /\ es[j].path = es[i].path}
    IN {[edit |-> es[Chosen(es, Group(i))], delta |-> Delta(es[Chosen(es, Group(i))].at, author)] :
           i \in DOMAIN es}

(* The rows a query gets: the oldest first, `cap` at most.  hunks is in    *)
(* the order of the table.                                                 *)
Capped(hunks, cap) ==
    LET sorted == SortSeq(hunks, LAMBDA m, n : m.at < n.at)
    IN SubSeq(sorted, 1, Min({cap, Len(hunks)}))

(* resolve_provenance                                                      *)
ResolveProvenance(hunks, edits, cap) ==
    {[diff     |-> r,
      sessions |-> SessionFeeders(r.author, edits),
      sessionsPredating |->
          Cardinality({f \in SessionFeeders(r.author, edits) : Predates(f.delta)})] :
        r \in Resolutions(Capped(hunks, cap))}

--------------------------------------------------------------------------------
(* The groups partition the commits that matched: each is named once, as   *)
(* author, other code, feeder or other, by its best match.                 *)
Partitions(ms, r) ==
    LET groups == <<IF r.author = None THEN {} ELSE {r.author}, r.otherCode,
                    {f.commit : f \in r.feeders}, r.other>>
        Named(i) == {m.commit : m \in groups[i]}
    IN /\ UNION {Named(i) : i \in 1 .. 4} = Commits(ms)
       /\ \A i, j \in 1 .. 4 : i # j => Named(i) \intersect Named(j) = {}
       /\ \A i \in 1 .. 4 : Cardinality(Named(i)) = Cardinality(groups[i])
       /\ r.author = None <=> r.codeCount = 0

NoTies(ms) == \A i, j \in DOMAIN ms : i # j => ms[i].rank # ms[j].rank

Reordered(ms) == {[i \in DOMAIN ms |-> ms[f[i]]] : f \in Bijection(DOMAIN ms, DOMAIN ms)}

(* "`matches` may arrive in any order": while no two matches rank the      *)
(* same, the answer does not depend on it.                                 *)
OrderFree(ms) == NoTies(ms) => \A ns \in Reordered(ms) : Resolutions(ns) = Resolutions(ms)
================================================================================
