-------------------------------- MODULE Domains --------------------------------
(***************************************************************************)
(* Which domain's database may hold what: .nibdex-domains.toml             *)
(* (domains.rs).  A path is the sequence of its components below the       *)
(* workspace root.  An entry of the file gives a path to a domain, or, in  *)
(* [unassigned], takes it away from all of them.                           *)
(***************************************************************************)
EXTENDS Naturals, SequencesExt

CONSTANTS Unassigned,      \* the owner of an [unassigned] entry
          NoPath,          \* an entry or a path that is refused
          Up, Dot, Empty   \* the segments "..", "." and the empty one

ASSUME DomainsAssumption == Cardinality({Up, Dot, Empty}) = 3

--------------------------------------------------------------------------------
(* Paths                                                                   *)

Starts(rel, k) == SubSeq(rel, 1, k)

(* Where each `..` of an absolute path leaves it, one segment at a time    *)
NormalizeLexical(segments) ==
    LET step(path, s) ==
            IF path = NoPath \/ s = Dot THEN path
            ELSE IF s # Up THEN Append(path, s)
            ELSE IF path = <<>> THEN NoPath
            ELSE Front(path)
    IN FoldLeft(step, <<>>, segments)

(* An entry as it is written, [absolute, segments], to components          *)
EntryComponents(entry) ==
    LET parts == SelectSeq(entry.segments, LAMBDA s : s \notin {Empty, Dot})
    IN IF entry.absolute \/ parts = <<>> \/ Contains(parts, Up) THEN NoPath ELSE parts

--------------------------------------------------------------------------------
(* What the file may say.  raw.domains[d] is what [domains] lists for d,   *)
(* raw.memory the names in [memory], all with the one claim understood.    *)

Listed(raw) == UNION {raw.domains[d] : d \in DOMAIN raw.domains}

(* DomainConfig::parse_validated                                           *)
Valid(raw) ==
    /\ raw.memory \subseteq DOMAIN raw.domains
    /\ Cardinality(raw.memory) <= 1
    /\ \A e \in Listed(raw) \union raw.acknowledged \union raw.undecided :
           EntryComponents(e) # NoPath
    /\ Listed(raw) \intersect (raw.acknowledged \union raw.undecided) = {}
    /\ raw.acknowledged \intersect raw.undecided = {}

(* DomainConfig::entries                                                   *)
EntriesOf(names, owner) == {[path |-> EntryComponents(e), owner |-> owner] : e \in names}

Entries(raw) ==
    (UNION {EntriesOf(raw.domains[d], d) : d \in DOMAIN raw.domains})
      \union EntriesOf(raw.acknowledged \union raw.undecided, Unassigned)

ClaimsMemory(raw, d) == d \in raw.memory

--------------------------------------------------------------------------------
(* Which absolute paths are nobody's (is_neutral_path): a file directly in *)
(* the workspace, the workspace's own directory under ~/.claude/projects,  *)
(* and under a temp root its scratchpad and loose files.                   *)
IsNeutral(path, workspace, slugDir, temps, regular) ==
    IF IsPrefix(workspace, path)
    THEN Len(path) = Len(workspace) + 1 /\ path \in regular
    ELSE \/ IsPrefix(slugDir, path)
         \/ /\ \E t \in temps : IsPrefix(t, path)
            /\ Contains(path, Last(slugDir)) \/ (Front(path) \in temps /\ path \in regular)

--------------------------------------------------------------------------------
(* Whom a path belongs to                                                  *)

HasEntryBelow(entries, prefix) == \E e \in entries : IsStrictPrefix(prefix, e.path)

(* DomainConfig::includes.  `dirs` are the directories on disk, `repos`    *)
(* those with a .git: the deepest entries that match decide, an entry with *)
(* others below it admits no child directory that is not listed, and a     *)
(* repository nobody has listed belongs to nobody.                         *)
Includes(entries, dirs, repos, d, rel) ==
    LET matching == {e \in entries : IsPrefix(e.path, rel)}
        deepest == {e \in matching : \A g \in matching : Len(g.path) <= Len(e.path)}
        best == Len((CHOOSE e \in deepest : TRUE).path)
    IN
    /\ rel # <<>> /\ matching # {}
    /\ \E e \in deepest : e.owner = d
    /\ \A e \in deepest : e.owner # Unassigned
    /\ Len(rel) > best /\ HasEntryBelow(entries, Starts(rel, best)) =>
           Len(rel) = best + 1 /\ rel \notin dirs
    /\ \A k \in best + 1 .. Len(rel) : Starts(rel, k) \notin repos
================================================================================
