----------------------------- MODULE SessionEdges -----------------------------
(***************************************************************************)
(* The session corpus: index_sessions (session_index.rs), run by `nibdex   *)
(* index` and `nibdex index-sessions`.  It reads the transcripts that      *)
(* Claude Code appends to and some day deletes, keeps an edge for each     *)
(* Edit and Write they hold, with the prose that goes with it, binds it to *)
(* the commit that captured it, and lets neither edge nor prose into the   *)
(* database of another domain or workspace.                                *)
(***************************************************************************)
EXTENDS Naturals, Sequences, FiniteSets, FiniteSetsExt

CONSTANTS
    Transcript,     \* *.jsonl files, numbers in the order of their paths
    Session, Path,
    Script,         \* what the transcripts may come to hold
    Workspace,      \* the paths inside the workspace
    Visible,        \* those that belong to the domain, DomainRouter::visible
    Neutral,        \* paths that are nobody's, is_neutral_path
    Withheld, None,
    Disturb,        \* which of the disturbances below may happen
    Touched,        \* what a commit may touch
    MaxCommits      \* bound on commits

(* "growing": a transcript is read while a message is being written        *)
(* "merge":   a side branch is merged, older commits become part of HEAD   *)
Disturbance == {"growing", "merge"}

Commit == 1 .. MaxCommits

(* A line of an assistant: its message, where it was, whether it has text  *)
(* (before its calls), what it edits in order, what else it has touched,   *)
(* how many searches it made.                                              *)
Line == [session : Session, group : Nat, cwd : Path, text : BOOLEAN,
         edits : Seq(Path), reads : SUBSET Path, searches : Nat]

ASSUME SessionAssumption ==
    /\ Transcript \subseteq Nat /\ Script \subseteq [Transcript -> Seq(Line)]
    /\ Visible \subseteq Workspace /\ Workspace \subseteq Path /\ Neutral \subseteq Path
    /\ Withheld \notin Nat /\ None \notin Nat
    /\ Disturb \subseteq Disturbance
    /\ Touched \subseteq SUBSET Path /\ MaxCommits \in Nat

VARIABLES
    script,         \* what each transcript is going to hold
    log,            \* the times of the lines it holds so far
    kept,           \* transcripts not deleted yet
    made,           \* commits: the paths each one touched
    head,           \* those HEAD reaches
    indexed,        \* those with a commit_entries row
    partitioned,    \* whether this is the database of one domain
    wide,           \* whether passes go over it that name their slugs
    db,             \* session_edges, their search rows, session_activity
    job,            \* the pass under way
    settled         \* history: transcripts whose edges are as a pass left
                    \* them, with nothing to add since

env == <<script, partitioned, wide>>
git == <<made, head, indexed>>
vars == <<env, log, kept, git, db, job, settled>>

Now == Len(made) + 1

Idle == [pc |-> "idle", rebuild |-> FALSE, scoped |-> FALSE, todo |-> {}, roots |-> FALSE,
         rebuilt |-> {}, open |-> FALSE, view |-> {}, hits |-> {},
         tally |-> [s \in Session |-> 0], read |-> {}, behind |-> FALSE]

Init ==
    /\ script \in Script /\ partitioned \in BOOLEAN /\ wide \in BOOLEAN
    /\ log = [t \in Transcript |-> <<>>] /\ kept = Transcript
    /\ made = <<>> /\ head = {} /\ indexed = {}
    /\ db = [edges |-> {}, hits |-> {}, tally |-> [s \in Session |-> 0]]
    /\ job = Idle
    /\ settled = {}

--------------------------------------------------------------------------------
(* Claude Code and git                                                     *)

SameGroup(l, m) == l.session = m.session /\ l.group = m.group

(* The next message, or the next line of it.                               *)
Say(t) ==
    LET n == Len(log[t]) IN
    /\ t \in kept /\ n < Len(script[t])
    /\ \E k \in n + 1 .. Len(script[t]) :
        /\ \A i \in n + 1 .. k : SameGroup(script[t][i], script[t][n + 1])
        /\ \/ "growing" \in Disturb
           \/ k = Len(script[t])
           \/ k < Len(script[t]) /\ ~SameGroup(script[t][k], script[t][k + 1])
        /\ log' = [log EXCEPT ![t] = [i \in 1 .. k |-> IF i <= n THEN log[t][i] ELSE Now]]
    /\ settled' = settled \ {t}
    /\ job' = [job EXCEPT !.read = @ \ {t}]
    /\ UNCHANGED <<env, kept, git, db>>

(* Retention                                                               *)
Delete(t) ==
    /\ t \in kept
    /\ kept' = kept \ {t} /\ settled' = settled \ {t}
    /\ UNCHANGED <<env, log, git, db, job>>

(* A commit, on HEAD or on a side branch                                   *)
MakeCommit(paths) ==
    /\ Len(made) < MaxCommits
    /\ made' = Append(made, paths)
    /\ head' \in {head \union {Now}} \union IF "merge" \in Disturb THEN {head} ELSE {}
    /\ UNCHANGED <<env, log, kept, indexed, db, job, settled>>

Merge(c) ==
    /\ "merge" \in Disturb /\ c \in DOMAIN made \ head
    /\ head' = head \union {c}
    /\ UNCHANGED <<env, log, kept, made, indexed, db, job, settled>>

(* A commit is dropped or amended.                                         *)
Rewrite(c) ==
    /\ c \in head
    /\ head' = head \ {c}
    /\ UNCHANGED <<env, log, kept, made, indexed, db, job, settled>>

(* The commit corpus catches up (CommitIndex); ON DELETE SET NULL.  It     *)
(* cannot while a pass holds SQLite's write lock, and a pass may have read *)
(* that no repository has commits.                                         *)
IndexCommits ==
    /\ indexed # head /\ ~job.open
    /\ indexed' = head
    /\ db' = [db EXCEPT !.edges =
                {IF e.commit \in head THEN e ELSE [e EXCEPT !.commit = None] : e \in @}]
    /\ settled' = {} /\ job' = [job EXCEPT !.behind = @ \/ (job.pc = "read" /\ ~job.roots)]
    /\ UNCHANGED <<env, log, kept, made, head>>

--------------------------------------------------------------------------------
(* One transcript                                                          *)

Lines(t) == SubSeq(script[t], 1, Len(log[t]))

Taints(p) == p \notin Visible /\ p \notin Neutral

TouchedBy(l) == l.reads \union {l.edits[k] : k \in DOMAIN l.edits}

(* Mutant: the fallback text goes from one session to the next.            *)
ProseWithin(lines, i) ==
    LET texts == {j \in 1 .. i : lines[j].text /\ \A k \in j .. i : lines[k].cwd = lines[i].cwd}
    IN IF texts = {} THEN 0 ELSE Max(texts)

(* The line whose text is the rationale of the edits of line i: its own, or*)
(* the last since the session or the directory last changed; 0 for none.   *)
Prose(lines, i) ==
    LET texts == {j \in 1 .. i :
                    lines[j].text /\ \A k \in j .. i : lines[k].cwd = lines[i].cwd
                                                  /\ lines[k].session = lines[i].session}
    IN IF texts = {} THEN 0 ELSE Max(texts)

(* Mutant: what a session has read taints nothing.                         *)
AdmittedUnread(lines, i) ==
    \A k \in DOMAIN lines :
        /\ lines[k].session = lines[i].session
        /\ \E j \in k .. Len(lines) : SameGroup(lines[i], lines[j])
        => \A p \in {lines[k].edits[n] : n \in DOMAIN lines[k].edits} : ~Taints(p)

(* The ratchet: no line of the session, up to the last one of the group of *)
(* line i, has touched what taints.                                        *)
Admitted(lines, i) ==
    \A k \in DOMAIN lines :
        /\ lines[k].session = lines[i].session
        /\ \E j \in k .. Len(lines) : SameGroup(lines[i], lines[j])
        => \A p \in TouchedBy(lines[k]) : ~Taints(p)

(* Mutant: an edit counts as ours when the session was, wherever it wrote. *)
InScopeByCwd(line, p) == line.cwd \in Workspace

(* Where the session was and what it wrote must both be of the workspace.  *)
InScope(line, p) == line.cwd \in Workspace /\ p \in Workspace \union Neutral

(* The oldest indexed commit at or after time `at` that touches p          *)
Capturing(p, at) ==
    LET commits == {c \in indexed : c >= at /\ p \in made[c]}
    IN IF p \notin Workspace \/ commits = {} THEN None ELSE Min(commits)

(* The row of the k-th edit of line i                                      *)
EdgeOf(t, i, k) ==
    LET lines == Lines(t)
        p == lines[i].edits[k]
        near == ~partitioned \/ lines[i].cwd \in Visible
        open == ~partitioned \/ Admitted(lines, i)
    IN [id |-> <<t, i, k>>, session |-> lines[i].session, path |-> p,
        cwd |-> IF near THEN lines[i].cwd ELSE None,
        prose |-> IF open THEN Prose(lines, i) ELSE Withheld,
        commit |-> IF job.roots THEN Capturing(p, log[t][i]) ELSE None]

(* The edges one transcript gives a pass, as rows                          *)
EdgesOf(t, scoped) ==
    LET edits(i) == {k \in DOMAIN script[t][i].edits :
                        scoped => InScope(script[t][i], script[t][i].edits[k])}
    IN UNION {{EdgeOf(t, i, k) : k \in edits(i)} : i \in DOMAIN log[t]}

Routed(e) == ~partitioned \/ e.path \in Visible

(* The searches of session s that count: lines in scope, summed            *)
Searches(t, s, scoped) ==
    LET counted == {i \in DOMAIN log[t] :
                      /\ script[t][i].session = s
                      /\ scoped => script[t][i].cwd \in Workspace
                      /\ partitioned => script[t][i].cwd \in Visible}
    IN Cardinality(UNION {{i} \X (1 .. script[t][i].searches) : i \in counted})

--------------------------------------------------------------------------------
(* One pass.  The workspace's own passes and those over all slugs read     *)
(* every transcript; one over a slug reads those of that directory.        *)

Begin ==
    /\ job.pc = "idle"
    /\ \E rebuild, scoped \in BOOLEAN, todo \in {kept} \union {{t} : t \in kept} :
        /\ IF scoped THEN todo = kept ELSE wide
        /\ job' = [Idle EXCEPT !.pc = "read", !.rebuild = rebuild, !.scoped = scoped,
                               !.todo = todo, !.roots = indexed # {}]
    /\ UNCHANGED <<env, log, kept, git, db, settled>>

(* Mutant: every transcript drops the rows of its sessions.                *)
DroppedEachTime(edges) == {e.session : e \in edges}

(* --rebuild drops the rows of a session once, before its first edge.      *)
Dropped(edges) == {e.session : e \in edges} \ job.rebuilt

(* Mutant: --rebuild empties the table.                                    *)
KeptRowsOfNone(rows, drop) == IF drop = {} THEN rows ELSE {}

(* wipe_session_edges_for: the rows, and the search rows of the rows       *)
KeptRows(rows, drop) == {r \in rows : r.session \notin drop}

KeptHits(hits, rows) == {h \in hits : \E r \in rows : r.id = h[1]}

(* Mutant: the dedupe key skips an indexed edge altogether.                *)
MergedIgnored(old, new) ==
    old \union {e \in new : \A r \in old : r.id # e.id}

(* INSERT OR IGNORE on the id, and late binding of what was there          *)
Merged(old, new) ==
    {IF r.commit = None /\ \E e \in new : e.id = r.id
     THEN [r EXCEPT !.commit = (CHOOSE e \in new : e.id = r.id).commit] ELSE r : r \in old}
      \union {e \in new : \A r \in old : r.id # e.id}

(* The loop body of index_sessions for the next transcript                 *)
Take ==
    LET t == Min(job.todo)
        edges == EdgesOf(t, job.scoped)
        drop == IF job.rebuild THEN Dropped(edges) ELSE {}
        new == {e \in edges : Routed(e)}
        start == IF job.open THEN job
                 ELSE [job EXCEPT !.view = db.edges, !.hits = db.hits, !.tally = db.tally]
        stay == KeptRows(start.view, drop)
        found == KeptHits(start.hits, stay)
        tally == [s \in Session |-> Searches(t, s, job.scoped)]
    IN
    /\ job.pc = "read" /\ job.todo # {}
    /\ IF t \in kept
       THEN job' = [start EXCEPT
                !.todo = @ \ {t}, !.read = @ \union {t},
                !.open = @ \/ drop # {} \/ new # {} \/ tally # Idle.tally,
                !.rebuilt = @ \union drop,
                !.view = Merged(stay, new),
                !.hits = found \union {<<e.id, e.prose>> : e \in
                                         {e \in new : \A r \in stay : r.id # e.id}},
                !.tally = [s \in Session |-> Max({start.tally[s], tally[s]})]]
       ELSE job' = [job EXCEPT !.todo = @ \ {t}]
    /\ UNCHANGED <<env, log, kept, git, db, settled>>

(* tx.commit()                                                             *)
Finish ==
    /\ job.pc = "read" /\ job.todo = {}
    /\ db' = IF job.open THEN [edges |-> job.view, hits |-> job.hits, tally |-> job.tally]
             ELSE db
    /\ settled' = {t \in settled : {e \in db.edges : e.id[1] = t} \subseteq db'.edges}
                    \union IF job.behind THEN {} ELSE job.read \intersect kept
    /\ job' = Idle
    /\ UNCHANGED <<env, log, kept, git>>

(* An error or a crash rolls back.                                         *)
Fail ==
    /\ job.pc # "idle" /\ job' = Idle
    /\ UNCHANGED <<env, log, kept, git, db, settled>>

Next ==
    \/ \E t \in Transcript : Say(t) \/ Delete(t)
    \/ \E paths \in Touched : MakeCommit(paths)
    \/ \E c \in Commit : Merge(c) \/ Rewrite(c)
    \/ IndexCommits
    \/ Begin \/ Take \/ Finish \/ Fail

Spec == Init /\ [][Next]_vars

--------------------------------------------------------------------------------
Row == [id : Transcript \X Nat \X Nat, session : Session, path : Path,
        cwd : Path \union {None}, prose : Nat \union {Withheld},
        commit : Commit \union {None}]

(* Type correctness, with the dedupe key: one row of an id, and one search *)
(* row of a row.                                                           *)
TypeOK ==
    /\ log \in [Transcript -> Seq(1 .. MaxCommits + 1)]
    /\ kept \subseteq Transcript /\ settled \subseteq kept
    /\ made \in Seq(SUBSET Path) /\ head \subseteq DOMAIN made /\ indexed \subseteq Commit
    /\ db.edges \subseteq Row /\ job.view \subseteq Row
    /\ db.tally \in [Session -> Nat]

(* Admission needs proof: an edge is stored with prose only if no path that*)
(* the session has touched in that transcript, up to the end of the edge's *)
(* message, belongs to somebody else; and the prose is of the same session *)
(* and directory as the edge (admission_map, `last_text`).                 *)
ProseIsClean ==
    \A e \in db.edges : e.prose \notin {0, Withheld} =>
        LET lines == script[e.id[1]]
            i == e.id[2]
        IN /\ lines[e.prose].session = e.session
           /\ lines[e.prose].cwd = lines[i].cwd
           /\ partitioned =>
               \A k \in DOMAIN lines :
                   /\ lines[k].session = e.session
                   /\ k <= i \/ \A j \in i .. k : SameGroup(lines[i], lines[j])
                   => \A p \in TouchedBy(lines[k]) : p \in Visible \union Neutral

(* Nothing of another workspace or domain is in the database: no target, no*)
(* directory, no prose (target_in_scope, route_and_insert).                *)
NoLeak ==
    /\ ProseIsClean
    /\ \A e \in db.edges :
        /\ ~wide => /\ script[e.id[1]][e.id[2]].cwd \in Workspace
                    /\ e.path \in Workspace \union Neutral
        /\ partitioned => e.path \in Visible /\ e.cwd \in Visible \union {None}

(* An edge carries the commit that captured it, "the oldest-at-or-after    *)
(* answer is stable once found": a pass leaves no edge of the workspace in *)
(* the transcripts it has read with another commit than the oldest.  (An   *)
(* edge made from elsewhere is bound only by passes without a scope.)      *)
BoundToOldest ==
    \A e \in db.edges :
        e.id[1] \in settled /\ InScope(script[e.id[1]][e.id[2]], e.path) =>
            e.commit = Capturing(e.path, log[e.id[1]][e.id[2]])

(* Each edge is there once, a search finds it under the prose that is      *)
(* stored with it, and none of a transcript that a pass has read is        *)
(* missing (route_and_insert, wipe_session_edges_for).                     *)
AllStored ==
    /\ db.hits = {<<e.id, e.prose>> : e \in db.edges}
    /\ \A e, f \in db.edges : e.id = f.id => e = f
    /\ \A t \in settled : \A i \in DOMAIN log[t] : \A k \in DOMAIN script[t][i].edits :
        LET p == script[t][i].edits[k] IN
        InScope(script[t][i], p) /\ Routed([path |-> p]) =>
            \E e \in db.edges : e.id = <<t, i, k>>

(* What a pass has read is there afterwards and stays until there is more  *)
(* to read: resumed sessions, overlapping scopes, --rebuild, deleted       *)
(* transcripts and failed passes lose no edge, and each has its commit.    *)
Complete == BoundToOldest /\ AllStored

(* Re-indexing only ever adds: an edge goes only when a --rebuild admits an*)
(* edge of the same session, and no tally shrinks (index_sessions's        *)
(* "additive merge").                                                      *)
Additive ==
    [][/\ \A e \in db.edges :
            (\A f \in db'.edges : f.id # e.id) => job.rebuild /\ e.session \in job.rebuilt
       /\ \A s \in Session : db'.tally[s] >= db.tally[s]]_vars
================================================================================
