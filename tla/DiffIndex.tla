------------------------------ MODULE DiffIndex ------------------------------
(***************************************************************************)
(* The change map (diff_index.rs, `nibdex index-diffs`): the added blocks  *)
(* of every commit of one repository, read off `git log -p` line by line.  *)
(* A block is a row of diff_hunks and a row of the full-text index, each   *)
(* written by itself; the pass starts by deleting what there is, of every  *)
(* repository.                                                             *)
(***************************************************************************)
EXTENDS Naturals, Sequences, SequencesExt, FiniteSets, FiniteSetsExt

CONSTANTS
    Process,        \* runs of the command
    Repo,
    Diff,           \* Diff[r][c]: the diff of commit c of r, a sequence of lines
    Blank,          \* lines of white space
    MaxBlock,       \* MAX_BLOCK_BYTES, in lines
    NoFile,         \* /dev/null, and no file header read yet
    Overlap,        \* whether two runs may overlap
    MaxFaults       \* bound on runs that fail or are killed

ASSUME DiffAssumption == MaxBlock \in Nat /\ MaxFaults \in Nat /\ Overlap \in BOOLEAN

VARIABLES
    landed,         \* how many commits each repository has
    known,          \* (repository, commit) pairs of commit_entries
    rows,           \* diff_hunks, by id
    fts,            \* its rows of search_index
    run,            \* what each run is at
    faults

vars == <<landed, known, rows, fts, run, faults>>

(* A line of the log.  An added line carries its text; the one text that  *)
(* begins with "++ " is printed as "+++ ...", and read as a file header.  *)
Line(k, file, at, text) == [k |-> k, commit |-> 0, file |-> file, at |-> at, text |-> text]

FileLine(f)  == Line("file", f, 0, "")
OldLine      == Line("old", NoFile, 0, "")
HunkLine(at) == Line("hunk", NoFile, at, "")
AddLine(t)   == Line("add", NoFile, 0, t)
DelLine      == Line("del", NoFile, 0, "")

CommitLine(c) == [Line("commit", NoFile, 0, "") EXCEPT !.commit = c]

(* `git log -p`: the newest commit first                                   *)
Log(r, n) ==
    FlattenSeq([i \in 1 .. n |-> <<CommitLine(n + 1 - i)>> \o Diff[r][n + 1 - i]])

NoBlock == [file |-> NoFile, start |-> 0, body |-> <<>>]

Off == [pc |-> "off", repo |-> CHOOSE r \in Repo : TRUE, log |-> <<>>, i |-> 1,
        commit |-> 0, file |-> NoFile, line |-> 0, block |-> NoBlock,
        cache |-> {}, unknown |-> {}, id |-> 0]

Init ==
    /\ landed = [r \in Repo |-> 0] /\ known = {}
    /\ rows = <<>> /\ fts = {}
    /\ run = [p \in Process |-> Off]
    /\ faults = 0

Database == <<rows, fts>>
World    == <<landed, known>>

--------------------------------------------------------------------------------
(* index_diffs: the wipe, two statements, and the log                      *)

Start(p, r) ==
    /\ run[p].pc = "off"
    /\ Overlap \/ \A q \in Process : run[q].pc = "off"
    /\ run' = [run EXCEPT ![p] = [Off EXCEPT !.pc = "wipe", !.repo = r]]
    /\ UNCHANGED <<World, Database, faults>>

(* Mutant: the wipe forgets the full-text rows.                            *)
AllKept == fts

NoneLeft == {}

WipeIndex(p) ==
    /\ run[p].pc = "wipe"
    /\ fts' = NoneLeft
    /\ run' = [run EXCEPT ![p].pc = "wipe_rows"]
    /\ UNCHANGED <<World, rows, faults>>

WipeRows(p) ==
    /\ run[p].pc = "wipe_rows"
    /\ rows' = <<>>
    /\ run' = [run EXCEPT ![p].pc = "log"]
    /\ UNCHANGED <<World, fts, faults>>

ReadLog(p) ==
    /\ run[p].pc = "log"
    /\ run' = [run EXCEPT ![p].log = Log(run[p].repo, landed[run[p].repo]), ![p].pc = "read"]
    /\ UNCHANGED <<World, Database, faults>>

--------------------------------------------------------------------------------
(* The parser: one line at a time                                          *)

(* The kind a line is taken for, in the order the prefixes are tried       *)
Taken(line) == IF line.k = "add" /\ line.text = "++ " THEN "file" ELSE line.k

(* An added line joins the block; every other kind of line ends it first.  *)
(* Mutant: a hunk header does not.                                         *)
EndsButHunk(line) == Taken(line) \notin {"add", "hunk"}

EndsBlock(line) == Taken(line) # "add"

AtEnd(s) == s.i > Len(s.log)

Joins(s) == ~AtEnd(s) /\ ~EndsBlock(s.log[s.i])

Flushing(s) == s.pc = "read" /\ s.block # NoBlock /\ ~Joins(s)

(* The state after a line, by kind.  Added lines outside a file, that is   *)
(* between a deleted file's header and the next, are counted and dropped.  *)
After(s, line) ==
    LET t == Taken(line) IN
    IF t = "commit" THEN [s EXCEPT !.commit = line.commit, !.file = NoFile]
    ELSE IF t = "file" THEN [s EXCEPT !.file = line.file]
    ELSE IF t = "hunk" THEN [s EXCEPT !.line = line.at]
    ELSE IF t # "add" THEN s
    ELSE LET grown == [file  |-> s.file,
                       start |-> IF s.block = NoBlock THEN s.line ELSE s.block.start,
                       body  |-> Append(s.block.body, line.text)]
         IN [s EXCEPT !.line = @ + 1, !.block = IF s.file = NoFile THEN @ ELSE grown]

ReadLine(p) ==
    /\ run[p].pc = "read" /\ ~AtEnd(run[p]) /\ ~Flushing(run[p])
    /\ LET s == run[p] IN run' = [run EXCEPT ![p] = [After(s, s.log[s.i]) EXCEPT !.i = @ + 1]]
    /\ UNCHANGED <<World, Database, faults>>

Finish(p) ==
    /\ run[p].pc = "read" /\ AtEnd(run[p]) /\ ~Flushing(run[p])
    /\ run' = [run EXCEPT ![p].pc = "done"]
    /\ UNCHANGED <<World, Database, faults>>

Return(p) ==
    /\ run[p].pc = "done"
    /\ run' = [run EXCEPT ![p] = Off]
    /\ UNCHANGED <<World, Database, faults>>

--------------------------------------------------------------------------------
(* flush_block: a row, then its full-text row                              *)

Kept(body) == ToSet(body) \ Blank # {} /\ Len(body) <= MaxBlock

DropBlock(p) ==
    /\ Flushing(run[p]) /\ ~Kept(run[p].block.body)
    /\ run' = [run EXCEPT ![p].block = NoBlock]
    /\ UNCHANGED <<World, Database, faults>>

(* resolve_commit_id: asked once per commit and run, "no" is kept too      *)
(* Mutant: asked for every block.                                          *)
AskedAgain(s) == <<s.repo, s.commit>> \in known

IsKnown(s) == s.commit \in s.cache \/ (s.commit \notin s.unknown /\ <<s.repo, s.commit>> \in known)

NextId == Max({0} \union DOMAIN rows) + 1

InsertRow(p) ==
    /\ Flushing(run[p]) /\ Kept(run[p].block.body)
    /\ LET s == run[p]
           row == [repo |-> s.repo, commit |-> s.commit, bound |-> IsKnown(s),
                   file |-> s.block.file, start |-> s.block.start, body |-> s.block.body]
       IN
       /\ rows' = [i \in DOMAIN rows \union {NextId} |-> IF i = NextId THEN row ELSE rows[i]]
       /\ run' = [run EXCEPT ![p].id = NextId, ![p].pc = "index",
                             ![p].cache = IF IsKnown(s) THEN @ \union {s.commit} ELSE @,
                             ![p].unknown = IF IsKnown(s) THEN @ ELSE @ \union {s.commit}]
    /\ UNCHANGED <<World, fts, faults>>

InsertIndex(p) ==
    /\ run[p].pc = "index"
    /\ fts' = fts \union {[ref |-> run[p].id, body |-> run[p].block.body]}
    /\ run' = [run EXCEPT ![p].block = NoBlock, ![p].pc = "read"]
    /\ UNCHANGED <<World, rows, faults>>

--------------------------------------------------------------------------------
(* Around it                                                               *)

Commit(r) ==
    /\ landed[r] < Len(Diff[r])
    /\ landed' = [landed EXCEPT ![r] = @ + 1]
    /\ UNCHANGED <<known, Database, run, faults>>

(* `nibdex index` stores the commits of a repository                       *)
IndexCommits(r) ==
    /\ known' = known \union {<<r, c>> : c \in 1 .. landed[r]}
    /\ known' # known
    /\ UNCHANGED <<landed, Database, run, faults>>

(* The run is killed, `git log` fails, or a statement does.                *)
Stop(p) ==
    /\ run[p].pc \notin {"off", "done"} /\ faults < MaxFaults
    /\ faults' = faults + 1
    /\ run' = [run EXCEPT ![p] = Off]
    /\ UNCHANGED <<World, Database>>

Next ==
    \/ \E p \in Process :
          \/ \E r \in Repo : Start(p, r)
          \/ WipeIndex(p) \/ WipeRows(p) \/ ReadLog(p)
          \/ ReadLine(p) \/ DropBlock(p) \/ InsertRow(p) \/ InsertIndex(p)
          \/ Finish(p) \/ Return(p) \/ Stop(p)
    \/ \E r \in Repo : Commit(r) \/ IndexCommits(r)

Spec == Init /\ [][Next]_vars

--------------------------------------------------------------------------------
(* trace_code and resolve_provenance join the two tables on the id.        *)
Hits(text) == {rows[f.ref] : f \in {g \in fts : g.ref \in DOMAIN rows /\ text \in ToSet(g.body)}}

Text == UNION {UNION {{l.text : l \in ToSet(Diff[r][c])} : c \in 1 .. Len(Diff[r])} : r \in Repo}

(* A search never answers with a block that does not hold the text it was  *)
(* asked for: ids are used again after a wipe, so a full-text row of an    *)
(* earlier run must not meet a row of a later one.                         *)
HitsHold == \A t \in Text : \A row \in Hits(t) : t \in ToSet(row.body)

(* The blocks of a log, stated without the parser: the maximal runs of     *)
(* added lines, each in the last file and the last hunk named before it.   *)
LastBefore(log, i, k) == Max({0} \union {j \in 1 .. i - 1 : log[j].k = k})

RunsOf(log) ==
    {ab \in (1 .. Len(log)) \X (1 .. Len(log)) :
        /\ ab[1] <= ab[2] /\ \A i \in ab[1] .. ab[2] : log[i].k = "add"
        /\ ab[1] = 1 \/ log[ab[1] - 1].k # "add"
        /\ ab[2] = Len(log) \/ log[ab[2] + 1].k # "add"}

BlockOf(log, ab) ==
    LET h == LastBefore(log, ab[1], "hunk") IN
    [commit |-> log[LastBefore(log, ab[1], "commit")].commit,
     file   |-> log[LastBefore(log, ab[1], "file")].file,
     start  |-> log[h].at + Cardinality({i \in h .. ab[1] - 1 : log[i].k = "add"}),
     body   |-> [i \in 1 .. ab[2] - ab[1] + 1 |-> log[ab[1] + i - 1].text]]

BlocksOf(log) ==
    {BlockOf(log, ab) : ab \in {c \in RunsOf(log) :
        /\ log[LastBefore(log, c[1], "file")].file # NoFile
        /\ Kept([i \in 1 .. c[2] - c[1] + 1 |-> log[c[1] + i - 1].text])}}

(* When a run ends, the map is exactly the added blocks of the history it  *)
(* read, each at its place and found by every line it holds, whatever      *)
(* earlier runs left behind; the blocks of one commit agree on whether     *)
(* the commit is indexed.                                                  *)
MapIsLog ==
    \A p \in Process : run[p].pc = "done" =>
        LET Plain(row) == [commit |-> row.commit, file |-> row.file,
                           start |-> row.start, body |-> row.body]
            stored == {Plain(rows[i]) : i \in DOMAIN rows}
        IN /\ stored = BlocksOf(run[p].log)
           /\ \A i \in DOMAIN rows : [ref |-> i, body |-> rows[i].body] \in fts
           /\ \A i, j \in DOMAIN rows : rows[i].commit = rows[j].commit => rows[i].bound = rows[j].bound
================================================================================
