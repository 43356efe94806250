------------------------------ MODULE SourceIndex ------------------------------
(***************************************************************************)
(* The source corpus: index_source_repo (source_index.rs), run per         *)
(* repository by the watcher after a git event and by `nibdex index`, and  *)
(* the freshness gate that tells a query how far a hit may be trusted.     *)
(*                                                                         *)
(* A pass lists what git tracks, then works through the files inside one   *)
(* deferred SQLite transaction: its snapshot is taken by the first SELECT, *)
(* the write lock by the first write, which fails when another writer has  *)
(* committed since.  Files, git and the other process go on meanwhile.     *)
(***************************************************************************)
EXTENDS Naturals, FiniteSets

CONSTANTS
    File,           \* the files of the workspace, by absolute path
    Container,      \* the repository at the workspace root
    Nested,         \* a repository in a directory below it
    NestedFile,     \* the files below that directory
    Content,        \* contents that are indexed, as the set of their windows
    Binary,         \* a content that is not (NUL byte, not UTF-8, too large, a link)
    Absent, NoDoc, None,
    Process,        \* whoever runs passes
    Watcher,        \* the one of them that does on a git event
    Disturb,        \* which of the disturbances below may happen
    MaxEdits,       \* bound on changes of files and of git
    MaxAborts       \* bound on passes that fail or crash

(* "midRead":    a file changes between a pass's fs::read and file_mtime   *)
(* "sameSecond": a change leaves the file's mtime, in seconds, as it was   *)
(* "absorb":     the nested repository is dissolved into the container     *)
Disturbance == {"midRead", "sameSecond", "absorb"}

Repo == {Container, Nested}

ASSUME SourceAssumption ==
    /\ NestedFile \subseteq File /\ Container # Nested /\ None \notin Repo
    /\ None \notin File \union Process
    /\ Binary \notin Content /\ Absent \notin Content /\ Binary # Absent
    /\ Watcher \in Process /\ Disturb \subseteq Disturbance
    /\ MaxEdits \in Nat /\ MaxAborts \in Nat

VARIABLES
    disk,           \* what each file holds
    stamp,          \* its mtime in seconds, 0 is the epoch
    live,           \* the repositories that have a .git
    owner,          \* the repository whose git index lists a file, or None
    touched,        \* the last commit of that repository that touched it
    known,          \* commits with a commit_entries row
    event,          \* repositories with a git event to serve
    db,             \* the documents row of each file and what hangs on it
    lock,           \* the process that holds SQLite's write lock
    job,            \* what each process is at
    dirty,          \* history: files whose latest the pass that last wrote them,
                    \* or found nothing to write, has not seen
    edits, aborts

files == <<disk, stamp>>
git == <<live, owner, touched>>
index == <<known, db, lock>>
bounds == <<edits, aborts>>
vars == <<files, git, event, index, job, dirty, bounds>>

Stamp == 0 .. 1 + MaxEdits
Commit == 0 .. MaxEdits

Doc == [hash : Content, stamp : Stamp, chunks : SUBSET UNION Content,
        hits : SUBSET UNION Content, repo : Repo, via : Commit \union {None}]

ASSUME NoDocAssumption == NoDoc \notin Doc

(* `clean` is history: the files of which the pass has seen the latest.    *)
Idle == [pc |-> "idle", repo |-> None, listed |-> {}, via |-> [f \in File |-> 0],
         todo |-> {}, file |-> None, text |-> {}, clean |-> {},
         open |-> FALSE, behind |-> FALSE, view |-> [f \in File |-> NoDoc],
         commits |-> {}]

Busy(p) == job[p].pc # "idle"
Under(r) == IF r = Container THEN File ELSE NestedFile

Init ==
    /\ disk \in [File -> Content \union {Binary}]
    /\ stamp = [f \in File |-> 1]
    /\ live = Repo
    /\ owner = [f \in File |-> IF f \in NestedFile THEN Nested ELSE Container]
    /\ touched = [f \in File |-> 0]
    /\ event = {}
    /\ known = {} /\ db = [f \in File |-> NoDoc] /\ lock = None
    /\ job = [p \in Process |-> Idle]
    /\ dirty = File
    /\ edits = 0 /\ aborts = 0

--------------------------------------------------------------------------------
(* The working tree and git, outside nibdex                                *)

(* File f is not as the passes under way have seen it.                     *)
Outdate(S) ==
    /\ dirty' = dirty \union S
    /\ job' = [p \in Process |-> [job[p] EXCEPT !.clean = @ \ S]]

BeingRead(f) == \E p \in Process : job[p].pc = "stat" /\ job[p].file = f

(* A change made before a pass has read the file is seen by that pass.     *)
Edit(f) ==
    /\ edits < MaxEdits /\ edits' = edits + 1
    /\ "midRead" \in Disturb \/ ~BeingRead(f)
    /\ \E c \in (Content \union {Binary, Absent}) \ {disk[f]} :
        disk' = [disk EXCEPT ![f] = c]
    /\ \E s \in {2 + edits} \union IF "sameSecond" \in Disturb THEN {stamp[f]} ELSE {} :
        stamp' = [stamp EXCEPT ![f] = s]
    /\ dirty' = dirty \union {f}
    /\ job' = [p \in Process |->
                 IF f \in job[p].todo THEN job[p]
                 ELSE [job[p] EXCEPT !.clean = @ \ {f}]]
    /\ UNCHANGED <<git, event, index, aborts>>

(* A checkout that ends where it began, a `touch`                          *)
Touch(f) ==
    /\ edits < MaxEdits /\ edits' = edits + 1
    /\ stamp' = [stamp EXCEPT ![f] = 2 + edits]
    /\ UNCHANGED <<disk, git, event, index, job, dirty, aborts>>

(* A commit of f in the repository it lies in; f may be new to it.         *)
CommitFile(f) ==
    LET r == IF f \in NestedFile /\ Nested \in live THEN Nested ELSE Container IN
    /\ edits < MaxEdits /\ edits' = edits + 1
    /\ disk[f] # Absent
    /\ owner' = [owner EXCEPT ![f] = r]
    /\ touched' = [touched EXCEPT ![f] = edits + 1]
    /\ event' = event \union {r}
    /\ Outdate({f})
    /\ UNCHANGED <<files, live, index, aborts>>

(* f leaves the git index, committed as gone.                              *)
Untrack(f) ==
    /\ edits < MaxEdits /\ edits' = edits + 1
    /\ owner[f] # None
    /\ owner' = [owner EXCEPT ![f] = None]
    /\ event' = event \union {owner[f]}
    /\ Outdate({f})
    /\ UNCHANGED <<files, live, touched, index, aborts>>

(* The nested repository loses its .git, the container commits its files.  *)
Absorb ==
    /\ "absorb" \in Disturb /\ Nested \in live
    /\ edits < MaxEdits /\ edits' = edits + 1
    /\ live' = live \ {Nested}
    /\ owner' = [f \in File |-> IF f \in NestedFile THEN Container ELSE owner[f]]
    /\ touched' = [f \in File |-> IF f \in NestedFile THEN edits + 1 ELSE touched[f]]
    /\ event' = (event \ {Nested}) \union {Container}
    /\ Outdate(NestedFile)
    /\ UNCHANGED <<files, index, aborts>>

--------------------------------------------------------------------------------
(* One pass                                                                *)

(* A commit by p puts every other open snapshot behind.                    *)
Behind(p, j) ==
    [q \in Process |-> IF q # p /\ j[q].open THEN [j[q] EXCEPT !.behind = TRUE] ELSE j[q]]

(* The commit corpus goes first (see CommitIndex): reindex_commits_for_repo*)
(* before reindex_source_for_repo, step 4 of full_scan before step 5.  Of  *)
(* its rows only the last touch of each file matters here.                 *)
Begin(p, r) ==
    /\ ~Busy(p) /\ r \in live /\ lock = None
    /\ p = Watcher => r \in event
    /\ event' = IF p = Watcher THEN event \ {r} ELSE event
    /\ known' = known \union {touched[f] : f \in {g \in File : owner[g] = r}}
    /\ job' = Behind(p, [job EXCEPT ![p] = [Idle EXCEPT !.pc = "list", !.repo = r]])
    /\ UNCHANGED <<files, git, db, lock, dirty, bounds>>

(* .git on the way from f up to the root of r                              *)
BelongsToNestedRepo(r, f) == r = Container /\ f \in NestedFile /\ Nested \in live

(* build_provenance_map and git_ls_files, before the transaction           *)
List(p) ==
    LET r == job[p].repo
        tracked == {f \in File : owner[f] = r}
        lost == {f \in Under(r) : owner[f] = None /\ ~BelongsToNestedRepo(r, f)}
    IN
    /\ job[p].pc = "list" /\ r \in live
    /\ job' = [job EXCEPT ![p].pc = "files", ![p].listed = tracked, ![p].todo = tracked,
                          ![p].via = [f \in File |-> IF f \in tracked THEN touched[f] ELSE 0],
                          ![p].clean = tracked \union lost]
    /\ UNCHANGED <<files, git, event, index, dirty, bounds>>

(* fs::read and the checks that skip a file: a link, unreadable, too large,*)
(* binary                                                                  *)
Read(p, f) ==
    /\ job[p].pc = "files" /\ f \in job[p].todo
    /\ job' = IF disk[f] \in Content
              THEN [job EXCEPT ![p].pc = "stat", ![p].file = f, ![p].text = disk[f],
                               ![p].todo = @ \ {f}]
              ELSE [job EXCEPT ![p].todo = @ \ {f}]
    /\ UNCHANGED <<files, git, event, index, dirty, bounds>>

(* The tables as the transaction sees them                                 *)
ViewOf(p) == IF job[p].open THEN job[p].view ELSE db
CommitsOf(p) == IF job[p].open THEN job[p].commits ELSE known

(* A write takes the lock, or fails with SQLITE_BUSY, or waits.            *)
MayWrite(p) == lock \in {None, p} /\ ~job[p].behind

FileMtime(f) == IF disk[f] = Absent THEN 0 ELSE stamp[f]

(* Mutant: search_index is not FK-aware, the wipe leaves its rows.         *)
WipeAndInsertRows(doc, text) ==
    [chunks |-> text, hits |-> text \union IF doc = NoDoc THEN {} ELSE doc.hits]

(* wipe_existing_chunks and index_file_chunks: chunks and search rows      *)
WipeAndInsert(doc, text) == [chunks |-> text, hits |-> text]

(* upsert_source_document and the chunks of a file that is new or changed  *)
Rewritten(doc, text, mtime, repo, commit) ==
    LET w == WipeAndInsert(doc, text) IN
    [hash |-> text, stamp |-> mtime, chunks |-> w.chunks, hits |-> w.hits,
     repo |-> repo, via |-> commit]

(* Mutant: an unchanged file needs no write at all.                        *)
RefreshedMtime(doc, mtime, commit) == [doc EXCEPT !.stamp = mtime]

(* Mutant: an indexed file counts as unchanged.                            *)
UnchangedIndexed(doc, text) == doc # NoDoc

(* The two in-place updates of a file that is byte-identical               *)
Refreshed(doc, mtime, commit) ==
    [doc EXCEPT !.stamp = mtime, !.via = IF doc.chunks = {} THEN @ ELSE commit]

Unchanged(doc, text) == doc # NoDoc /\ doc.hash = text

(* The rest of the loop body: resolve_commit_id, file_mtime, the SELECT of *)
(* the stored row and what follows from it.                                *)
Store(p) ==
    LET f == job[p].file
        doc == ViewOf(p)[f]
        commit == IF job[p].via[f] \in CommitsOf(p) THEN job[p].via[f] ELSE None
        new == IF Unchanged(doc, job[p].text)
               THEN Refreshed(doc, FileMtime(f), commit)
               ELSE Rewritten(doc, job[p].text, FileMtime(f), job[p].repo, commit)
    IN
    /\ job[p].pc = "stat"
    /\ new # doc => MayWrite(p)
    /\ lock' = IF new # doc THEN p ELSE lock
    /\ job' = [job EXCEPT ![p].pc = "files", ![p].file = None, ![p].text = {},
                          ![p].open = TRUE, ![p].commits = CommitsOf(p),
                          ![p].view = [ViewOf(p) EXCEPT ![f] = new],
                          ![p].clean = IF commit = None THEN @ \ {f} ELSE @]
    /\ UNCHANGED <<files, git, event, known, db, dirty, bounds>>

(* Mutant: whatever lies under the root and is not listed                  *)
PrunedByPrefix(p) ==
    {f \in Under(job[p].repo) \ job[p].listed : ViewOf(p)[f] # NoDoc}

(* What the pass prunes: documents under its root that are no longer       *)
(* listed, but those of a nested repository                                *)
Pruned(p) ==
    {f \in Under(job[p].repo) \ job[p].listed :
        ViewOf(p)[f] # NoDoc /\ ~BelongsToNestedRepo(job[p].repo, f)}

(* The prune and tx.commit()                                               *)
Finish(p) ==
    LET gone == Pruned(p) IN
    /\ job[p].pc = "files" /\ job[p].todo = {}
    /\ gone # {} => MayWrite(p)
    /\ IF gone # {} \/ lock = p
       THEN /\ db' = [f \in File |-> IF f \in gone THEN NoDoc ELSE ViewOf(p)[f]]
            /\ job' = Behind(p, [job EXCEPT ![p] = Idle])
            /\ lock' = None
       ELSE /\ job' = [job EXCEPT ![p] = Idle]
            /\ UNCHANGED <<db, lock>>
    /\ dirty' = (dirty \ IF job[p].behind THEN {} ELSE job[p].clean)
                  \union {f \in File : db'[f] # db[f] /\ f \notin job[p].clean}
    /\ UNCHANGED <<files, git, event, known, bounds>>

(* An error or a crash anywhere rolls the transaction back; the watcher    *)
(* does not retry.  A repository that is gone or a lost write lock is such *)
(* an error and needs no bad luck.                                         *)
Fail(p) ==
    /\ Busy(p)
    /\ \/ (job[p].behind \/ job[p].repo \notin live) /\ UNCHANGED aborts
       \/ aborts < MaxAborts /\ aborts' = aborts + 1
    /\ job' = [job EXCEPT ![p] = Idle]
    /\ lock' = IF lock = p THEN None ELSE lock
    /\ UNCHANGED <<files, git, event, known, db, dirty, edits>>

Step(p) ==
    \/ List(p) \/ Store(p) \/ Finish(p)
    \/ \E f \in File : Read(p, f)

Next ==
    \/ \E f \in File : Edit(f) \/ Touch(f) \/ CommitFile(f) \/ Untrack(f)
    \/ Absorb
    \/ \E p \in Process :
        \/ \E r \in Repo : Begin(p, r)
        \/ Step(p) \/ Fail(p)

Spec == Init /\ [][Next]_vars

--------------------------------------------------------------------------------
(* The freshness gate: check_file and the status resolve_location gives    *)
(* when it does not relocate                                               *)
CheckFile(f, doc) ==
    IF disk[f] = Absent THEN "missing"
    ELSE IF stamp[f] = doc.stamp \/ disk[f] = doc.hash THEN "fresh"
    ELSE "changed"

Job == [pc : {"idle", "list", "files", "stat"}, repo : Repo \union {None},
        listed : SUBSET File, via : [File -> Commit], todo : SUBSET File,
        file : File \union {None}, text : Content \union {{}}, clean : SUBSET File,
        open : BOOLEAN, behind : BOOLEAN, view : [File -> Doc \union {NoDoc}],
        commits : SUBSET Commit]

(* Type correctness, with who holds the lock: a process in its transaction *)
(* whose snapshot is the latest.                                           *)
TypeOK ==
    /\ disk \in [File -> Content \union {Binary, Absent}]
    /\ stamp \in [File -> Stamp]
    /\ live \subseteq Repo /\ owner \in [File -> Repo \union {None}]
    /\ touched \in [File -> Commit] /\ known \subseteq Commit
    /\ event \subseteq Repo
    /\ db \in [File -> Doc \union {NoDoc}]
    /\ lock \in Process \union {None}
    /\ job \in [Process -> Job]
    /\ dirty \subseteq File
    /\ edits \in 0 .. MaxEdits /\ aborts \in 0 .. MaxAborts
    /\ lock # None => job[lock].open /\ ~job[lock].behind

(* A query never meets a half-indexed file: whatever passes fail or meet,  *)
(* the committed chunks and search rows of a file are those of one content,*)
(* the one whose hash is stored (index_source_repo's one transaction).     *)
Whole ==
    \A f \in File : db[f] # NoDoc =>
        db[f].chunks = db[f].hash /\ db[f].hits = db[f].hash

(* A hit reported as `verified` is the file's text: LocationStatus says    *)
(* the live file is byte-identical to what was indexed.                    *)
VerifiedIsLive ==
    \A f \in File :
        db[f] # NoDoc /\ CheckFile(f, db[f]) = "fresh" => db[f].chunks = disk[f]

(* What the last pass at a file has seen the latest of is indexed as it    *)
(* is: content-hash skip, prune, failing and overlapping passes leave no   *)
(* file with other text, another provenance, or rows it should not have.   *)
Mirror ==
    \A f \in File \ dirty :
        /\ owner[f] # None /\ disk[f] \in Content =>
            /\ db[f] # NoDoc /\ db[f].hash = disk[f]
            /\ disk[f] # {} => db[f].via = touched[f]
        /\ owner[f] = None => db[f] = NoDoc

(* A pass over the container never takes away what a living nested         *)
(* repository tracks and has indexed (belongs_to_nested_repo).             *)
NestedKept ==
    [][\A f \in NestedFile :
        db[f] # NoDoc /\ db'[f] = NoDoc /\ Nested \in live
            => \E p \in Process : job[p].repo = Nested /\ job'[p] = Idle]_vars

(* index_source_repo's prune is there "so the corpus tracks the tree":     *)
(* what one pass has brought up to date, another does not put back.        *)
NotUndone == [][edits' = edits => dirty' \subseteq dirty]_vars

(* CodeHit.repo_path is the root of the repository the chunk lives in.     *)
RepoIsOwner ==
    \A f \in File \ dirty :
        owner[f] # None /\ disk[f] \in Content =>
            db[f] # NoDoc /\ db[f].repo = owner[f]
================================================================================
