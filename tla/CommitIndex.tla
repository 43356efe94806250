------------------------------ MODULE CommitIndex ------------------------------
(***************************************************************************)
(* The commit corpus of one repository: index_one_repo (indexer.rs) over   *)
(* extract_commits (extractor/git_commits.rs), run by the file watcher on  *)
(* a git event and by `nibdex index` whenever a user asks, against one     *)
(* SQLite file, while git moves the repository underneath.                 *)
(*                                                                         *)
(* No transaction spans a pass: every SQL statement commits on its own, so *)
(* every statement is a step, and a crash or an error (SQLITE_BUSY, an     *)
(* unreadable object) may end a pass between any two of them.              *)
(***************************************************************************)
EXTENDS CommitHistory, Naturals, FiniteSets

CONSTANTS
    CommittedAt,    \* [Commit -> Nat], the time a walk is sorted by
    Indexer,        \* the processes that run index_one_repo
    Watcher,        \* the one of them that runs it on a git event
    MaxCommits,     \* --max-commits-per-repo
    ShallowCuts,    \* what a shallow clone may be missing, {} for a full one
    Disturb,        \* git operations outside the usual ones, see below
    MaxMoves,       \* bound on moves of HEAD
    MaxAborts       \* bound on passes that crash or fail

(* "switch":    HEAD leaves its line of history between the two reads of   *)
(*              HEAD that one extract_commits makes                        *)
(* "refetch":   a commit that gc removed comes back                        *)
Disturbance == {"switch", "refetch"}

VARIABLES
    head,           \* the commit HEAD resolves to, None while unborn
    hidden,         \* commits below the shallow boundary
    pruned,         \* commits gc removed from the object database
    event,          \* a .git/HEAD or .git/refs/heads event waits for dispatch
    rows,           \* commits with a commit_entries row
    fts,            \* search_index rows of each commit's entry
    cursor,         \* indexed_repos.last_indexed_oid
    shallowFlag,    \* indexed_repos.is_shallow
    pc,             \* where each pass stands
    last,           \* the cursor a pass read
    target,         \* the cursor a pass will write
    shallowSeen,    \* the is_shallow a pass read
    todo,           \* commits a pass has still to persist
    doing,          \* the commit persist_commit is at
    overlapped,     \* history: two passes have been under way at once
    moves, aborts

git == <<head, hidden, pruned>>
db == <<rows, fts, cursor, shallowFlag>>
pass == <<pc, last, target, shallowSeen, todo, doing>>
bounds == <<moves, aborts>>
vars == <<git, event, db, pass, overlapped, bounds>>

ASSUME CommitAssumption ==
    /\ IsFiniteSet(Commit) /\ None \notin Commit
    /\ Parents \in [Commit -> SUBSET Commit]
    /\ CommittedAt \in [Commit -> Nat]
    /\ {} \in ShallowCuts /\ ShallowCuts \subseteq SUBSET Commit
ASSUME ProcessAssumption ==
    /\ IsFiniteSet(Indexer) /\ Watcher \in Indexer
    /\ Disturb \subseteq Disturbance
    /\ MaxCommits \in Nat /\ MaxMoves \in Nat /\ MaxAborts \in Nat

Log == INSTANCE CommitLog WITH known <- rows

Visible(c) == Reach(c, hidden)

PassPc == {"idle", "head", "walk", "row", "wipe", "insert"}
Busy(p) == pc[p] # "idle"
Persisting(p) == pc[p] \in {"row", "wipe", "insert"}

Init ==
    /\ head = None /\ hidden \in ShallowCuts /\ pruned = {}
    /\ event = FALSE
    /\ rows = {} /\ fts = [c \in Commit |-> 0]
    /\ cursor = None /\ shallowFlag = FALSE
    /\ pc = [p \in Indexer |-> "idle"]
    /\ last = [p \in Indexer |-> None]
    /\ target = [p \in Indexer |-> None]
    /\ shallowSeen = [p \in Indexer |-> FALSE]
    /\ todo = [p \in Indexer |-> {}]
    /\ doing = [p \in Indexer |-> None]
    /\ overlapped = FALSE
    /\ moves = 0 /\ aborts = 0

--------------------------------------------------------------------------------
(* git, outside nibdex                                                     *)

(* A commit, checkout, reset, rebase, pull: HEAD resolves to c from now on *)
(* and the watcher gets an event.                                          *)
MoveHead(c) ==
    /\ moves < MaxMoves /\ c # head /\ c \notin hidden
    /\ \/ "refetch" \in Disturb
       \/ Visible(c) \intersect pruned = {}
    /\ \/ "switch" \in Disturb
       \/ \A p \in Indexer : pc[p] # "walk"
       \/ Visible(head) \subseteq Visible(c)
    /\ head' = c
    /\ pruned' = pruned \ Visible(c)
    /\ event' = TRUE
    /\ moves' = moves + 1
    /\ UNCHANGED <<hidden, db, pass, overlapped, aborts>>

(* gc removes an indexed commit HEAD no longer reaches, with everything    *)
(* built on it.                                                            *)
Prune(c) ==
    /\ c \in rows \ (Visible(head) \union pruned)
    /\ pruned' = pruned \union {d \in Commit : c \in Ancestry[d]}
    /\ UNCHANGED <<head, hidden, event, db, pass, overlapped, bounds>>

(* `git fetch --unshallow`, in UnshallowSpec only                          *)
Unshallow ==
    /\ hidden # {}
    /\ hidden' = {}
    /\ UNCHANGED <<head, pruned, event, db, pass, overlapped, bounds>>

--------------------------------------------------------------------------------
(* One pass: index_one_repo                                                *)

(* SELECT last_indexed_oid.  The watcher starts on an event, `nibdex       *)
(* index` when the user says so.                                           *)
Begin(p) ==
    /\ pc[p] = "idle"
    /\ p = Watcher => event
    /\ event' = (event /\ p # Watcher)
    /\ last' = [last EXCEPT ![p] = cursor]
    /\ pc' = [pc EXCEPT ![p] = "head"]
    /\ overlapped' = (overlapped \/ \E q \in Indexer \ {p} : Busy(q))
    /\ UNCHANGED <<git, db, target, shallowSeen, todo, doing, bounds>>

(* repo.is_shallow() and repo.head()                                       *)
ReadHead(p) ==
    /\ pc[p] = "head"
    /\ target' = [target EXCEPT ![p] = head]
    /\ shallowSeen' = [shallowSeen EXCEPT ![p] = hidden # {}]
    /\ pc' = [pc EXCEPT ![p] = "walk"]
    /\ UNCHANGED <<git, event, db, last, todo, doing, overlapped, bounds>>

(* The commits a walk from HEAD yields: hide(last) drops what the cursor   *)
(* reaches, and fails silently when the object is gone.                    *)
NotHidden(oid) ==
    Visible(head) \ (IF oid \in pruned THEN {} ELSE Visible(oid))

NewestOf(S) == {c \in S : \A d \in S : CommittedAt[d] <= CommittedAt[c]}

(* The first n commits of S in walk order, newest first; ties either way   *)
FirstOf(S, n) ==
    IF Cardinality(S) <= n THEN {S}
    ELSE {T \in SUBSET S :
            /\ Cardinality(T) = n
            /\ \A c \in T, d \in S \ T : CommittedAt[d] <= CommittedAt[c]}

(* push_head(), hide(), and the collecting loop.  push_head resolves HEAD  *)
(* a second time; an unborn HEAD ends the extraction with no commit.  A    *)
(* repository whose HEAD could not be read takes its cursor from the first *)
(* commit walked.                                                          *)
Walk(p) ==
    /\ pc[p] = "walk"
    /\ \E T \in FirstOf(NotHidden(last[p]), MaxCommits) :
        /\ todo' = [todo EXCEPT ![p] = T]
        /\ IF target[p] # None \/ T = {}
           THEN UNCHANGED target
           ELSE \E c \in NewestOf(T) : target' = [target EXCEPT ![p] = c]
    /\ pc' = [pc EXCEPT ![p] = "row"]
    /\ UNCHANGED <<git, event, db, last, shallowSeen, doing, overlapped, bounds>>

(* persist_commit, its three statements: UPSERT the row, DELETE its FTS    *)
(* rows, INSERT one.                                                       *)
PersistRow(p) ==
    /\ pc[p] = "row"
    /\ \E c \in NewestOf(todo[p]) :
        /\ rows' = rows \union {c}
        /\ doing' = [doing EXCEPT ![p] = c]
    /\ pc' = [pc EXCEPT ![p] = "wipe"]
    /\ UNCHANGED <<git, event, fts, cursor, shallowFlag, last, target,
                   shallowSeen, todo, overlapped, bounds>>

(* Mutant of WipeFts: INSERT alone, as if FTS5 had an UPSERT.              *)
WipeFtsSkipped(p) ==
    /\ pc[p] = "wipe"
    /\ pc' = [pc EXCEPT ![p] = "insert"]
    /\ UNCHANGED <<git, event, db, last, target, shallowSeen, todo, doing,
                   overlapped, bounds>>

WipeFts(p) ==
    /\ pc[p] = "wipe"
    /\ fts' = [fts EXCEPT ![doing[p]] = 0]
    /\ pc' = [pc EXCEPT ![p] = "insert"]
    /\ UNCHANGED <<git, event, rows, cursor, shallowFlag, last, target,
                   shallowSeen, todo, doing, overlapped, bounds>>

InsertFts(p) ==
    /\ pc[p] = "insert"
    /\ fts' = [fts EXCEPT ![doing[p]] = @ + 1]
    /\ todo' = [todo EXCEPT ![p] = @ \ {doing[p]}]
    /\ doing' = [doing EXCEPT ![p] = None]
    /\ pc' = [pc EXCEPT ![p] = "row"]
    /\ UNCHANGED <<git, event, rows, cursor, shallowFlag, last, target,
                   shallowSeen, overlapped, bounds>>

(* The end of a pass: its locals are gone.                                 *)
Return(p) ==
    /\ pc' = [pc EXCEPT ![p] = "idle"]
    /\ last' = [last EXCEPT ![p] = None]
    /\ target' = [target EXCEPT ![p] = None]
    /\ shallowSeen' = [shallowSeen EXCEPT ![p] = FALSE]
    /\ todo' = [todo EXCEPT ![p] = {}]
    /\ doing' = [doing EXCEPT ![p] = None]

(* The UPSERT of indexed_repos, skipped when there is no commit to name    *)
SaveCursor(p) ==
    /\ cursor' = IF target[p] = None THEN cursor ELSE target[p]
    /\ shallowFlag' = IF target[p] = None THEN shallowFlag ELSE shallowSeen[p]

(* Mutants of Finish: the cursor saved while rows it stands for are owed;  *)
(* is_shallow left out of the UPSERT, at its DEFAULT 0; the events that    *)
(* arrived during the pass taken as served by it.                          *)
FinishEarly(p) ==
    /\ pc[p] = "row"
    /\ SaveCursor(p) /\ Return(p)
    /\ UNCHANGED <<git, event, rows, fts, overlapped, bounds>>

FinishNoFlag(p) ==
    /\ pc[p] = "row" /\ todo[p] = {}
    /\ cursor' = IF target[p] = None THEN cursor ELSE target[p]
    /\ UNCHANGED shallowFlag
    /\ Return(p)
    /\ UNCHANGED <<git, event, rows, fts, overlapped, bounds>>

FinishDropsEvent(p) ==
    /\ pc[p] = "row" /\ todo[p] = {}
    /\ SaveCursor(p) /\ Return(p)
    /\ event' = (event /\ p # Watcher)
    /\ UNCHANGED <<git, rows, fts, overlapped, bounds>>

Finish(p) ==
    /\ pc[p] = "row" /\ todo[p] = {}
    /\ SaveCursor(p) /\ Return(p)
    /\ UNCHANGED <<git, event, rows, fts, overlapped, bounds>>

(* An error returned by any statement, or a crash.  The dispatch loop logs *)
(* the error and drops the event it was serving; a crashed watcher also    *)
(* loses the event still queued.                                           *)
Abort(p) ==
    /\ Busy(p) /\ aborts < MaxAborts
    /\ aborts' = aborts + 1
    /\ Return(p)
    /\ UNCHANGED event \/ (p = Watcher /\ event' = FALSE)
    /\ UNCHANGED <<git, db, overlapped, moves>>

Step(p) ==
    \/ ReadHead(p) \/ Walk(p)
    \/ PersistRow(p) \/ WipeFts(p) \/ InsertFts(p) \/ Finish(p)

Next ==
    \/ \E c \in Commit \union {None} : MoveHead(c)
    \/ \E c \in Commit : Prune(c)
    \/ \E p \in Indexer : Begin(p) \/ Step(p) \/ Abort(p)

Spec == Init /\ [][Next]_vars

(* The same with a shallow clone that may be completed                     *)
UnshallowSpec == Init /\ [][Next \/ Unshallow]_vars

(* The watcher's loop takes the next event; a pass under way goes on.  The *)
(* user owes nobody a `nibdex index`.                                      *)
Fairness ==
    /\ WF_vars(Begin(Watcher))
    /\ \A p \in Indexer : WF_vars(Step(p))

FairSpec == Spec /\ Fairness

--------------------------------------------------------------------------------
(* Type correctness.  Between its two FTS statements a pass is always at a *)
(* commit it still owes, and an entry never has more search rows than      *)
(* there are passes that may insert one without the other's wipe between.  *)
TypeOK ==
    /\ head \in Commit \union {None} /\ cursor \in Commit \union {None}
    /\ hidden \subseteq Commit /\ pruned \subseteq Commit
    /\ event \in BOOLEAN /\ overlapped \in BOOLEAN /\ shallowFlag \in BOOLEAN
    /\ rows \subseteq Commit
    /\ fts \in [Commit -> Nat]
    /\ pc \in [Indexer -> PassPc]
    /\ last \in [Indexer -> Commit \union {None}]
    /\ target \in [Indexer -> Commit \union {None}]
    /\ shallowSeen \in [Indexer -> BOOLEAN]
    /\ todo \in [Indexer -> SUBSET Commit]
    /\ doing \in [Indexer -> Commit \union {None}]
    /\ \A p \in Indexer : pc[p] \in {"wipe", "insert"} => doing[p] \in todo[p]
    /\ moves \in Nat /\ aborts \in Nat

(* The cursor never runs ahead of the rows: whatever passes overlap, fail  *)
(* or crash, every commit the cursor reaches has its row, so hiding the    *)
(* cursor's history from the next walk (index_one_repo) loses nothing.     *)
CursorCovered == Visible(cursor) \subseteq rows

(* As long as no two passes have overlapped, an entry has at most one      *)
(* search row, and every commit behind the cursor exactly one: a pass that *)
(* died between DELETE and INSERT (persist_commit) is always repaired.     *)
SearchableBehindCursor ==
    ~overlapped =>
        /\ \A c \in Commit : fts[c] <= 1
        /\ cursor \notin pruned => \A c \in Visible(cursor) : fts[c] = 1

(* check().shallow_repos is honest: a repository not listed there has the  *)
(* whole history behind its cursor indexed.                                *)
ShallowIsHonest ==
    cursor # None /\ ~shallowFlag => Ancestry[cursor] \subseteq rows

(* The corpus keeps the promise of CommitLog.                              *)
ImplementsCommitLog == Log!Spec

(* persist_commit's wipe + insert leaves one search row per commit: at     *)
(* rest, whether or not passes have overlapped.                            *)
OneSearchRowEach ==
    (\A p \in Indexer : ~Busy(p)) /\ cursor \notin pruned =>
        \A c \in Visible(cursor) : fts[c] = 1

(* Once passes stop failing, an event the watcher holds is served: the     *)
(* history of the HEAD it announced, or of a later one, gets its rows.     *)
EventServed ==
    event /\ aborts = MaxAborts ~> Visible(head) \subseteq rows
================================================================================
