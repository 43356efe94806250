# TLA+ models of nibdex

nibdex keeps a SQLite index over a workspace (markdown files, commit history,
source, AI-session transcripts, diffs, schema dumps) and answers from it: over
MCP, in a PreToolUse hook, on the command line. The risk in it is that an index
can be wrong and still answer: a commit hidden behind a cursor, a hit that leads
to another section, a watcher that is reported dead, prose of one domain in the
database of another. These modules model how the index is kept and how it is
asked, statement by statement, against everything that happens around it.

Every module is read off `src/`; `PROJECT.json` maps each definition to its
lines, lists the hazards, the runs, one mutant per property (a plausible bug
that makes TLC find the property violated), the theorems and the findings.

## Inventory

| Part | State | Operations | Interacts with |
|---|---|---|---|
| Commit corpus (`indexer.rs`, `extractor/git_commits.rs`) | `commit_entries`, `indexed_repos` (cursor, shallow flag), its part of `search_index` | `index_one_repo`: read cursor, walk, persist each commit, save cursor | git; run by the watcher and by `nibdex index` |
| Markdown corpora (`indexer.rs`, `extractor/*.rs`) | `documents`, `session_entries`, `memory_entries`, `design_doc_sections`, `search_index` | upsert, extract, persist, sweep, delete | the file system; watcher and `nibdex index` write the same tables without a common lock |
| Watcher daemon (`watcher.rs`, `main.rs`, `http_server.rs`) | debouncer, event channel, `file_watcher_state` | start, dispatch, heartbeat, shutdown | notify, the corpora, `check()` in other processes |
| Source corpus (`source_index.rs`) | `source_chunks` with hash, mtime, provenance | one transaction per repository; freshness check and relocation at query time | git, working tree, commit corpus, nested repositories |
| Session edges (`session_index.rs`) | `session_edges`, `session_activity` | parse transcripts, admit, insert, bind to commits, bind late | transcripts that grow and are deleted; commits; the domain partition |
| Domains, triage, audit (`domains.rs`, `triage.rs`, `audit.rs`) | `.nibdex-domains.toml` | load, `includes`; audit, stage, triage, label | decide what `full_scan` and the session pass may store |
| Full scan, schema dumps (`indexer.rs`, `schema_index.rs`) | all corpora; `schema_objects` | corpus by corpus; wipe and rebuild a dump's tables | the label file, dump files, links in the tree |
| Change map (`diff_index.rs`) | `diff_hunks` and its index | wipe and rebuild from `git log -p`; resolve code to its authors | git, commit corpus, session edges |
| Cost ledger, metrics sink (`cost_ledger.rs`, `metrics_sink.rs`, `mcp/telemetry.rs`) | JSONL file, `cost_ledger_events`, `op_measurements` | record, replay at start | one server per client, on one file and one database |
| Query tools (`mcp/`) | none | count, OR fall-back, rows, advice, diagnosis, measurement | read everything; passes commit between their statements |
| Hook (`hook.rs`) | an append-only log | read the command, find the database, ask, print | databases up the directory tree |
| Thread metric, export, rescore | reports | one-shot | read everything |

Hard behaviour is where statements commit one by one while another process
works on the same rows, where a process may stop between two of them, where
state is read and used later (cursor, ids, HEAD, listings, mtimes, the time of
a batch, the label file), and where something must still happen afterwards
(events, shutdown, replay).

What makes each part correct:

- *Commits*: nothing the cursor hides is missing from the index; every indexed
  commit can be found once; events lead to an indexed HEAD; a repository not
  called shallow is complete.
- *Markdown*: what has been carried through is mirrored, no more and no less;
  a hit leads to the text that matched; clearing up takes only garbage.
- *Daemon*: changes are not forgotten; a watcher is reported exactly while it
  lives, give or take the window and the heartbeats that fail; a signalled
  process ends, in order.
- *Source*: a file is indexed whole or not; a hit's text, place and provenance
  are those of the file or said not to be; nested repositories keep their rows.
- *Sessions and domains*: nothing of another domain or workspace is stored;
  every edit that may be is, once, and a pass only adds.
- *Ledger*: every event counted once and, after a replay, at all; what a failed
  write spoils in the sink is bounded.
- *Change map*: exactly the added blocks of the history, each found by its text.
- *Answers*: no row lost to a concurrent pass, silence explained, the hook's
  answer from the caller's own repository, scope and question, and each of its
  firings told by the log, as far as what failed on the way allows.

## Modules

| Module | Models |
|---|---|
| `CommitHistory` | the commit graph and what a revision walk reaches |
| `CommitLog` | abstract: the set of known commits grows, the cursor advances only over known history |
| `CommitIndex` | `index_one_repo`, one action per SQL statement or git read, for any number of passes |
| `FileCorpus` | the markdown corpora: jobs of the watcher and of `full_scan`, one action per statement |
| `WatcherDaemon` | the processes `serve` and `watch`: main, HTTP, `serve_with`, both loops, the shutdown |
| `SourceIndex` | `index_source_repo` of a container and a nested repository, the freshness gate |
| `CodeLocation` | the windows of a file and `relocate_chunk` |
| `Domains` | `.nibdex-domains.toml`: what a domain includes |
| `SessionEdges` | `index_sessions`: scopes, router, taint ratchet, prose, commit binding, tallies |
| `FullScan` | `full_scan --domain` over a tree, with schema dumps |
| `DiffIndex` | `index_diffs`, the log read line by line |
| `CostLedger` | sink, replay and ledger under servers that crash and restart |
| `Queries` | the seven query tools from request to answer and measurements |
| `Hook`, `HookCommand` | hook processes from call to answer and their log; what one reads out of a shell command |
| `Extractors` | the parsers of design docs, memory files, session logs; `discover_repos` |
| `Provenance`, `ThreadMetric` | `resolve_from_matches` and the layers; the metric over a sample of terms |
| `Savings` | what a call is said to have saved: models, windows, export, rescore |
| `Triage` | audit, staging, triage and `nibdex label` over a label file and a tree |
| `*Proofs` | theorems about the module of that name; `ServiceProofs` about `WatcherDaemon`, `Hook` and `Queries`; at the end of `SourceIndexProofs`, `DiffIndexProofs`, `CostLedgerProofs` and `FullScanProofs` about `CodeLocation`, `Provenance`, `Savings`, and `Domains` with `Triage` |
| `MC*` | constants for TLC; `MCAlgorithms` calls the pure modules |

How they compose: `FullScan` and `Triage` extend `Domains`, `ThreadMetric` extends
`Provenance`; `Hook` is asked about scopes with `HookCommand`;
`CommitIndex` instantiates `CommitLog` as what it implements. `SourceIndex`,
`SessionEdges` and `DiffIndex` keep of the commit corpus only which commits have
a row, which is what they read of it. `CommitIndex`, `FileCorpus` and
`SourceIndex` are what a dispatch of `WatcherDaemon` does; the daemon model
keeps of a dispatch that it reads the path at that moment, takes time and may
fail. They share no table but `search_index`, whose rows are apart by
`source_table`, so they are checked separately.

### CommitIndex

`rows`, `fts`, `cursor`, `shallowFlag` are the tables; `head`, `hidden`,
`pruned` is git; a pass has a program counter and its locals (`last`, `target`,
`shallowSeen`, `todo`, `doing`). `Begin` reads the cursor, `ReadHead` and `Walk`
are `extract_commits` (HEAD is read in both, as in the code), then each commit is
`PersistRow`, `WipeFts`, `InsertFts`, and `Finish` saves the cursor. `Abort` is
an error or a crash anywhere. An FTS row is a count per commit, as text plays
no part. Walk order is newest first with ties either way. `Disturb` switches on
what the code does not withstand: `"switch"` (HEAD leaves its line between the
two reads) and `"refetch"` (a pruned commit comes back); `UnshallowSpec` adds
the completion of a shallow clone.

### FileCorpus

A file's content is a set of entries (key and text), so a heading renamed, a
session dropped, a memory renamed are changes of a set. `docs` holds document
ids, `rows` the child rows, `fts` a bag, so that duplicated search rows would
show. Ids are reused as SQLite reuses them without AUTOINCREMENT. A job goes
from `exists` (watcher) or `doc` (scan) through the statements of its kind.
`missed` is a history variable: files whose last change no job has carried
through, because the watcher was down, a job failed, or a keyed file yielded no
entry and was left alone, as the code does. `Disturb` keeps apart what is known
to go wrong: `"sharedKeys"` (two projects), `"tornSweep"` (a job ends between
the two statements of a delete-and-prune pair or of a memory's update), and
`"clash"` (two processes on one file or one keyed table).

### WatcherDaemon

Times are ages: `rowAge` is now minus `last_heartbeat_ts`, so the state space is
finite with no bound on the clock. `Tick` passes time only while nothing is
due, which says that the runtime serves a ready task or an elapsed timer within
a unit. A tick's statement waits for the write lock (`Busy`) and may fail at any
time, as the lock may be held by the watcher's own batch, a query or another
process; the error is printed, and the interval keeps to its times.
`RecordBatch` writes the age of the batch's own start time, as the code binds
`now_ts` taken before the dispatch, or fails and writes nothing. `lost` counts
the heartbeats that failed since a write to the row last got through; `LostFit`
says that they leave room in the window, and `AliveReported` holds for as long
as they do. With the code's 10 s, 60 s and 5 s, and batches of up to 5 s, that is
up to four in a row. A failed bind is a `Start` into `main = "failed"`. `lost`,
`idleFor`, `owed` and `failed` are history variables. Of `file_watcher_state`
only the heartbeat is kept.

### SourceIndex and CodeLocation

`disk` and `stamp` are the working tree, `owner` and `touched` what git says of
a file, `db` the row of each file with its chunks and search rows. `List` is the
enumeration before the transaction; the transaction is a view taken by the
first SELECT (`open`, `view`), the write lock is taken by the first write and
refused to a snapshot that is behind, as SQLite does for a deferred transaction.
`Read` and `Store` are apart, as `fs::read` and `file_mtime` are. `dirty` is
history: the files whose latest no finished pass has seen. `Disturb` holds
`"midRead"`, `"sameSecond"` and `"absorb"` (a nested repository dissolves into
its container; in the run).

`CodeLocation` takes a file as the sequence of its lines. `Chunks` are the
windows, with the last empty line lost by `join` and `lines()`; `RelocateChunk`
gives the set of shifts the code may return, more than one where the order of a
`HashMap` decides. `Anchored` states independently where a hit may lead.

### SessionEdges and Domains

A script says what a transcript is going to hold, `log` how much of it is
there. A line has a message (`group`), a directory, text or not, edits, other
touches, searches. A pass opens a transaction, takes each transcript with
`EdgesOf` (parse, taint, prose, route), inserts what is not there, binds to
commits and, with `--rebuild`, wipes what it replaces. A database is of one
domain or of a whole workspace (`partitioned`), and may be `wide` (passes that
name their slugs). `Disturb`: `"growing"` (a pass meets half a message) and
`"merge"` (older commits become part of HEAD; in the run).
An edit made from outside the workspace, in a wide database, gets its edge, but
a later pass with a scope does not meet it and so does not bind it:
`BoundToOldest` is about the workspace's edges. The attempt to prove it without
that condition found this; a script of `MCSessionEdges` has such an edit.

`Domains` works on paths as sequences of components: `Includes` finds the
deepest entry, with the rules for mixed parents and nested repositories.

### FullScan

A thing of the disk is an item with the place where it is found (`at`) and the
place its bytes are (`real`), which differ for links. `Extract` is one corpus,
in the code's order; it uses the configuration read at the start. Dumps are
opened, deleted and rewritten row by row, as outside a transaction. `Widen` and
`Rebuild` are the user: labels may only be narrowed with a new database, as the
documentation demands.

### DiffIndex

A run wipes the index, then the rows, of all repositories, then reads the log
line by line; a block is two statements. Ids start anew after a wipe. A run may
stop anywhere.

### CostLedger

The sink is the sequence of the fragments that were appended to it; the line of
a call is three, two halves of its text and the newline. A write that fails
(`EmitFails`) or is killed (`Crash`) may have written any number of what the
`BufWriter` held, also of earlier calls; what it keeps (`Rest`) is written by the
next call, behind whatever another server has appended meanwhile. A line is
what begins after a newline, and it is `LegibleAt` its place when it is the whole
text of one call. `torn` is history: the calls whose line a fault has cut. With
one torn the file may be no text at all, and `Start` then serves without a replay,
as it does when a read fails. A call has a key (time and tool); two calls may
share it. `Start`, `LoadKeys`, `Fill` are the replay, each of which may fail.
`Overlap = FALSE` says that no server starts while another records.

### Queries and Hook

A row of `Queries` is its place in the order of bm25. Each statement of a call
is a step (count, retry, select, advice, diagnosis, newest, measure, emit,
book), each may fail, and a commit may take or bring rows between any two. What
a statement orders is `InOrder` of a set, by rank or by time. A firing of `Hook`
goes through its databases one query at a time (`TakeUp`, `OpenNamed` or
`NextPlace` and `TakeDb`, `FindRoot`, `RunQuery`, `Lookup`, `LogFiring`,
`EmitAnswer`) while passes write them and other firings run; the agent may give
up on it at any step (`GiveUp`), also between logging and printing. A chunk is
its place in the order of the ranks here, too.

Whatever fails in a firing is passed over, and each such branch is in the model:
a database that cannot be opened or asked is taken for one that covers nothing
(`NextPlace`), a caller whose repository cannot be read for one that stands in
none (`FindRoot`), a failed lookup for a table that is not there (`Lookup`), and a
line that cannot be logged, or only a part of it, is not missed (`LogFiring`). The
history fields `skipped`, `blind`, `missed` and `unlogged` say that it happened,
so that the properties can say what an answer is still worth: it is of the
nearest database among those that could be asked, and of the caller's
repository unless `blind`. `moved` says that a pass has written since the firing
began; nothing is claimed of its answer then. The log is what was appended,
each piece with how it ends; `Lines` are those its readers can read, none once a
character is cut in half (`IsText`).

### The pure modules

They define operators only and state a law each, which relates what the code
computes to a definition made another way: the sections of a document to its
headings, a term's author to all orders of its matches, an answer of grep to
what grep was asked, the saving in the ledger to that in the export. A state of
`MCAlgorithms` is a call and its answer.

## Runs

| Run | Asks | States |
|---|---|---|
| `commits` | does the cursor hide only what is indexed, is each commit found once, is a shallow repository called so, is an event served; does it implement `CommitLog` | 1,065,516 |
| `corpus_design` | are design docs mirrored | 1,350,793 |
| `corpus_keyed` | are a CLAUDE.md and memory files mirrored, do hits lead to their text, do the sweeps take orphans only | 1,919,933 |
| `daemon` | is a watcher reported while it lives, whatever heartbeats and records fail, and not long after, is no change forgotten and each one read, does shutdown end and in order | 302,537 |
| `source` | is no file half indexed, is a verified hit live, is what passes saw mirrored, does a container spare its nested repository | 2,033,450 |
| `sessions` | does nothing leak, is nothing missing, does a pass only add | 1,202,856 |
| `ledger` | is every call counted once and, after a replay, at all; what may torn writes spoil in the sink | 1,886,669 |
| `scan` | is nothing foreign stored, are the schema tables those of the dumps | 90,730 |
| `diffs` | does no search mislead, is the map the history | 7,446 |
| `hook` | with what may fail on the way: is the answer the caller's, is a hit found where there is one, is every firing told | 1,366,371 |
| `queries` | is no hit lost to a commit, is silence explained, is every row accounted for, is advice free | 917,598 |
| `algorithms` | do the laws of the pure modules hold of every call | 212,456 |

The longest take three minutes with two workers.

### Bounds, and why they are enough

- *Commits*: a root, two branches and their merge; one move of HEAD can go
  forward, sideways, back, or rewrite, and two compose any two of these between
  or during passes; two passes are what interleaving needs, one abort leaves
  every intermediate state behind once.
- *Markdown*: two files of a kind are what renames, shared tables and id reuse
  need; two edits, one scan, one abort or crash. A session may keep its number
  and change its text, a memory changes its name; a memory that keeps its name
  goes through the same `PersistEntry` and `Unindex`, and the theorems hold for
  every content.
- *Daemon*: a queued batch, a dispatched one and a filling debouncer are the
  three places a change can be; the window is the smallest in which one
  heartbeat may be lost unseen and a second one not (the assumptions of
  `MCWatcherDaemon`), so that `LostFit` is both true and false.
- *Source*: a file of the container and one below the nested repository, two
  processes, two changes of files or git, one failed pass. Two changes are a
  change and its undoing, or one for each of two overlapping passes.
- *Sessions*: four pairs of transcripts, chosen so that each rule of admission
  and prose decides once (`MCSessionEdges`); one commit, which may come before,
  during or after a pass, be on a side branch, merged or dropped. With two
  commits and no merges TLC visits 8,957,066 states in five minutes and finds
  nothing else.
- *Ledger*: two servers, three calls, two of them with one key, two faults: a
  short write and a crash in the replay or the write that would make up for it.
- *Scan*: two domains, links from one into the other, a labelled directory that
  is no repository, a shared library labelled later; two edits and two passes,
  so that a failed pass is followed by a whole one.
- *Diffs*: one process, as runs do not overlap; two repositories, three commits with every kind of line the parser
  tells apart; two faults, so that a run follows the wreck of another.
- *Hook*: two firings, which is what a joined line needs; a workspace with two
  repositories in it, a database in the workspace and one in a repository,
  either of which covers, is empty, cannot be asked or is named; one step of a
  pass, one kill and one failure, each anywhere. As many passes before the
  firings began are the contents the databases may have at first.
- *Queries*: five rows with ties in time, session, file and repository, one
  commit and one failed statement anywhere.
- *Algorithms*: all inputs up to the length at which each rule of the code can
  meet each other one (documents and files of four or five lines over a line of
  each kind, commands of four arguments, up to five matches, label files over
  three nested directories).

Deadlock is checked in `commits`, `daemon`, `source`, `sessions`, `ledger` and
`diffs`, where there is always a next step. The other runs switch it off: their
edits, scans and calls are bounded, and a system with nothing left to do rests. Symmetry is used in the corpus runs (files) and
in `hook` (firings) only, where no property is temporal beyond one step.

### Fairness

`CommitIndex!Fairness`: the watcher's loop takes a waiting event and a pass under
way goes on (tokio polls ready tasks). Nobody owes a `nibdex index`.
`EventServed` holds once aborts are used up: the code drops an event whose
dispatch failed and does not retry. `WatcherDaemon!Fairness`: every ready task
runs and time goes on (strong fairness of `Tick`, as an instant may hold
finitely many steps only). Starting, signalling, killing, connecting and
hanging up have none, so `ShutdownEnds` says "ends or a client keeps its
connection". The other modules state safety only: nobody owes a further pass,
and what a finished pass leaves is stated as an invariant.

## Where code and documentation disagree

`PROJECT.json` quotes for each the sentence it contradicts. Where a model shows
it, the model has a switch that keeps it out of the run, and turning the switch
on makes TLC find it:

| Switch | Property violated | What happens |
|---|---|---|
| `CommitIndex`, two passes overlap | `OneSearchRowEach` | a commit keeps two search rows for good |
| `UnshallowSpec` | `ShallowIsHonest` | after `git fetch --unshallow` a repository is called complete and is not |
| `CommitIndex` `"switch"` | `CursorCovered` | a checkout between two reads of HEAD saves a cursor over unwalked history |
| `FileCorpus` `"sharedKeys"`, two CLAUDE.md (`MCTextsApart`) | `SweepsTakeOrphansOnly` | one project's pass deletes the hits of the others' sessions |
| `FileCorpus` `"clash"`, design docs | `SweepsTakeOrphansOnly` | a deletion prunes by ids a concurrent scan was given anew |
| `FileCorpus` `"tornSweep"` | `HitsResolve` | a job that ends between two statements leaves search rows that nobody removes, or that answer for an entry renamed since |
| `WatcherDaemon` as it is | `DropEndsLoop` | dropping the sender ends no idle loop: the debouncer holds another, every shutdown waits out the drain |
| `WatcherDaemon` with `MaxDispatch = 3` | `AliveReported` with `lost = 0` for `LostFit` | a long batch makes a live watcher reported as absent, with no heartbeat lost |
| `SourceIndex` `"midRead"` or `"sameSecond"` | `VerifiedIsLive` | a hit is called verified and is not |
| `SourceIndex` `"absorb"` | `RepoIsOwner` | an unchanged file is answered under the root of a repository that is gone |
| `SourceIndex` as it is | `NotUndone` | an overlapping pass prunes what another has just indexed |
| `SessionEdges` `"growing"` | `ProseIsClean` | prose is stored before the line that taints its message is written |
| `SessionEdges` `"merge"`, two commits | `BoundToOldest` | an edge keeps a commit that is no longer the oldest |
| `CostLedger` `Overlap = TRUE` | `CountedOnce` | two servers that start together both replay a call |
| `FullScan` with `MCCarved` | `NoForeign` | a directory withdrawn inside a labelled repository is stored all the same |
| `DiffIndex` with `PlusDiff` | `MapIsLog` | an added line that begins with `++ ` is taken for a file header |

The others were met in reading and need no state space: the failed bind that
tells no watcher to stop, watch paths that are missing at start, the hook's
`-f` and `--` and its scope by last component, freshness over any repository,
a truncation that is not flagged, the diagnosis that a commit between count and
rows takes away, staging that narrows, labels below an acknowledged directory,
`a` and `a/`, a label that gives a path to a second domain which spells it
otherwise, tables of deleted dumps, files that two corpora leave to each
other, a label that narrows without saying so. Four are branches of `CostLedger`
and `Hook` as they are, and why their properties are worded as they are: a sink
or a log with a character cut in half is never read again, a caller whose
repository cannot be read is answered from all of them, a line that cannot be
logged is in no count.

## Proofs

All theorems are for every value of the constants, within the named assumptions.

`CommitIndexProofs`: for any finite commit graph, any number of passes and
aborts,

- `TypeCorrect`, by induction over the actions. It carries that a pass between
  its search statements is at a commit it still owes, which `InsertFts` needs.
- `CursorAlwaysCovered`. `CursorCovered` is not inductive: a pass saves a cursor
  it computed long before, when rows and cursor were others. The invariant adds
  that every cursor a pass has read is covered, and that while a pass persists,
  the history of its target is covered by the rows together with what it still
  owes. `Walk` establishes this from the transitivity of reachability: what it
  hides is covered because the cursor it read was.
- `RefinesCommitLog`: `PersistRow` maps to `Learn`, `Finish` to `Advance`, all
  else stutters, from the same invariant.
- `SearchExactBehindCursor`: the same argument about search rows, for histories
  without overlap, where only the commit under a pass's hands may be without
  its row. Needs that pruned commits do not come back.
- `ShallowAlwaysHonest`: a pass that saw no shallow boundary had none, as the
  boundary does not move.

Assumed are `Uncapped` (the repository fits in `--max-commits-per-repo`) and
`Steady` (HEAD stays on its line during a pass's two reads).

`FileCorpusProofs`, for any files, kinds, contents, number of scans, edits,
failures and crashes:

- `TypeCorrect`, with no assumption. `NewId` gives nobody's id because a
  finite set of numbers has a largest; that is proved by well-founded induction
  over the subsets of one set, which stays first-order. Ids come back after a
  deletion, so uniqueness is of the rows that are there, never over time.
- `SweepsSpareTheLiving`, assuming `Apart` (`"clash"` is off: no two jobs on one
  file or one keyed table, none beside a deletion) and `OneSession` (one
  CLAUDE.md, since the sweep of a session pass takes the search rows of every
  other document; the finding above shows what two do). `ApartInv` says that a
  job holds the document of its file and that a deletion between its statements
  has exactly the ids it dropped, none of which any row has by then.
- `HitsAlwaysResolve`, assuming `Apart` and `Untorn`. `HitsResolve` speaks of
  quiet states only. `HitInv` accounts for every hit in every state: it leads to
  its row, or a job is between its statements and will remove it, or it is of
  a file whose pass ended early and which is missed or queued.
- `ServedIsMirrored`, assuming the three above, `KeysStayApart` (two files of a
  kind share no key) and `NumberedOnce` (no text says a session number or memory
  name twice: the second would overwrite the first's row). `MirrorInv` says of
  each job that it has read the file as it is, or the file has changed since and
  is queued or missed; that the entries it is done with have one row and one
  search row; and of each file that nobody is at that it is mirrored.

The proofs go through one lemma per action, `<Action>Does`, which says what
the action does to each table and each field of its job. `corpus_keyed` and
`corpus_design` are instances in which every assumption holds.

`ServiceProofs`, of the daemon:

- `AliveAlwaysReported`, for any intervals. The age of the row is not inductive by
  itself; while the lost heartbeats leave room, `Aged` bounds it by the longest
  batch, whose record may have taken it back, an interval for each heartbeat
  lost since, and the age of the last tick that is dealt with.
- `GoneNotReported`, with no assumption: once nothing ticks and nothing
  dispatches, the row is at least as old as the silence.
- `NoChangeForgotten`: what is owed is in the debouncer, the channel or the
  batch, an invariant over sequences of batches.
- `AlwaysJoinedInTime`: a told watcher stops before time passes, and main has
  waited no longer than the drain it waits for, so the drain is over first.

`ServiceProofs`, of the hook, with no assumption but what paths are
(`HookAssumption`): for any tree, databases, ranking, limits, failures and number
of firings,

- `AnswersAreTheirs` and `HitsAreFound`. Both speak of the end of a firing only;
  `SoundAs` says of each one, at every step, what it has found out so far: that
  the places it has passed cover nothing or could not be asked, and none of those
  ahead is called skipped, so that the one it takes is the nearest of the rest;
  that the repository it has found is the innermost, or it is blind; that its
  rows are the caller's, or, when it has none, that there are none to have. All
  of it holds while no pass has written since the firing began (`moved`), and is
  carried through every step of another firing. That the innermost repository
  exists and is one, that the nearest database is one, and that the best `n` of a
  set with at most `n` members are all of them, are lemmas about the operators.
- `FiringsAreTold`: `ToldAs` says of each firing, by its step, that it has appended
  once at most, with which outcome, and a whole line unless the write failed. What
  was appended whole can be read unless it joins what is before it. The counts of
  `deliveries_for` follow by a bijection between the lines that can be read and
  their firings, and lie between what was surely and what was possibly printed.

`ServiceProofs`, of a call of a query tool, assuming what the constants are
(`QueriesAssumption`: limits are positive, a term's narrow matches are among its
wide ones, no malformed query is plain): for any index, queries, limits,
budgets, and any number of commits and failures. `QueryInv` has five parts.

- `AdviceFailsNoCall`: `Measured` says for each step of a call which statements
  may have failed by then, and what has been measured.
- `QuietAnswersAgree`: `Quiet` says, while nothing was committed or lost since the
  call began, that the total is that of the index as it is, narrow or wide, and
  the rows are what the statement selects from it. That as many sessions
  are shown as counted needs that each session has one latest edit.
- `NoAnswerLosesARow`. `NoHitLost` is not inductive: what is lost by a wide answer
  is lost at `Count`. `NoneLost` adds that a call that retries, or is wide, has
  been without a match among the rows that stay, and that the rows it holds
  account for each of those that match; a commit can only take rows out of the
  latter. That a statement's rows account for all it selects from
  (`SelectedReads`) is a lemma about sorting and cutting for each tool.
- `NothingReadIsLost` is a lemma about any sequence of rows (`NothingReadIsHidden`,
  `EveryRowHasText`, `SpentIsBounded`). The budget is a recursive function; what
  is needed of it (it exists, and exceeds the budget by one body at most) is
  proved by the least place at which it would fail.

`SourceIndexProofs`, for any files, processes, edits and failures:

- `TypeCorrect` carries that the holder of the lock is in its transaction and
  not behind.
- `NeverHalfIndexed`: rows of the committed tables and of every open view are
  whole, since a document is rewritten in one step of a view that is published
  at once.
- `ContainerSparesNested`: what a pass over the container publishes differs
  from the committed rows of nested files only where its view is not behind
  and holds them too.
- `VerifiedHitsAreLive`, assuming `Discernible` (no change between a read and
  its stat, none in the second of the stored time). The invariant says of every
  stored row, of every row of an open view, and of the text in a pass's hands
  that its stamp, when it is that of the file, comes with the file's text.
- `SeenIsIndexed`, with no assumption: `Mirror` survives every edit that breaks
  `VerifiedIsLive`, because a pass counts as having seen only what it read.
  `MirrorInv` says of each pass, and of each file it still counts as seen, that
  its list and what it has read are as git and the disk have them, and that the
  view holds the row of each file it is done with and of no file it dropped; and
  that a view which is not behind and has written nothing is the database, so
  that what a pass skips by its hash is still there when it commits.

`SourceIndexProofs`, of the place of a hit, for any texts and any size of the
windows, assuming `AsInSource` (the constants of `source_index.rs`):

- `EveryLineTiled`: the windows are the stretches of `CHUNK_LINES` that have a text,
  and a number of the file is in one stretch.
- `HitsAreAnchored`: whichever of the shifts `relocate_chunk` returns, the place is
  in the file as it is. A copy of the window that is taken is the nearest; a vote
  that is taken has at least half of the distinctive lines behind it, and a shift
  with the most votes exists because a finite set of numbers has a largest.
  What is called stale has neither a copy nor such a shift.

`SessionEdgesProofs`: `NothingLeaks`, assuming `BetweenMessages`. `LeakInv` says
that every transcript ends between two messages, so that the taint of a line's
group is already known when a pass meets it and never grows afterwards; that a
pass is scoped unless the database is wide; and that each row of the tables and
of the open transaction is sound by itself, which is what a pass preserves.
`NothingLost`, with no assumption, is `AllStored`, the half of `Complete` that is
about rows. `NothingMissing`, assuming `NoMerge` (no side branch becomes part of
HEAD; the finding with two commits shows the need), adds their binding.
`PassesAdd`, with no assumption, is `Additive`.
What is owed of a transcript is the edits that are the workspace's and the
database's. `FullInv` says that the rows of the database, and those of an open
transaction, are of their own ids, each of an edit that was read and each with
its search row; that the transaction holds what is owed of every transcript the
pass has read, bound unless commits were indexed behind its back; that with
`--rebuild` the sessions of what it has read are not dropped again; that a row
it has and the database has not is settled only if the pass has read it; and
that what waits to be indexed is younger than what is, so that a bound row stays
bound to the oldest. That a pass which met no repository with commits needs no
binding, because there are none, is part of it.

`CostLedgerProofs`: `ReplayReconciles`, for any number of servers and any keys:
a key is in `seen` only when a row has it, and what is left to fill is the rest
of what was read. `NeverCountedTwice`, assuming `InTurn`: a call in the ledger is
known to the replay under way, and a call that is being recorded is in nobody's
replay. `SinkStaysALog`, with no assumption, of servers that overlap or not:
`SinkInv` says that a fragment is in the file, in one server's buffer or in one
server's hands, and in one of these once; and that the file, and what each server
has yet to write, is a `Log`: fragments follow each other as in a line, or one line
ends and another begins, where only the line of a torn call ends too early or
begins too late. Two logs put together are a log, and so is a log cut anywhere
once the call at the cut counts as torn, which is all that writes, short writes,
later ones and crashes do. A log with a line that cannot be read has a torn call
in that line. A fault cuts two lines at most: the one the write stopped in, and
that of its call, when the buffer had room for a part of it.

`FullScanProofs`: `PassMakesSchemaCurrent`: while a dump is being written its
rows and what is left to insert are its file's, and dumps done stay done.
`NothingForeign`, assuming `Uncarved`: the items of each corpus belong to
the domain at the place the label file is asked about, and `Uncarved` carries
that to the place their bytes are. TLC confirms it of the instance of `scan`;
`MCCarved` shows it is needed.

`DiffIndexProofs`: `HitsNeverMislead`, assuming `InTurn` (no two runs overlap).
Ids are given out without a gap, so the next one is nobody's, and an index row
always has the row of its id with its text: the wipe takes the index first.
`MapAlwaysTheLog`, assuming `InTurn` and `WellFormed`, what `git log -p` prints: an
added line has a hunk, a file and a commit above it, and none begins with `++ `
(the finding above shows that the parser takes one for a header). `MapInv` relates
the parser to a description of the log that knows no parser: its registers are
what the last commit, file and hunk line say, the line number is the hunk's plus
the added lines since, the block in hand is the added lines up to the last one
read, and what is stored is the runs of added lines that have ended. It needs no
induction over the log: each fact moves on by one line. TLC finds `WellFormed`
true of the instance of `diffs`.

`DiffIndexProofs`, of the resolving of matches, for any matches with a time and a
rank (`AreMatches`): `EachCommitToldOnce` is `Partitions`, `AnyOrderResolvesTheSame`
is `OrderFree`. Both rest on there being one representative of each commit: the
match that ranks best exists because a finite set has one with the fewest below it.
Without ties it is the same match at whatever place it comes; with ties it may not
be, as the finding about `diff_index.rs:473` says.

`CostLedgerProofs`, of one call: `SavingsAreHonest` is `HonestSaving` for any model
and call of the types of `calibration.rs`. It is arithmetic: with a factor of one
or more, the rounded product is no less than the result.

`FullScanProofs`, of the label file, for any labels and tree:

- `WithdrawalGrantsNothing` and `DecisionWidensOnlyItsLabel` come from one lemma,
  `NarrowerIncludes`: what a domain has after a change of the entries it had before,
  if every path is still there, its own entries above what it has are no new
  ones, and none of nobody's was taken from their place. The second assumes `IsBoundary`: no path is both listed and
  undecided. `parse_validated` asks this of the strings only, and without it the
  theorem is false (the finding about `triage.rs:269`); TLC's inputs write each
  path one way. It is of one decision; that `apply` takes many is a fold, and
  `NeverWidens` of several at once is only model-checked.
- `AuditAlwaysTells`: the shortest beginning of a path that no domain admits is what
  the audit reports. Its tree is closed upwards and each of its names is read as
  it is written (`IsTree`).

Only model-checked:

- the laws of the pure modules (`ThreadLaw`, `ReadingLaw`, `TriageLaw`, `SavingsLaw`)
  as wholes. Of them `Partitions`, `OrderFree`, `LinesTiled`, `Anchored`,
  `HonestSaving` and `AuditTells` are proved. The rest (the parsers, the metric's
  sample, the totals of an export, several decisions in a row) is about what a
  recursive definition, a fold, a filter or a sort of the library computes, which
  needs induction over data;
- all liveness (`EventServed`, `ChangeRead`, `ShutdownEnds`), which like ENABLED
  is outside the proof system's reach.

## Not modelled

- The text of things: tokenizing, bm25's ranks, SQL grammar, TOML, markdown
  inside a section, formatting and colours. A content is a set of entries or a
  sequence of lines with what the code asks of them.
- SQLite, git, notify and rmcp themselves. A statement is atomic, a transaction
  has a snapshot and one writer, a walk reaches what the graph says, an event
  comes after its change.
- Routing by `classify` (a path has one corpus), the language tag of a chunk,
  the one-line rendering of a hit, the legend of an export bundle, the
  evidence triage shows of a directory, the tokenizer experiment of
  `symbol_index.rs`: they change no state and decide nothing.
- `check()`'s counts, latencies and orphan queries, HTTP routes and health,
  event counters and labels of the watcher: reports without state.
- A second daemon on one database (its row would be of neither), and what
  changed while no watcher ran: `nibdex` does not look for it, `missed` exempts
  it.
- Database set-up, argument parsing, hashing, build information.

## What is left

1. `check()` as operators over the tables, with the orphan counts against the
   true orphans of `FileCorpus`.
2. The second daemon, with the row's owner as state.
3. A composition of `WatcherDaemon` with `CommitIndex`, so that `EventServed`
   follows from the debouncer on.
