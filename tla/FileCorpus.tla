------------------------------- MODULE FileCorpus -------------------------------
(***************************************************************************)
(* The three corpora extracted from markdown files: session_history (the   *)
(* CLAUDE.md of an anchor), memory (the memory directory) and design_doc   *)
(* (root and docs/ markdown).  A file has a documents row, its entries     *)
(* have rows in the child table of its kind, and each row has one row in   *)
(* the FTS5 table search_index, tied to it by rowid_ref only.              *)
(*                                                                         *)
(* Two processes write: the watcher, which serves one debounced event at a *)
(* time (dispatch_one), and the scanner, `nibdex index` (full_scan).       *)
(* Every SQL statement commits on its own and is a step.                   *)
(***************************************************************************)
EXTENDS Naturals, FiniteSets, FiniteSetsExt, Functions, Bags

CONSTANTS
    File,           \* the markdown files the subscriptions cover
    Kind,           \* [File -> Kinds]
    Texts,          \* [Kinds -> set of contents], a content is a set of entries
    Watcher, Scanner,
    Absent, None,
    Disturb,        \* which of the disturbances below may happen
    MaxScans,       \* bound on scans
    MaxEdits,       \* bound on changes of the files
    MaxAborts       \* bound on jobs that fail, and on crashes

(* "sharedKeys": two files of a kind hold one session number or name       *)
(* "tornSweep":  sweep_session_entries, delete_document_by_path or         *)
(*               persist_memory_entry dies between changing rows and       *)
(*               deleting their search rows                                *)
(* "clash":      the watcher and the scanner meet in jobs that no lock     *)
(*               keeps apart, see Clashes                                  *)
Disturbance == {"sharedKeys", "tornSweep", "clash"}

Kinds == {"session", "memory", "design"}
Process == {Watcher, Scanner}

ASSUME FileAssumption ==
    /\ IsFiniteSet(File) /\ Kind \in [File -> Kinds] /\ DOMAIN Texts = Kinds
    /\ None \notin File /\ \A k \in Kinds : Absent \notin Texts[k]
    /\ \A t \in Texts["memory"] : Cardinality(t) <= 1
    /\ Disturb \subseteq Disturbance
    /\ MaxScans \in Nat /\ MaxEdits \in Nat /\ MaxAborts \in Nat /\ Watcher # Scanner

VARIABLES
    disk,           \* what each file holds
    docs,           \* documents.id of each path, 0 for none
    rows,           \* rows of the child tables, [table, id, doc, entry]
    fts,            \* search_index, a bag of [table, ref, entry]
    job,            \* what each process is at
    phase, agenda,  \* the step of full_scan, and the files it has listed
    up, queue,      \* the watcher runs; the files with an event to serve
    missed,         \* history: files whose last change no job has carried through
    scans, edits, aborts

db == <<docs, rows, fts>>
scan == <<phase, agenda>>
watch == <<up, queue>>
bounds == <<scans, edits, aborts>>
vars == <<disk, db, job, scan, watch, missed, bounds>>

--------------------------------------------------------------------------------
Idle == [pc |-> "idle", file |-> None, doc |-> 0, text |-> {}, todo |-> {},
         hit |-> None, ids |-> {}]

Busy(p) == job[p].pc # "idle"
Deleting(p) == job[p].pc \in {"find", "collect", "drop", "prune"}
Keyed(f) == Kind[f] \in {"session", "memory"}
KeysOf(t) == {e.key : e \in t}

IdsIn(t) == {r.id : r \in {x \in rows : x.table = t}}
RowsOf(d) == {r \in rows : r.doc = d}
HitOf(r) == [table |-> r.table, ref |-> r.id, entry |-> r.entry]

(* INTEGER PRIMARY KEY without AUTOINCREMENT: a freed top id is used again *)
NewId(S) == 1 + Max(S \union {0})

(* DELETE FROM search_index WHERE ...                                      *)
Unsearch(S) == fts' = Restrict(fts, DOMAIN fts \ S)

(* Jobs that may meet without harm: of different files, none of them       *)
(* deleting, and not both in one table whose rows are found by key.        *)
Clashes(f, deleting, q) ==
    Busy(q) /\ \/ job[q].file = f \/ deleting \/ Deleting(q)
               \/ Keyed(f) /\ Kind[job[q].file] = Kind[f]

Other(p) == IF p = Watcher THEN Scanner ELSE Watcher

Goto(p, pc) == job' = [job EXCEPT ![p].pc = pc]
Done(p) == job' = [job EXCEPT ![p] = Idle]

KeysApart(d) ==
    \A f, g \in File :
        f # g /\ Kind[f] = Kind[g] /\ Keyed(f) /\ d[f] # Absent /\ d[g] # Absent
            => KeysOf(d[f]) \intersect KeysOf(d[g]) = {}

(* A workspace with files in it, and an empty database                    *)
Init ==
    /\ disk \in [File -> (UNION {Texts[k] : k \in Kinds}) \union {Absent}]
    /\ \A f \in File : disk[f] \in Texts[Kind[f]] \union {Absent}
    /\ "sharedKeys" \in Disturb \/ KeysApart(disk)
    /\ docs = [f \in File |-> 0] /\ rows = {} /\ fts = EmptyBag
    /\ job = [p \in Process |-> Idle]
    /\ phase = "off" /\ agenda = {}
    /\ up = TRUE /\ queue = {}
    /\ missed = {f \in File : disk[f] # Absent}
    /\ scans = 0 /\ edits = 0 /\ aborts = 0

--------------------------------------------------------------------------------
(* The files change.  A running watcher gets an event for each path.       *)
Change(d, S) ==
    /\ edits < MaxEdits /\ edits' = edits + 1
    /\ "sharedKeys" \in Disturb \/ KeysApart(d)
    /\ disk' = d
    /\ queue' = IF up THEN queue \union S ELSE queue
    /\ missed' = IF up THEN missed ELSE missed \union S
    /\ UNCHANGED <<db, job, scan, up, scans, aborts>>

Edit(f) ==
    \E t \in (Texts[Kind[f]] \union {Absent}) \ {disk[f]} :
        Change([disk EXCEPT ![f] = t], {f})

Rename(f, g) ==
    /\ Kind[f] = Kind[g] /\ f # g /\ disk[f] # Absent
    /\ Change([disk EXCEPT ![g] = disk[f], ![f] = Absent], {f, g})

--------------------------------------------------------------------------------
(* full_scan, its three file steps in order.  Each lists its files when it *)
(* starts; the session step goes by the known anchors instead.             *)
Listed(k) ==
    {f \in File : Kind[f] = k /\ (k = "session" \/ disk[f] # Absent)}

ScanPhase(from, to) ==
    /\ phase = from /\ agenda = {} /\ ~Busy(Scanner)
    /\ scans' = IF from = "off" THEN scans + 1 ELSE scans
    /\ scans' <= MaxScans
    /\ phase' = to /\ agenda' = Listed(to)
    /\ UNCHANGED <<disk, db, job, watch, missed, edits, aborts>>

Scan ==
    \/ ScanPhase("off", "session") \/ ScanPhase("session", "memory")
    \/ ScanPhase("memory", "design") \/ ScanPhase("design", "off")

Take(p, f, pc) ==
    /\ job' = [job EXCEPT ![p] = [Idle EXCEPT !.pc = pc, !.file = f]]
    /\ "clash" \in Disturb \/ ~Clashes(f, FALSE, Other(p))
    /\ UNCHANGED <<disk, db, phase, up, missed, bounds>>

TakeEvent(f) ==
    /\ up /\ ~Busy(Watcher) /\ f \in queue
    /\ queue' = queue \ {f} /\ UNCHANGED agenda
    /\ Take(Watcher, f, "exists")

TakeListed(f) ==
    /\ ~Busy(Scanner) /\ f \in agenda
    /\ agenda' = agenda \ {f} /\ UNCHANGED queue
    /\ Take(Scanner, f, IF Kind[f] = "session" THEN "exists" ELSE "doc")

(* dispatch_one's metadata(), full_scan's exists() in the session step     *)
Exists(p) ==
    LET f == job[p].file IN
    /\ job[p].pc = "exists"
    /\ \/ disk[f] # Absent /\ Goto(p, "doc")
       \/ disk[f] = Absent /\ p = Scanner /\ Done(p)
       \/ /\ disk[f] = Absent /\ p = Watcher /\ Goto(p, "find")
          /\ "clash" \in Disturb \/ ~Clashes(f, TRUE, Scanner)
    /\ UNCHANGED <<disk, db, scan, watch, missed, bounds>>

--------------------------------------------------------------------------------
(* Extract and persist a file that is there                                *)

(* upsert_document: stat, hash, UPSERT by path                             *)
UpsertDocument(p) ==
    LET f == job[p].file
        id == IF docs[f] # 0 THEN docs[f] ELSE NewId({docs[g] : g \in File})
    IN
    /\ job[p].pc = "doc" /\ disk[f] # Absent
    /\ docs' = [docs EXCEPT ![f] = id]
    /\ job' = [job EXCEPT ![p].pc = "read", ![p].doc = id]
    /\ UNCHANGED <<disk, rows, fts, scan, watch, missed, bounds>>

(* read_to_string and the extractor.  A session file or a memory file that *)
(* yields no entry is left as it was.                                      *)
Read(p) ==
    LET f == job[p].file
        t == disk[f]
    IN
    /\ job[p].pc = "read" /\ t # Absent
    /\ IF t = {} /\ Keyed(f)
       THEN Done(p) /\ UNCHANGED missed
       ELSE /\ job' = [job EXCEPT ![p].text = t, ![p].todo = t,
                           ![p].pc = IF Keyed(f) THEN "row" ELSE "wipeFts"]
            /\ missed' = missed \ {f}
    /\ UNCHANGED <<disk, db, scan, watch, bounds>>

(* Mutant of WipeFtsOfDoc: the search rows left to the rebuild.            *)
WipeFtsOfDocSkipped(p) ==
    /\ job[p].pc = "wipeFts"
    /\ Goto(p, "wipeRows")
    /\ UNCHANGED <<disk, db, scan, watch, missed, bounds>>

(* extract_design_file_into_db: wipe the document's search rows, then its  *)
(* sections, and rebuild                                                   *)
WipeFtsOfDoc(p) ==
    /\ job[p].pc = "wipeFts"
    /\ LET own == {r.id : r \in {x \in RowsOf(job[p].doc) : x.table = "design"}}
       IN Unsearch({h \in DOMAIN fts : h.table = "design" /\ h.ref \in own})
    /\ Goto(p, "wipeRows")
    /\ UNCHANGED <<disk, docs, rows, scan, watch, missed, bounds>>

WipeRowsOfDoc(p) ==
    /\ job[p].pc = "wipeRows"
    /\ rows' = {r \in rows : ~(r.table = "design" /\ r.doc = job[p].doc)}
    /\ Goto(p, "row")
    /\ UNCHANGED <<disk, docs, fts, scan, watch, missed, bounds>>

(* INSERT INTO design_doc_sections; UPSERT of a session entry by its       *)
(* number, of a memory entry by its name, wherever the row came from       *)
PersistEntry(p) ==
    LET k == Kind[job[p].file] IN
    /\ job[p].pc = "row"
    /\ \E g \in File : docs[g] = job[p].doc
    /\ \E e \in job[p].todo :
        LET prior == {r \in rows : Keyed(job[p].file) /\ r.table = k /\ r.entry.key = e.key}
            id == IF prior = {} THEN NewId(IdsIn(k)) ELSE (CHOOSE r \in prior : TRUE).id
        IN
        /\ rows' = (rows \ prior) \union
                   {[table |-> k, id |-> id, doc |-> job[p].doc, entry |-> e]}
        /\ job' = [job EXCEPT ![p].hit = [table |-> k, ref |-> id, entry |-> e],
                        ![p].pc = IF k = "design" THEN "index" ELSE "unindex"]
    /\ UNCHANGED <<disk, docs, fts, scan, watch, missed, bounds>>

(* Mutant of Unindex: an UPSERT that only writes.                          *)
UnindexSkipped(p) ==
    /\ job[p].pc = "unindex"
    /\ Goto(p, "index")
    /\ UNCHANGED <<disk, db, scan, watch, missed, bounds>>

Unindex(p) ==
    /\ job[p].pc = "unindex"
    /\ Unsearch({h \in DOMAIN fts : h.table = job[p].hit.table /\ h.ref = job[p].hit.ref})
    /\ Goto(p, "index")
    /\ UNCHANGED <<disk, docs, rows, scan, watch, missed, bounds>>

Index(p) ==
    /\ job[p].pc = "index"
    /\ fts' = fts (+) SetToBag({job[p].hit})
    /\ job' = [job EXCEPT ![p].todo = @ \ {job[p].hit.entry}, ![p].hit = None,
                    ![p].pc = "row"]
    /\ UNCHANGED <<disk, docs, rows, scan, watch, missed, bounds>>

Persisted(p) ==
    /\ job[p].pc = "row" /\ job[p].todo = {}
    /\ IF Kind[job[p].file] = "session" THEN Goto(p, "sweepRows") ELSE Done(p)
    /\ UNCHANGED <<disk, db, scan, watch, missed, bounds>>

(* Mutant of SweepRows: entries gone from the text are kept.               *)
SweepRowsSkipped(p) ==
    /\ job[p].pc = "sweepRows"
    /\ Goto(p, "sweepFts")
    /\ UNCHANGED <<disk, db, scan, watch, missed, bounds>>

(* sweep_session_entries: the entries of this document whose number is not *)
(* in its text, then every session search row outside this document        *)
SweepRows(p) ==
    /\ job[p].pc = "sweepRows"
    /\ rows' = {r \in rows : ~(/\ r.table = "session" /\ r.doc = job[p].doc
                               /\ r.entry.key \notin KeysOf(job[p].text))}
    /\ Goto(p, "sweepFts")
    /\ UNCHANGED <<disk, docs, fts, scan, watch, missed, bounds>>

SweepFts(p) ==
    /\ job[p].pc = "sweepFts"
    /\ LET live == {r.id : r \in {x \in RowsOf(job[p].doc) : x.table = "session"}}
       IN Unsearch({h \in DOMAIN fts : h.table = "session" /\ h.ref \notin live})
    /\ Done(p)
    /\ UNCHANGED <<disk, docs, rows, scan, watch, missed, bounds>>

--------------------------------------------------------------------------------
(* delete_document_by_path                                                 *)
FindDocument(p) ==
    LET d == docs[job[p].file] IN
    /\ job[p].pc = "find"
    /\ IF d = 0 THEN Done(p)
       ELSE job' = [job EXCEPT ![p].doc = d, ![p].pc = "collect"]
    /\ missed' = missed \ {job[p].file}
    /\ UNCHANGED <<disk, db, scan, watch, bounds>>

(* Mutant of CollectIds: the ids of the whole table.                       *)
CollectAllIds(p) ==
    /\ job[p].pc = "collect"
    /\ job' = [job EXCEPT ![p].ids = {HitOf(r) : r \in rows}, ![p].pc = "drop"]
    /\ UNCHANGED <<disk, db, scan, watch, missed, bounds>>

CollectIds(p) ==
    /\ job[p].pc = "collect"
    /\ job' = [job EXCEPT ![p].ids = {HitOf(r) : r \in RowsOf(job[p].doc)},
                    ![p].pc = "drop"]
    /\ UNCHANGED <<disk, db, scan, watch, missed, bounds>>

(* DELETE FROM documents, and the rows the foreign key cascades to         *)
DropDocument(p) ==
    /\ job[p].pc = "drop"
    /\ docs' = [f \in File |-> IF docs[f] = job[p].doc THEN 0 ELSE docs[f]]
    /\ rows' = rows \ RowsOf(job[p].doc)
    /\ Goto(p, "prune")
    /\ UNCHANGED <<disk, fts, scan, watch, missed, bounds>>

(* sweep_search_index_by_ids: by table and id, whatever has the id by now  *)
PruneFts(p) ==
    /\ job[p].pc = "prune"
    /\ Unsearch({h \in DOMAIN fts :
            \E i \in job[p].ids : i.table = h.table /\ i.ref = h.ref})
    /\ Done(p)
    /\ UNCHANGED <<disk, docs, rows, scan, watch, missed, bounds>>

--------------------------------------------------------------------------------
(* An error ends the job; it also ends the scan it is part of.  The watcher *)
(* logs it and goes on with the next event.                                *)
EndScan(p) ==
    IF p = Scanner THEN phase' = "off" /\ agenda' = {} ELSE UNCHANGED scan

Drop(p) == Done(p) /\ missed' = missed \union {job[p].file} /\ EndScan(p)

(* A file gone between its listing or its event and the read, a document   *)
(* gone under a child row                                                  *)
Fails(p) ==
    /\ \/ job[p].pc \in {"doc", "read"} /\ disk[job[p].file] = Absent
       \/ job[p].pc = "row" /\ job[p].todo # {} /\ \A g \in File : docs[g] # job[p].doc
    /\ Drop(p)
    /\ UNCHANGED <<disk, db, watch, bounds>>

(* Rows have been changed, and search rows of what they were are left.     *)
Torn(p) ==
    \/ job[p].pc \in {"prune", "sweepFts"}
    \/ job[p].pc = "unindex" /\ Kind[job[p].file] = "memory"

(* SQLITE_BUSY, an unreadable file, a scan that is killed                  *)
Abort(p) ==
    /\ Busy(p) /\ aborts < MaxAborts
    /\ "tornSweep" \in Disturb \/ ~Torn(p)
    /\ aborts' = aborts + 1
    /\ Drop(p)
    /\ UNCHANGED <<disk, db, watch, scans, edits>>

(* The watcher stops: its event in hand and its queue are gone, and it     *)
(* looks at no file when it starts again.                                  *)
Crash ==
    /\ up /\ aborts < MaxAborts
    /\ "tornSweep" \in Disturb \/ ~Torn(Watcher)
    /\ aborts' = aborts + 1
    /\ up' = FALSE /\ queue' = {}
    /\ Done(Watcher)
    /\ missed' = missed \union queue \union ({job[Watcher].file} \ {None})
    /\ UNCHANGED <<disk, db, scan, scans, edits>>

Restart ==
    /\ ~up /\ up' = TRUE
    /\ UNCHANGED <<disk, db, job, scan, queue, missed, bounds>>

Step(p) ==
    \/ Exists(p) \/ UpsertDocument(p) \/ Read(p)
    \/ WipeFtsOfDoc(p) \/ WipeRowsOfDoc(p)
    \/ PersistEntry(p) \/ Unindex(p) \/ Index(p) \/ Persisted(p)
    \/ SweepRows(p) \/ SweepFts(p)
    \/ FindDocument(p) \/ CollectIds(p) \/ DropDocument(p) \/ PruneFts(p)

Next ==
    \/ \E f \in File : Edit(f)
    \/ \E f, g \in File : Rename(f, g)
    \/ Scan
    \/ \E f \in File : TakeEvent(f) \/ TakeListed(f)
    \/ \E p \in Process : Step(p) \/ Fails(p) \/ Abort(p)
    \/ Crash \/ Restart

Spec == Init /\ [][Next]_vars

--------------------------------------------------------------------------------
Settled(f) ==
    f \notin queue \union missed /\ \A p \in Process : job[p].file # f

(* Type correctness: ids are positive and unique in their table, a child   *)
(* row always has its document (FOREIGN KEY), one document has one path.   *)
TypeOK ==
    /\ \A f \in File : disk[f] \in Texts[Kind[f]] \union {Absent}
    /\ docs \in [File -> Nat] /\ IsABag(fts)
    /\ \A r \in rows : r.id \in Nat \ {0}
    /\ \A r, s \in rows : r.table = s.table /\ r.id = s.id => r = s
    /\ \A f, g \in File : docs[f] = docs[g] /\ f # g => docs[f] = 0
    /\ queue \subseteq File /\ agenda \subseteq File /\ missed \subseteq File
    /\ up \in BOOLEAN

SearchedOnce(r) == HitOf(r) \in DOMAIN fts /\ fts[HitOf(r)] = 1

(* Once its last change has been carried through, a file is mirrored:      *)
(* gone from the tables when it is gone from disk; else every entry of it  *)
(* has its row, and the row its one search row; and for session files that *)
(* still have entries and for design files there is no other.              *)
Mirror ==
    \A f \in File : Settled(f) =>
        IF disk[f] = Absent THEN docs[f] = 0
        ELSE LET own == {r \in RowsOf(docs[f]) : r.table = Kind[f]} IN
             /\ docs[f] # 0
             /\ disk[f] \subseteq {r.entry : r \in own}
             /\ \A r \in own : r.entry \in disk[f] => SearchedOnce(r)
             /\ Kind[f] = "design" \/ (Kind[f] = "session" /\ disk[f] # {}) =>
                    /\ {r.entry : r \in own} = disk[f]
                    /\ Cardinality(own) = Cardinality(disk[f])

(* A search hit leads to the entry whose text matched: the text of a       *)
(* deleted or renamed section never answers for another, and no entry      *)
(* outlives its document.                                                  *)
HitsResolve ==
    /\ \A r \in rows : \E f \in File : docs[f] = r.doc /\ Kind[f] = r.table
    /\ (\A p \in Process : ~Busy(p)) /\ missed = {} =>
          \A h \in DOMAIN fts : \E r \in rows : HitOf(r) = h

(* "prune search_index entries that lost their backing row", "stale        *)
(* rowid_refs disappear": the sweeps that end a session pass and a         *)
(* deletion take no hit away from a row that is there.                     *)
SweepsTakeOrphansOnly ==
    [][(\E p \in Process : job[p].pc \in {"sweepFts", "prune"} /\ job'[p].pc = "idle") =>
        \A h \in DOMAIN fts \ DOMAIN fts' :
            ~\E r \in rows : r.table = h.table /\ r.id = h.ref]_vars
================================================================================
