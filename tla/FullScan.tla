------------------------------- MODULE FullScan -------------------------------
(***************************************************************************)
(* `nibdex index --domain d`: one pass over the workspace that fills the   *)
(* database of one domain, corpus by corpus (full_scan, indexer.rs), and   *)
(* the corpus that has no module of its own, schema dumps                  *)
(* (schema_index.rs).  What the other corpora do with a file is in their   *)
(* modules; here a file is in the database or it is not.                   *)
(***************************************************************************)
EXTENDS Domains

CONSTANTS
    Domain,
    Config,         \* what .nibdex-domains.toml may say: [entries, memory]
    Repo,           \* the repositories: paths below the workspace
    Dir,            \* the directories on disk
    Item,           \* what a corpus may hold of the disk: [corpus, anchor, at, real],
                    \* `at` the path it is found at below an anchor, `real` the
                    \* path it resolves to
    Dump,           \* paths of *.nibdex-schema.json files
    Object,         \* tables
    Bad, Gone,      \* a dump that cannot be read or parsed, or does not exist
    MaxEdits,       \* bound on edits of the dumps and of the configuration
    MaxScans        \* bound on passes

ASSUME FullScanAssumption == MaxEdits \in Nat /\ MaxScans \in Nat

VARIABLES
    domain,         \* whose database this is
    config,
    text,           \* what each dump holds: a set of objects, Bad or Gone
    items,          \* the database: items of the six other corpora,
    objects,        \* schema_objects, [dump, object],
    hits,           \* and their rows in search_index
    scan,           \* the pass: where it is and what it has loaded
    fresh,          \* whether the last pass ended and nothing was edited since
                    \* it began
    edits, scans

vars == <<domain, config, text, items, objects, hits, scan, fresh, edits, scans>>

Idle == [pc |-> "idle", config |-> [entries |-> {}, memory |-> {}], dumps |-> {}, todo |-> {}]

Init ==
    /\ domain \in Domain /\ config \in Config
    /\ text \in [Dump -> {Gone, {}, Object}]
    /\ items = {} /\ objects = {} /\ hits = {}
    /\ scan = Idle /\ fresh = FALSE /\ edits = 0 /\ scans = 0

--------------------------------------------------------------------------------
(* Which of the disk a pass reads                                          *)

Anchors == {<<>>} \union Repo

Keeps(c, path) == Includes(c.entries, Dir, Repo, domain, path)

(* Mutant: links are followed.                                             *)
StaysAnywhere(i) == TRUE

StaysWithin(i) == i.at = i.real \/ IsPrefix(i.anchor, i.real)

Of(corpus) == {i \in Item : i.corpus = corpus}

(* one `CLAUDE.md` per anchor                                              *)
SessionHistory(c) ==
    {i \in Of("session_history") : i.anchor \in Anchors /\ Keeps(c, i.anchor) /\ StaysWithin(i)}

(* the memory directory, for the domain that claims it                     *)
Memory(c) == {i \in Of("memory") : domain \in c.memory}

(* the *.md directly in an anchor and those below its docs/                *)
DesignDocs(c) ==
    {i \in Of("design_doc") : i.anchor \in Anchors /\ Keeps(c, i.anchor) /\ StaysWithin(i)}

Commits(c) == {i \in Of("commit") : i.anchor \in Repo /\ Keeps(c, i.anchor)}

(* A path that is another corpus's, whether or not that has read it        *)
InOtherCorpus(i) ==
    \E o \in Of("session_history") \union Of("design_doc") : o.at = i.at

(* the tracked files, without links                                        *)
Source(c) ==
    {i \in Of("source") : /\ i.anchor \in Repo /\ Keeps(c, i.anchor)
                          /\ i.at = i.real /\ ~InOtherCorpus(i)}

(* the edits of sessions, each by its own path                             *)
SessionEdges(c) == {i \in Of("session_edge") : Keeps(c, i.real)}

(* The order of the pass                                                   *)
After == [session_history |-> "memory", memory |-> "design_doc", design_doc |-> "commit",
          commit |-> "source", source |-> "session_edge"]

Found(corpus, c) ==
    CASE corpus = "session_history" -> SessionHistory(c)
      [] corpus = "memory" -> Memory(c)
      [] corpus = "design_doc" -> DesignDocs(c)
      [] corpus = "commit" -> Commits(c)
      [] corpus = "source" -> Source(c)

--------------------------------------------------------------------------------
(* The pass                                                                *)

(* The configuration is read once.  A domain it does not declare ends the  *)
(* pass before it begins.                                                  *)
Begin ==
    /\ scan.pc = "idle" /\ scans < MaxScans
    /\ \E e \in config.entries : e.owner = domain
    /\ scan' = [Idle EXCEPT !.pc = "session_history", !.config = config]
    /\ scans' = scans + 1 /\ fresh' = TRUE
    /\ UNCHANGED <<domain, config, text, items, objects, hits, edits>>

(* Steps 1 to 5: a corpus is extracted, or the error of one file ends the  *)
(* whole pass with what was stored before it.                              *)
Extract(corpus) ==
    /\ scan.pc = corpus
    /\ \/ /\ items' = items \union Found(corpus, scan.config)
          /\ scan' = [scan EXCEPT !.pc = After[corpus]]
          /\ UNCHANGED fresh
       \/ /\ \E some \in SUBSET Found(corpus, scan.config) : items' = items \union some
          /\ scan' = Idle /\ fresh' = FALSE
    /\ UNCHANGED <<domain, config, text, objects, hits, edits, scans>>

(* Step 6: an error here is reported and the pass goes on.                 *)
ExtractSessionEdges ==
    /\ scan.pc = "session_edge"
    /\ \E some \in SUBSET SessionEdges(scan.config) : items' = items \union some
    /\ scan' = [scan EXCEPT !.pc = "list"]
    /\ UNCHANGED <<domain, config, text, objects, hits, fresh, edits, scans>>

(* Step 7: list_schema_dumps                                               *)
ListDumps ==
    /\ scan.pc = "list"
    /\ scan' = [scan EXCEPT !.pc = "dumps", !.dumps = {f \in Dump : text[f] # Gone}]
    /\ UNCHANGED <<domain, config, text, items, objects, hits, fresh, edits, scans>>

(* A dump of another domain, and one that is unreadable or malformed, are  *)
(* passed over: what an earlier pass stored of it stays.                   *)
SkipDump(f) ==
    /\ scan.pc = "dumps" /\ f \in scan.dumps
    /\ ~Keeps(scan.config, f) \/ text[f] \in {Bad, Gone}
    /\ scan' = [scan EXCEPT !.dumps = @ \ {f}]
    /\ UNCHANGED <<domain, config, text, items, objects, hits, fresh, edits, scans>>

(* Mutant: an upsert, which leaves a dropped table in the index.           *)
KeptOf(f, rows) == rows

(* DELETE FROM schema_objects                                              *)
Without(f, rows) == {r \in rows : r.dump # f}

(* DELETE FROM search_index, before it                                     *)
Unfound(f, rows) == {r \in rows : r.dump # f}

(* parse_dump, upsert_document and the DELETEs of persist_dump             *)
OpenDump(f) ==
    /\ scan.pc = "dumps" /\ f \in scan.dumps
    /\ Keeps(scan.config, f) /\ text[f] \notin {Bad, Gone}
    /\ hits' = Unfound(f, hits) /\ objects' = Without(f, objects)
    /\ scan' = [scan EXCEPT !.pc = "insert", !.dumps = @ \ {f},
                            !.todo = {[dump |-> f, object |-> o] : o \in text[f]}]
    /\ UNCHANGED <<domain, config, text, items, fresh, edits, scans>>

(* The INSERTs, each on its own                                            *)
InsertObject ==
    \E r \in scan.todo :
        /\ objects' = objects \union {r}
        /\ \/ /\ hits' = hits \union {r}
              /\ scan' = [scan EXCEPT !.todo = @ \ {r}]
              /\ UNCHANGED fresh
           \/ /\ UNCHANGED hits
              /\ scan' = Idle /\ fresh' = FALSE
        /\ UNCHANGED <<domain, config, text, items, edits, scans>>

CloseDump ==
    /\ scan.pc = "insert" /\ scan.todo = {}
    /\ scan' = [scan EXCEPT !.pc = "dumps"]
    /\ UNCHANGED <<domain, config, text, items, objects, hits, fresh, edits, scans>>

End ==
    /\ scan.pc = "dumps" /\ scan.dumps = {}
    /\ scan' = Idle
    /\ UNCHANGED <<domain, config, text, items, objects, hits, fresh, edits, scans>>

(* The process is killed.                                                  *)
Crash ==
    /\ scan.pc # "idle"
    /\ scan' = Idle /\ fresh' = FALSE
    /\ UNCHANGED <<domain, config, text, items, objects, hits, edits, scans>>

--------------------------------------------------------------------------------
(* The user                                                                *)

EditDump(f) ==
    /\ edits < MaxEdits /\ edits' = edits + 1
    /\ text' \in {[text EXCEPT ![f] = t] : t \in (SUBSET Object) \union {Bad, Gone}}
    /\ text' # text /\ fresh' = FALSE
    /\ UNCHANGED <<domain, config, items, objects, hits, scan, scans>>

(* Whose a thing of the disk is                                            *)
Owned(c, i) == IF i.corpus = "memory" THEN domain \in c.memory ELSE Keeps(c, i.real)

Narrows(old, new) ==
    \/ \E i \in Item : Owned(old, i) /\ ~Owned(new, i)
    \/ \E f \in Dump : Keeps(old, f) /\ ~Keeps(new, f)

(* A label that only adds may come at any time.                            *)
Widen ==
    /\ edits < MaxEdits /\ edits' = edits + 1
    /\ config' \in Config \ {config} /\ ~Narrows(config, config')
    /\ fresh' = FALSE
    /\ UNCHANGED <<domain, text, items, objects, hits, scan, scans>>

(* "Narrowing labels needs a rebuild": the database is deleted.            *)
Rebuild ==
    /\ scan.pc = "idle" /\ edits < MaxEdits /\ edits' = edits + 1
    /\ config' \in Config \ {config} /\ Narrows(config, config')
    /\ items' = {} /\ objects' = {} /\ hits' = {} /\ fresh' = FALSE
    /\ UNCHANGED <<domain, text, scan, scans>>

Next ==
    \/ \E corpus \in DOMAIN After : Extract(corpus)
    \/ Begin \/ ExtractSessionEdges \/ ListDumps \/ InsertObject \/ CloseDump \/ End \/ Crash
    \/ \E f \in Dump : SkipDump(f) \/ OpenDump(f) \/ EditDump(f)
    \/ Widen \/ Rebuild

Spec == Init /\ [][Next]_vars

--------------------------------------------------------------------------------
Row == [dump : Dump, object : Object]

TypeOK ==
    /\ domain \in Domain /\ config \in Config
    /\ text \in [Dump -> (SUBSET Object) \union {Bad, Gone}]
    /\ items \subseteq Item /\ objects \subseteq Row /\ hits \subseteq Row
    /\ scan.pc \in DOMAIN After \union {"idle", "session_edge", "list", "dumps", "insert"}
    /\ scan.dumps \subseteq Dump /\ scan.todo \subseteq Row
    /\ fresh \in BOOLEAN /\ edits \in 0 .. MaxEdits /\ scans \in 0 .. MaxScans

(* "A domain's database contains content only from subdirectories labeled  *)
(* for that domain" (docs/IP_DOMAINS.md:123): whatever links the tree holds*)
(* and however passes fail and labels grow, nothing in the database        *)
(* resolves to a path that is not the domain's.                            *)
NoForeign ==
    /\ \A i \in items : Owned(config, i)
    /\ \A r \in objects : Keeps(config, r.dump)

(* "A dropped table must DISAPPEAR" (persist_dump): after a whole pass the *)
(* tables of every dump that can be read are those of its file, each found *)
(* by a search; and no search ever finds one that is not there.            *)
SchemaCurrent ==
    /\ hits \subseteq objects
    /\ fresh /\ scan.pc = "idle" =>
          \A f \in Dump : Keeps(config, f) /\ text[f] \notin {Bad, Gone} =>
              /\ {r.object : r \in {o \in objects : o.dump = f}} = text[f]
              /\ {r \in objects : r.dump = f} \subseteq hits
================================================================================
