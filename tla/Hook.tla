---------------------------------- MODULE Hook ----------------------------------
(***************************************************************************)
(* The PreToolUse hook (hook.rs, `nibdex hook`): one short process before  *)
(* each tool call, which finds the database that covers the working        *)
(* directory, asks it, and adds the answer to the call.  What fails is     *)
(* passed over: a database that cannot be asked covers nothing, a caller   *)
(* whose repository cannot be read stands in none, a line that cannot be   *)
(* logged is not.  Several run at once, while indexing passes change the   *)
(* databases, and all append to one log.                                   *)
(***************************************************************************)
EXTENDS Naturals, Sequences, FiniteSets

CONSTANTS
    Firing,
    Above,          \* Above[d]: the directories from d up to the root, d first
    Repository,     \* the directories that are repositories
    Db,             \* the databases: <<directory, 1>> is its nibdex.db,
                    \* <<directory, 2>> its nibdex/nibdex.db
    Ranked,         \* the chunks a term may find, the best first: records
                    \* [repo, path, whole]; whole: one line of it holds the term;
                    \* below, a chunk is its place here
    Table,          \* the tables of the dump
    Event,          \* the tool calls: records [cwd, tool, usable, scope, tables]
    Env,            \* what NIBDEX_HOOK_DB may be: a database, a missing file, unset
    Admits(_, _),   \* whether a path meets a scope
    MaxHits, OverFetch,
    Contents,       \* what the databases may hold at first
    MaxPasses,      \* bound on the steps of indexing passes
    MaxKills,       \* bound on firings that are killed
    MaxFailures,    \* bound on opens, queries and writes that fail
    NoDb,           \* no database; of Env: unset
    NoFile          \* of Env: a file that is missing

Holds(dir, d) == \E i \in DOMAIN Above[d] : Above[d][i] = dir

Content == [repos : SUBSET Repository, chunks : SUBSET DOMAIN Ranked, tables : SUBSET Table]

(* A path names a directory once, and what is above one on it is what      *)
(* comes after; chunks are of a repository that is listed.                 *)
ASSUME HookAssumption ==
    /\ \A d \in DOMAIN Above :
          /\ Above[d] \in Seq(DOMAIN Above) /\ Above[d] # <<>>
          /\ \A i, j \in DOMAIN Above[d] : Above[d][i] = Above[d][j] => i = j
          /\ \A i, j \in DOMAIN Above[d] : Holds(Above[d][j], Above[d][i]) <=> i <= j
    /\ Db \subseteq (DOMAIN Above) \X {1, 2} /\ NoDb \notin Db
    /\ Env \subseteq Db \union {NoDb, NoFile} /\ Env # {}
    /\ NoFile \notin Db /\ NoFile # NoDb
    /\ Len(Ranked) \in Nat /\ DOMAIN Ranked = 1 .. Len(Ranked)
    /\ \A s \in Contents :
          /\ s \in [Db -> Content]
          /\ \A d \in Db : \A c \in s[d].chunks : Ranked[c].repo \in s[d].repos
    /\ Event # {} /\ \A e \in Event : e.cwd \in DOMAIN Above
    /\ IsFiniteSet(Firing)
    /\ MaxHits \in Nat \ {0} /\ OverFetch \in Nat

VARIABLES
    db,             \* per database: the repositories it lists, their chunks, its tables
    firing,         \* what each firing is at
    log,            \* hook-log.jsonl: what was appended, [by, outcome, db, end]
    output,         \* what each firing has printed
    passes, kills, failures

hookVars == <<db, firing, log, output, passes, kills, failures>>

Silence == [db |-> NoDb, hits |-> {}, tables |-> {}]

(* History: moved, a pass has written meanwhile; skipped, databases that   *)
(* could not be asked; blind, nor could the repositories of the one it     *)
(* took; missed, tables that could not be looked up; unlogged, its line    *)
(* was not written whole.                                                  *)
Off == [pc |-> "off", event |-> CHOOSE e \in Event : TRUE, env |-> CHOOSE v \in Env : TRUE,
        level |-> 1, slot |-> 1, db |-> NoDb, within |-> {}, rows |-> {}, tables |-> {},
        moved |-> FALSE, skipped |-> {}, blind |-> FALSE, missed |-> {}, unlogged |-> FALSE]

HookInit ==
    /\ db \in Contents
    /\ firing = [f \in Firing |-> Off]
    /\ log = <<>>
    /\ output = [f \in Firing |-> Silence]
    /\ passes = 0 /\ kills = 0 /\ failures = 0

Becomes(f, s) == firing' = [firing EXCEPT ![f] = s]

Lives == <<db, passes, kills>>

(* What may fail does so MaxFailures times.                                *)
Fault == failures < MaxFailures /\ failures' = failures + 1

--------------------------------------------------------------------------------
(* What a database says                                                    *)

(* db_indexes: it lists a repository above or below, and can answer        *)
(* Mutant: any database with content will do.                              *)
HasContent(content, cwd) == content.chunks # {} \/ content.tables # {}

Covers(content, cwd) ==
    /\ \E r \in content.repos : Holds(r, cwd) \/ Holds(cwd, r)
    /\ content.chunks # {} \/ content.tables # {}

(* repo_root_for: the innermost listed repository that contains cwd        *)
Around(content, cwd) == {r \in content.repos : Holds(r, cwd)}

RootFor(content, cwd) == {r \in Around(content, cwd) : \A q \in Around(content, cwd) : Holds(q, r)}

(* The best of them, as many as the limit lets through.                    *)
BestOf(chunks, limit) == {c \in chunks : Cardinality({b \in chunks : b <= c}) <= limit}

(* Within is empty when no repository contains cwd.                        *)
FindCodeInRepo(content, within, limit) ==
    BestOf({c \in content.chunks : within = {} \/ Ranked[c].repo \in within}, limit)

(* Mutant: the scope does not widen the limit.                             *)
FewFetched(e) == MaxHits

Fetch(e) == IF e.scope = {} THEN MaxHits ELSE MaxHits * OverFetch

Meets(e, c) == e.scope = {} \/ Admits(Ranked[c].path, e.scope)

(* The hits: in scope, with a line that holds the term, and only then cut  *)
Rows(e, found) == BestOf({c \in found : Ranked[c].whole /\ Meets(e, c)}, MaxHits)

--------------------------------------------------------------------------------
(* run                                                                     *)

Intent(e) ==
    IF e.usable THEN "search"
    ELSE IF e.tool = "Bash" /\ e.tables # {} THEN "schema" ELSE "none"

FirstStep(e, v) == IF Intent(e) = "none" THEN "exit" ELSE IF v = NoDb THEN "find" ELSE "open"

TakeUp(f, e) ==
    /\ firing[f].pc = "off" /\ output[f] = Silence
    /\ \E v \in Env : Becomes(f, [firing[f] EXCEPT !.event = e, !.env = v, !.pc = FirstStep(e, v)])
    /\ UNCHANGED <<Lives, log, output, failures>>

Asks(e) == IF Intent(e) = "search" THEN "root" ELSE "lookup"

(* find_db, told which: it is not asked what it covers.                    *)
OpenNamed(f) ==
    LET s == firing[f] IN
    /\ s.pc = "open"
    /\ \/ /\ s.env \in Db /\ UNCHANGED failures
          /\ Becomes(f, [s EXCEPT !.db = s.env, !.pc = Asks(s.event)])
       \/ /\ Fault \/ (s.env = NoFile /\ UNCHANGED failures)
          /\ Becomes(f, [s EXCEPT !.skipped = {s.env}, !.pc = "no_index"])
    /\ UNCHANGED <<Lives, log, output>>

(* find_db: both places of a directory, then the directory above           *)
Place(s) == <<Above[s.event.cwd][s.level], s.slot>>

Found(s) == Place(s) \in Db /\ Covers(db[Place(s)], s.event.cwd)

TakeDb(f) ==
    LET s == firing[f] IN
    /\ s.pc = "find" /\ Found(s)
    /\ Becomes(f, [s EXCEPT !.db = Place(s), !.pc = Asks(s.event)])
    /\ UNCHANGED <<Lives, log, output, failures>>

(* One that does not cover it, and one that cannot be opened or asked      *)
Skips(s) == IF Found(s) THEN s.skipped \union {Place(s)} ELSE s.skipped

NextPlace(f) ==
    LET s == [firing[f] EXCEPT !.skipped = Skips(firing[f])]
        last == Len(Above[s.event.cwd])
    IN /\ s.pc = "find"
       /\ IF Found(s) THEN Fault ELSE UNCHANGED failures
       /\ \/ s.slot = 1 /\ Becomes(f, [s EXCEPT !.slot = 2])
          \/ s.slot = 2 /\ s.level < last /\ Becomes(f, [s EXCEPT !.slot = 1, !.level = s.level + 1])
          \/ s.slot = 2 /\ s.level = last /\ Becomes(f, [s EXCEPT !.pc = "no_index"])
       /\ UNCHANGED <<Lives, log, output>>

(* A query that fails says what no repository says.                        *)
FindRoot(f) ==
    LET s == firing[f] IN
    /\ s.pc = "root"
    /\ \/ /\ Becomes(f, [s EXCEPT !.within = RootFor(db[s.db], s.event.cwd), !.pc = "query"])
          /\ UNCHANGED failures
       \/ Fault /\ Becomes(f, [s EXCEPT !.within = {}, !.blind = TRUE, !.pc = "query"])
    /\ UNCHANGED <<Lives, log, output>>

RunQuery(f) ==
    LET s == firing[f]
        rows == Rows(s.event, FindCodeInRepo(db[s.db], s.within, Fetch(s.event)))
    IN /\ s.pc = "query"
       /\ Becomes(f, [s EXCEPT !.rows = rows, !.pc = IF rows = {} THEN "no_hits" ELSE "served"])
       /\ UNCHANGED <<Lives, log, output, failures>>

(* The index refuses the query.                                            *)
QueryFails(f) ==
    LET s == firing[f] IN
    /\ s.pc = "query" /\ Fault
    /\ Becomes(f, [s EXCEPT !.pc = "query_error"])
    /\ UNCHANGED <<Lives, log, output>>

(* answer_schema_or_exit: one lookup per table; one that fails is passed   *)
(* over.                                                                   *)
Lookup(f) ==
    LET s == firing[f] IN
    /\ s.pc = "lookup"
    /\ \E failed \in SUBSET s.event.tables :
          LET hits == (s.event.tables \ failed) \intersect db[s.db].tables IN
          /\ IF failed = {} THEN UNCHANGED failures ELSE Fault
          /\ Becomes(f, [s EXCEPT !.tables = hits, !.missed = failed,
                                  !.pc = IF hits = {} THEN "schema_no_hits" ELSE "schema_served"])
    /\ UNCHANGED <<Lives, log, output>>

(* The place find_db gave up at leaves no database to name.                *)
Outcome(s) == IF s.pc = "no_index" /\ Intent(s.event) = "schema" THEN "schema_no_index" ELSE s.pc

Delivery == {"served", "schema_served"}

Final == {"no_index", "no_hits", "query_error", "served", "schema_no_hits", "schema_served"}

(* log_firing, before anything is printed                                  *)
(* Mutant: a refused query is not logged.                                  *)
LogsButErrors(pc) == pc # "query_error"

Logs(pc) == TRUE

(* What a write that fails leaves: the text without its newline, a part of *)
(* it, or one that ends inside a character                                 *)
Broken == {"open", "part", "garbled"}

(* Without HOME, and when the file cannot be opened, nothing is written.   *)
LogFiring(f) ==
    LET s == firing[f]
        next == IF s.pc \in Delivery THEN "print" ELSE "exit"
        Line(end) == [by |-> f, outcome |-> Outcome(s), db |-> s.db, end |-> end]
    IN
    /\ s.pc \in Final
    /\ \/ /\ log' = IF Logs(s.pc) THEN Append(log, Line("line")) ELSE log
          /\ Becomes(f, [s EXCEPT !.pc = next]) /\ UNCHANGED failures
       \/ /\ Fault
          /\ log' \in {log} \union {Append(log, Line(end)) : end \in Broken}
          /\ Becomes(f, [s EXCEPT !.pc = next, !.unlogged = TRUE])
    /\ UNCHANGED <<Lives, output>>

(* read_to_string: a character cut in half makes the whole file no text.   *)
IsText == \A i \in DOMAIN log : log[i].end # "garbled"

(* Neither joined to what is before it nor to what is after                *)
IsLine(i) ==
    /\ log[i].end = "line" \/ (log[i].end = "open" /\ i = Len(log))
    /\ i > 1 => log[i - 1].end = "line"

(* parse_log: the lines it can read                                        *)
Lines == {i \in DOMAIN log : IsText /\ IsLine(i)}

(* deliveries_for: what check() reports as delivered from a database       *)
Deliveries(d) == Cardinality({i \in Lines : log[i].outcome \in Delivery /\ log[i].db = d})

(* render_stats: the lines of the report, by intent                        *)
SearchOutcomes == {"served", "no_hits", "no_index", "query_error"}
SchemaOutcomes == {"schema_served", "schema_no_hits", "schema_no_index"}

(* How many of its lines have one of these outcomes                        *)
CountOf(outcomes) == Cardinality({i \in Lines : log[i].outcome \in outcomes})

Stats ==
    LET searches == CountOf(SearchOutcomes)
        schemas  == CountOf(SchemaOutcomes)
    IN [searches |-> searches, schemas |-> schemas, other |-> Cardinality(Lines) - (searches + schemas)]

EmitAnswer(f) ==
    LET s == firing[f] IN
    /\ s.pc = "print"
    /\ output' = [output EXCEPT ![f] = [db |-> s.db, hits |-> s.rows, tables |-> s.tables]]
    /\ Becomes(f, [s EXCEPT !.pc = "exit"])
    /\ UNCHANGED <<Lives, log, failures>>

(* The agent gives up on the hook.                                         *)
GiveUp(f) ==
    LET s == firing[f] IN
    /\ s.pc \notin {"off", "exit", "killed"} /\ kills < MaxKills
    /\ Becomes(f, [s EXCEPT !.pc = "killed"]) /\ kills' = kills + 1
    /\ UNCHANGED <<db, log, output, passes, failures>>

--------------------------------------------------------------------------------
(* Indexing passes                                                         *)

Pass(d, content) ==
    /\ passes < MaxPasses /\ content # db[d]
    /\ passes' = passes + 1
    /\ db' = [db EXCEPT ![d] = content]
    /\ firing' = [f \in Firing |-> [firing[f] EXCEPT !.moved = firing[f].pc # "off"]]
    /\ UNCHANGED <<log, output, kills, failures>>

ListRepo(d, r) == Pass(d, [db[d] EXCEPT !.repos = @ \union {r}])

(* The chunks of a repository, all or those of some files                  *)
IndexFiles(d, r) ==
    /\ r \in db[d].repos
    /\ \E chunks \in SUBSET {c \in DOMAIN Ranked : Ranked[c].repo = r} :
          Pass(d, [db[d] EXCEPT !.chunks = {c \in @ : Ranked[c].repo # r} \union chunks])

IndexDump(d) == Pass(d, [db[d] EXCEPT !.tables = Table])

HookNext ==
    \/ \E f \in Firing :
          \/ \E e \in Event : TakeUp(f, e)
          \/ OpenNamed(f) \/ TakeDb(f) \/ NextPlace(f) \/ FindRoot(f) \/ RunQuery(f) \/ QueryFails(f)
          \/ Lookup(f) \/ LogFiring(f) \/ EmitAnswer(f) \/ GiveUp(f)
    \/ \E d \in Db : IndexDump(d) \/ \E r \in Repository : ListRepo(d, r) \/ IndexFiles(d, r)

HookSpec == HookInit /\ [][HookNext]_hookVars

--------------------------------------------------------------------------------
(* The answer a call should get, from the databases as they are: that of   *)
(* the nearest one that covers the directory, nibdex.db before             *)
(* nibdex/nibdex.db.                                                       *)
Nearer(d, e, cwd) ==
    LET Level(x) == CHOOSE i \in DOMAIN Above[cwd] : Above[cwd][i] = x[1]
    IN Level(d) < Level(e) \/ (Level(d) = Level(e) /\ d[2] <= e[2])

Covering(cwd) ==
    {d \in Db : /\ Holds(d[1], cwd)
                /\ \E r \in db[d].repos : Holds(r, cwd) \/ Holds(cwd, r)
                /\ db[d].chunks # {} \/ db[d].tables # {}}

(* Of those that could be asked                                            *)
Nearest(cwd, skipped) ==
    {d \in Covering(cwd) \ skipped : \A e \in Covering(cwd) \ skipped : Nearer(d, e, cwd)}

DueFrom(s) == IF s.env = NoDb THEN Nearest(s.event.cwd, s.skipped) ELSE {s.env} \ s.skipped

(* Mine: of the repository the caller stands in, if it stands in one.      *)
Mine(d, cwd) ==
    {c \in db[d].chunks :
        \/ Around(db[d], cwd) = {}
        \/ /\ Holds(Ranked[c].repo, cwd)
           /\ \A r \in Around(db[d], cwd) : Holds(r, Ranked[c].repo)}

Searched(s, d) == IF s.blind THEN db[d].chunks ELSE Mine(d, s.event.cwd)

Answering(s, d) == {c \in Searched(s, d) : Ranked[c].whole /\ Meets(s.event, c)}

(* A call that ran to its end while no pass wrote is answered, if at all,  *)
(* from the database it was told to ask, else by the nearest covering one  *)
(* that could be asked: from the caller's own repository, unless that      *)
(* could not be read, and its scope, with hits that hold the term, and of  *)
(* its tables.                                                             *)
AnswerIsTheirs ==
    \A f \in Firing : firing[f].pc = "exit" /\ output[f] # Silence /\ ~firing[f].moved =>
        /\ DueFrom(firing[f]) = {output[f].db}
        /\ output[f].hits \subseteq Answering(firing[f], output[f].db)
        /\ output[f].tables \subseteq firing[f].event.tables \intersect db[output[f].db].tables

Room(e) == IF e.scope = {} THEN MaxHits ELSE MaxHits * OverFetch

(* And it is answered when there is something within the fetched rows:     *)
(* another repository's better hits do not use the limit up.  It finds no  *)
(* database only when none that covers the directory could be asked.       *)
HitsFound ==
    \A f \in Firing :
        LET s == firing[f] IN
        ~s.moved =>
            /\ s.pc = "no_index" => DueFrom(s) = {}
            /\ s.pc = "no_hits" =>
                  /\ DueFrom(s) = {s.db}
                  /\ Cardinality(Searched(s, s.db)) <= Room(s.event) => Answering(s, s.db) = {}
            /\ s.pc = "schema_no_hits" =>
                  DueFrom(s) = {s.db} /\ s.event.tables \intersect db[s.db].tables \subseteq s.missed

LinesOf(f) == {i \in Lines : log[i].by = f}

(* Its line was not written whole, or joins one that was not, or there is  *)
(* a character cut in half in the file.                                    *)
MayBeUntold(f) ==
    \/ firing[f].unlogged \/ ~IsText
    \/ \E i \in DOMAIN log : log[i].by = f /\ i > 1 /\ log[i - 1].end # "line"

TellsOnce(f) ==
    /\ Cardinality(LinesOf(f)) <= 1
    /\ Intent(firing[f].event) = "none" => LinesOf(f) = {}
    /\ firing[f].pc = "exit" =>
          /\ Intent(firing[f].event) # "none" /\ ~MayBeUntold(f) => LinesOf(f) # {}
          /\ output[f] = Silence => \A i \in LinesOf(f) : log[i].outcome \notin Delivery
    /\ output[f] # Silence =>
          /\ \A i \in LinesOf(f) : log[i].outcome \in Delivery /\ log[i].db = output[f].db
          /\ MayBeUntold(f) \/ LinesOf(f) # {}

CountsDeliveries(d) ==
    LET printed == {f \in Firing : output[f].db = d}
        unsure  == {f \in Firing : firing[f].pc \in {"print", "killed"}}
        sure    == {f \in printed : ~MayBeUntold(f)}
    IN Deliveries(d) \in Cardinality(sure) .. Cardinality(printed) + Cardinality(unsure)

(* The log is the only trace of the hook: every call it took up and was    *)
(* not killed in has one line, with its outcome and database, and what was *)
(* printed is counted as delivered, by deliveries_for of that database; a  *)
(* write that fails takes its own line and the next, and no other, unless  *)
(* it cuts a character.  No line has an outcome the report does not know.  *)
EveryFiringTold ==
    /\ \A f \in Firing : TellsOnce(f)
    /\ \A d \in Db : CountsDeliveries(d)
    /\ Stats.other = 0
================================================================================
