----------------------------- MODULE MCAlgorithms -----------------------------
(* Every state is one call of one of the pure functions: its name and its  *)
(* input, and once it has returned, its answer.                            *)
EXTENDS Integers, Sequences, FiniteSets, TLC

CONSTANT None

VARIABLES call, answer

vars == <<call, answer>>

(* The sequences over S of at most n members                               *)
UpTo(S, n) == UNION {[1 .. k -> S] : k \in 0 .. n}

--------------------------------------------------------------------------------
(* Provenance and the thread metric: three commits, one file each of code, *)
(* design and memory, distances around the thresholds.                     *)
ThreadMetric ==
    INSTANCE ThreadMetric WITH
        Base <- [p \in {"a.rs", "b.md", "c.md", "d.sql"} |-> IF p = "c.md" THEN "MEMORY.md" ELSE p],
        InMemory <- {},
        Ext <- [p \in {"a.rs", "b.md", "c.md", "d.sql"} |->
                   IF p = "a.rs" THEN "rs" ELSE IF p = "d.sql" THEN "sql" ELSE "md"],
        CodeExt <- {"rs"}, ConfigExt <- {"sql"}, DesignExt <- {"md"},
        Hour <- 2, Day <- 3, Week <- 4, Cap <- 3

CommitTime == <<2, 4, 4>>

Hunk(c, p, r) == [commit |-> c, at |-> CommitTime[c], path |-> p, rank |-> r]
Hunks == {Hunk(c, p, r) : c \in 1 .. 3, p \in {"a.rs", "b.md"}, r \in 1 .. 2}

Edit(s, at, r) == [session |-> s, path |-> "a.rs", at |-> at, rank |-> r]
Edits == {<<>>, <<Edit("s", 1, 1)>>, <<Edit("s", 3, 2), Edit("s", 1, 1)>>, <<Edit("s", 3, 1), Edit("t", 5, 2)>>}

MatchInputs ==
    {<<"resolve", ms>> : ms \in UpTo(Hunks, 2) \union
        {<<m, n, o>> : m \in Hunks, n \in Hunks, o \in {Hunk(1, "a.rs", 3), Hunk(3, "c.md", 3), Hunk(2, "d.sql", 0)}}}

Term(df, hs, es) == [df |-> df, hunks |-> hs, edits |-> es]
Terms == {Term(df, hs, es) :
             df \in {2, 3}, es \in Edits,
             hs \in {<<>>, <<Hunk(1, "a.rs", 1)>>, <<Hunk(1, "b.md", 1), Hunk(2, "a.rs", 2)>>,
                     <<Hunk(2, "b.md", 1), Hunk(3, "a.rs", 2)>>, <<Hunk(1, "b.md", 1)>>}}
SomeTerms == <<Term(1, <<>>, <<>>), Term(9, <<Hunk(3, "a.rs", 1)>>, <<>>),
               Term(4, <<Hunk(2, "a.rs", 1)>>, <<Edit("u", 2, 1)>>)>>

TermInputs == {<<"thread", <<t, u>> \o SubSeq(SomeTerms, 1, n)>> : t \in Terms, u \in Terms, n \in {1, 3}}

ThreadAnswers(terms) ==
    LET sample == ThreadMetric!SampleTerms(terms, 4)
        edits == UNION {{terms[i].edits[j] : j \in DOMAIN terms[i].edits} : i \in DOMAIN terms}
        Measured(t) == CHOOSE m \in ThreadMetric!MeasureTerm(t, ThreadMetric!WindowStart(edits)) : TRUE
    IN ThreadMetric!Summary([i \in DOMAIN sample |-> Measured(sample[i])])

--------------------------------------------------------------------------------
(* Commands: a search with up to four arguments, alone or among others.    *)
Command ==
    INSTANCE HookCommand WITH
        Separator <- {";", "&&"}, SearchTool <- {"grep", "rg"}, PatternFlag <- {"-e"},
        Glued <- [t \in {"-ev"} |-> "v"], FileFlag <- {"-f"}, ValuedFlag <- {"-A"},
        OtherFlag <- {"-n", "--"}, Nothing <- None

Arguments == {"-e", "-ev", "-f", "-A", "-n", "w", "src", "."}

CommandInputs ==
    {<<"command", <<"grep">> \o a>> : a \in UpTo(Arguments, 4)}
    \union {<<"command", pre \o a \o post>> :
               pre \in {<<"sudo", "grep">>, <<"ls", "|", "grep", "x", ";", "rg">>, <<"sudo", "&&">>},
               a \in UpTo(Arguments, 2), post \in {<<"|", "grep", "y">>, <<"&&", "rg", "z">>}}

SqlInputs == {<<"sql", w>> : w \in UpTo({"from", "join", "t", "T", "u", "v", "select"}, 4)}

SqlFold == [w \in {"from", "join", "t", "T", "u", "v", "select"} |-> IF w = "T" THEN "t" ELSE w]

--------------------------------------------------------------------------------
(* Files: documents of up to five lines, frontmatters of up to four, logs  *)
(* of up to five, and the repositories of a small tree.                    *)
File == INSTANCE Extractors WITH Quotes <- "quotes"

DocLine(fence, hashes, titled, blank) ==
    [fence |-> fence, hashes |-> hashes, titled |-> titled, blank |-> blank]
DocLines == {DocLine("tick", 0, FALSE, FALSE), DocLine("tilde", 0, FALSE, FALSE),
             DocLine(None, 0, FALSE, FALSE), DocLine(None, 0, FALSE, TRUE),
             DocLine(None, 7, TRUE, FALSE), DocLine(None, 2, FALSE, FALSE)}
            \union {DocLine(None, n, TRUE, FALSE) : n \in 1 .. 3}

(* A title is told by the line it is on.                                   *)
Document(lines) ==
    [i \in DOMAIN lines |->
        [fence |-> lines[i].fence, hashes |-> lines[i].hashes, blank |-> lines[i].blank,
         title |-> IF lines[i].titled THEN i ELSE None]]

DocumentInputs == {<<"document", Document(lines)>> : lines \in UpTo(DocLines, 4)}

Mark == [mark |-> TRUE, skip |-> FALSE, indented |-> FALSE, key |-> None, value |-> None]
Field(indented, key, value) ==
    [mark |-> FALSE, skip |-> FALSE, indented |-> indented, key |-> key, value |-> value]
Comment == [mark |-> FALSE, skip |-> TRUE, indented |-> FALSE, key |-> None, value |-> None]
Fields == {Comment, Field(FALSE, "name", "n"), Field(FALSE, "type", "t"), Field(FALSE, "type", None),
           Field(FALSE, "metadata", None), Field(FALSE, "metadata", "quotes"),
           Field(TRUE, "type", "u"), Field(TRUE, "type", "quotes"), Field(TRUE, "name", "m")}

MemoryInputs ==
    {<<"memory", <<Mark, Field(FALSE, "name", "n")>> \o lines \o <<Mark>>>> : lines \in UpTo(Fields, 4)}
    \union {<<"memory", lines>> : lines \in UpTo({Mark, Field(FALSE, "name", "n"), Field(FALSE, "type", "t")}, 4)}

LogLine(heading, number, words) == [heading |-> heading, number |-> number, words |-> words]
LogLines == {LogLine("log", None, <<>>), LogLine("other", None, <<>>), LogLine(None, -1, <<>>),
             LogLine(None, None, <<<<"file", "a.rs">>, <<"file", "gone.rs">>, <<"todo", 7>>>>),
             LogLine(None, None, <<<<"file", "a.rs">>, <<"todo", 0>>, <<"decision", "SHIPPED">>>>),
             LogLine(None, 9, <<<<"file", "b.rs">>>>), LogLine(None, 8, <<>>)}

LogInputs == {<<"log", lines>> : lines \in UpTo(LogLines, 5)}

Tree == {<<>>, <<"a">>, <<"b">>, <<"a", "b">>, <<"b", "b">>, <<"a", "b", "c">>}
RepoInputs == {<<"repos", repos, depth>> : repos \in SUBSET Tree, depth \in 1 .. 4}

--------------------------------------------------------------------------------
(* A hit's place: files of up to four lines, and two of two windows, some   *)
(* lines of which are replaced by others.                                   *)
Trimmed == [l \in {"alpha", "beta", "gamma", " alpha", "}", " ", ""} |->
               IF l = " alpha" THEN "alpha" ELSE IF l = " " THEN "" ELSE l]

Code ==
    INSTANCE CodeLocation WITH
        ChunkLines <- 3, MinVoters <- 3, Empty <- "", Missing <- None,
        Trim <- Trimmed, Distinctive <- {"alpha", "beta", "gamma"}

CodeFiles ==
    UpTo({"alpha", "beta", "}", ""}, 4)
    \union {<<"alpha", "beta", "gamma">> \o w : w \in UpTo({"alpha", "beta", "gamma"}, 3)}
    \union {<<"alpha", "}", "">> \o w : w \in UpTo({" alpha", " "}, 3)}

(* Some of the file gives way to up to three lines, or all of it is gone.  *)
CodeCall(file) ==
    \/ call = <<"code", file, None>>
    \/ \E i \in 0 .. Len(file) : \E j \in i .. Len(file) :
        \E lines \in {<<>>, <<"alpha">>, <<" alpha", "">>, <<"gamma", "alpha", "beta">>} :
            call = <<"code", file, SubSeq(file, 1, i) \o lines \o SubSeq(file, j + 1, Len(file))>>

--------------------------------------------------------------------------------
(* Savings: calls before and after the cutoff of a priced tool, an         *)
(* administrative one and one the models do not have; two models.          *)
Savings == INSTANCE Savings WITH SafeKey <- {"find_code", "check", "doc"}

Priced(p50, p95) == [p50 |-> p50, p95 |-> p95]
Model(anchor, zero, factor) ==
    [tools |-> [t \in {"find_code", "check"} |-> IF t = "check" THEN Priced(0, 0) ELSE Priced(anchor, 12)],
     overhead |-> 3, factor |-> factor, zeroMatch |-> zero]
Models == {Model(10, 0, 10), Model(10, -4, 15), Model(2, 1, 5)}

Asked(at, tool, result, returned, error) ==
    [at |-> at, tool |-> tool, result |-> result, returned |-> returned, error |-> error,
     query |-> [terms |-> 2, length |-> 9, ops |-> FALSE]]
Calls == {Asked(at, t, result, returned, None) :
             at \in {1, 3}, t \in {"find_code", "check", "Fast-Find"}, result \in {3, 20}, returned \in {0, 2}}
         \union {Asked(at, "find_code", 3, 0, e) : at \in {1, 3}, e \in {"sqlite", "new"}}

Snapshot == [counts |-> [k \in {"commits"} |-> 300], documents |-> [k \in {"doc", "My Doc"} |-> 5],
             p50 |-> [k \in {"find_code", "a/b"} |-> 1], p95 |-> [k \in {"find_code"} |-> 2],
             runs |-> [k \in {"a/b"} |-> 3]]

SavingInputs ==
    {<<"saving", live, loaded, calls>> : live \in Models \union {None}, loaded \in Models, calls \in UpTo(Calls, 2)}

Lines == {None} \union
    {[at |-> at, tool |-> t, query |-> None, error |-> e, result |-> 1, returned |-> 0, layer2 |-> {}] :
        at \in {None, 1, 3}, t \in {"find_code", "Fast-Find"}, e \in {None, "new"}}
ExportInputs == {<<"export", lines, cutoff>> : lines \in UpTo(Lines, 3), cutoff \in {None, 2}}

--------------------------------------------------------------------------------

(* Triage: every file of labels over three names, one below the other,     *)
(* each a repository or not, or the last of them a file.                   *)
Domain ==
    INSTANCE Triage WITH
        Unassigned <- "unassigned", NoPath <- "no path", Up <- "..", Dot <- ".", Empty <- "",
        MaxReportDepth <- 3

Labels == {<<"a">>, <<"a", "b">>, <<"a", "b", "c">>}
Owners == SUBSET {"d", "e"} \union {{"acknowledged"}, {"undecided"}}
Written(path) == Domain!Name(path)

Boundary(owner) ==
    LET Names(d) == {Written(p) : p \in {q \in Labels : d \in owner[q]}}
    IN [domains |-> [d \in {"d", "e"} |-> Names(d)], memory |-> {"d"},
        acknowledged |-> Names("acknowledged"), undecided |-> Names("undecided")]

Disk(repos) ==
    [dirs |-> {<<>>, <<"a">>, <<"a", "b">>, <<"a", "b", "c">>, <<"a", "g">>, <<"a", "b", "c", "h">>},
     files |-> {<<"f">>, <<"a", "f">>, <<"a", "b", "f">>, <<"a", "b", "c", "f">>, <<"a", "g", "f">>},
     repos |-> repos, unread |-> {}, unwalked |-> {<<"a", "g">>}]

DiskWithFile ==
    [Disk({}) EXCEPT !.dirs = @ \ {<<"a", "b", "c">>, <<"a", "b", "c", "h">>},
                     !.files = (@ \ {<<"a", "b", "c", "f">>}) \union {<<"a", "b", "c">>}]

Reply(kind, picks) == [kind |-> kind, picks |-> picks]
Replies == {Reply("acknowledge", <<>>), Reply("end", <<>>), Reply("picks", <<1>>), Reply("picks", <<2, 1>>),
            Reply("picks", <<1, 3>>)}

TriageInputs ==
    {<<"triage", Boundary(owner), Disk(repos), <<x, y>>>> :
        owner \in [Labels -> Owners], repos \in SUBSET Labels,
        x \in Replies, y \in {Reply("acknowledge", <<>>), Reply("picks", <<1>>)}}
    \union {<<"triage", Boundary(owner), DiskWithFile, <<x, x>>>> :
               owner \in [Labels -> Owners], x \in Replies}
LabelInputs ==
    {<<"label", Boundary(owner), Disk({<<"a", "b">>}), Written(name), to>> :
        owner \in [Labels -> Owners], name \in Labels \union {<<"a", "g">>}, to \in SUBSET {"d", "e", "x"}}

Answered(raw, tree, replies) ==
    LET pending == Domain!Pending(raw, tree)
    IN Domain!RunTriage(pending, <<"d", "e">>, [i \in DOMAIN pending |-> replies[1 + (i % 2)]])

--------------------------------------------------------------------------------

Init ==
    /\ answer = None
    /\ \/ call \in MatchInputs \/ call \in TermInputs
       \/ call \in CommandInputs \/ call \in SqlInputs
       \/ call \in DocumentInputs \/ call \in MemoryInputs \/ call \in LogInputs \/ call \in RepoInputs
       \/ \E file \in CodeFiles : CodeCall(file)
       \/ call \in SavingInputs \/ call \in ExportInputs
       \/ call \in TriageInputs \/ call \in LabelInputs

Returned == answer # None

Resolve ==
    /\ call[1] = "resolve" /\ ~Returned
    /\ answer' \in ThreadMetric!Resolutions(call[2])
    /\ UNCHANGED call

Summarize ==
    /\ call[1] = "thread" /\ ~Returned
    /\ answer' = ThreadAnswers(call[2])
    /\ UNCHANGED call

ReadCommand ==
    /\ call[1] = "command" /\ ~Returned
    /\ answer' = <<Command!PatternFrom(call[2]), Command!PathsFrom(call[2])>>
    /\ UNCHANGED call

ReadSql ==
    /\ call[1] = "sql" /\ ~Returned
    /\ answer' = Command!TablesFromSql(call[2], {"from", "join"}, {"select"}, SqlFold)
    /\ UNCHANGED call

ExtractDocument ==
    /\ call[1] = "document" /\ ~Returned
    /\ answer' = File!ExtractSections(call[2])
    /\ UNCHANGED call

ExtractMemory ==
    /\ call[1] = "memory" /\ ~Returned
    /\ answer' = File!ExtractMemoryEntry(call[2])
    /\ UNCHANGED call

ExtractLog ==
    /\ call[1] = "log" /\ ~Returned
    /\ answer' = File!ExtractSessionHistory(call[2], {"a.rs", "b.rs"}, <<"CLOSED", "SHIPPED">>)
    /\ UNCHANGED call

Discover ==
    /\ call[1] = "repos" /\ ~Returned
    /\ answer' = File!SortAndFilter(File!DiscoverRepos(call[2], call[3]), "skip")
    /\ UNCHANGED call

Locate ==
    /\ call[1] = "code" /\ ~Returned
    /\ answer' = Code!Locations(call[2], call[3])
    /\ UNCHANGED call

Rescore ==
    /\ call[1] = "saving" /\ ~Returned
    /\ answer' = Savings!Totals(Savings!RunRescore(call[3],
           Savings!RunExport([i \in DOMAIN call[4] |-> Savings!Event(call[2], call[4][i])], 2).rows))
    /\ UNCHANGED call

Export ==
    /\ call[1] = "export" /\ ~Returned
    /\ answer' = <<Savings!RunExport(call[2], call[3]), Savings!ScrubSnapshot(Snapshot)>>
    /\ UNCHANGED call

AuditAndTriage ==
    /\ call[1] = "triage" /\ ~Returned
    /\ answer' = <<Domain!RunAudit(call[2], call[3], "d", {<<"f">>}, FALSE),
                   Domain!Apply(call[2], Answered(call[2], call[3], call[4])),
                   Domain!Apply(call[2], Domain!StageUndecided(call[2], Domain!Pending(call[2], call[3])))>>
    /\ UNCHANGED call

Label ==
    /\ call[1] = "label" /\ ~Returned
    /\ answer' = Domain!LabelCommand(call[2], call[4], call[5], call[5] = {"x"})
    /\ UNCHANGED call

Next ==
    \/ Resolve \/ Summarize \/ ReadCommand \/ ReadSql \/ Locate
    \/ Rescore \/ Export \/ AuditAndTriage \/ Label
    \/ ExtractDocument \/ ExtractMemory \/ ExtractLog \/ Discover

Spec == Init /\ [][Next]_vars

--------------------------------------------------------------------------------

(* The matches of a term are told apart and told once, in whatever order   *)
(* they come, and the metric loses no term and no session of its sample    *)
(* (Provenance, ThreadMetric).                                             *)
ThreadLaw ==
    /\ Returned /\ call[1] = "resolve" =>
           ThreadMetric!Partitions(call[2], answer) /\ ThreadMetric!OrderFree(call[2])
    /\ Returned /\ call[1] = "thread" =>
           ThreadMetric!CoverageBounded(answer) /\ ThreadMetric!NothingLost(answer)

(* What is read out of a command, a file or a directory is what is there:  *)
(* the question grep was asked, the tables of a statement, the sections,   *)
(* entries and repositories, each once and with its own text and no        *)
(* other's, and the place of a hit in a file that has changed              *)
(* (HookCommand, Extractors, CodeLocation).                                *)
ReadingLaw ==
    /\ Returned /\ call[1] = "command" => Command!SameQuestion(call[2])
    /\ Returned /\ call[1] = "sql" => Command!TwoTables(call[2], {"from", "join"}, {"select"}, SqlFold)
    /\ Returned /\ call[1] = "code" => Code!LinesTiled(call[2]) /\ Code!Anchored(call[2], call[3])
    /\ Returned /\ call[1] = "document" => File!SectionsNest(call[2])
    /\ Returned /\ call[1] = "memory" => File!NestedWins(call[2])
    /\ Returned /\ call[1] = "log" => File!EntriesApart(call[2], {"a.rs", "b.rs"}, <<"CLOSED", "SHIPPED">>)
    /\ Returned /\ call[1] = "repos" => File!OutermostKept(call[2], call[3])

(* The label file changes as it was said it would, widens no domain unasked*)
(* and gets to an end, and the audit tells what no domain admits (Triage). *)
TriageLaw ==
    /\ Returned /\ call[1] = "triage" =>
           LET decisions == Answered(call[2], call[3], call[4])
           IN /\ Domain!NeverWidens(call[2], call[3], decisions)
              /\ Domain!PlanTells(call[2], decisions)
              /\ Domain!Settles(call[2], call[3], decisions)
              /\ Domain!StagingEnds(call[2], call[3])
              /\ Domain!AuditTells(call[2], call[3], "d", {<<"f">>})
    /\ Returned /\ call[1] = "label" /\ call[5] # {} =>
           LET decisions == <<Domain!Decision(call[4], "label", call[5])>>
           IN Domain!NeverWidens(call[2], call[3], decisions) /\ Domain!PlanTells(call[2], decisions)

(* A call's saving is honest and the same number in the ledger, in the     *)
(* export and in rescore, and an export is whole (Savings).                *)
SavingsLaw ==
    /\ Returned /\ call[1] = "saving" =>
           /\ Savings!OneAccount(call[2], call[3], call[4], 2)
           /\ \A i \in DOMAIN call[4] : Savings!HonestSaving(call[2], call[4][i])
    /\ Returned /\ call[1] = "export" => Savings!WholeExport(call[2], call[3], Snapshot)
================================================================================
