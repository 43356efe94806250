-------------------------------- MODULE Queries --------------------------------
(***************************************************************************)
(* A call of a query tool (mcp/server.rs), from the request to the answer  *)
(* and its measurements: the count, its OR-broadened retry, the rows, the  *)
(* advice and the diagnosis of an empty result (mcp/query.rs, fts5.rs,     *)
(* neighbourhood.rs, format.rs) are statements of their own, and the       *)
(* daemon may commit between any two.                                      *)
(*                                                                         *)
(* A row is its place in the order of bm25, the best first.  One corpus is *)
(* searched in a call; a row has a file, a repository, a session, a time   *)
(* and sizes, as far as its corpus does.                                   *)
(***************************************************************************)
EXTENDS Integers, SequencesExt, FiniteSetsExt

CONSTANTS
    Row, PathOf, Repo, Session, Time, Snippet, Full, Words,
    Query,          \* match expressions
    Plain,          \* those that are plain terms, two at least
    Malformed,      \* those FTS5 does not parse
    Narrow, Wide,   \* the rows that hold all, or any, of a query's terms
    Said,           \* the words of a query
    Blank,          \* a request's query of white space
    Nothing,
    Scope,          \* the sets of repositories a `repo` argument may match
    Limits,         \* limits asked for
    MaxLimit, DefaultLimit, Cutoff,
    DeepScanDepth, BodyLimit, BodyBudget, SummaryLimit,
    Sample, MinLocalDocs, MaxTerms,
    Priced,         \* tools in calibration.toml; none if there is no model
    MaxCommits, MaxFaults   \* bounds on what others commit, and on failures

ASSUME QueriesAssumption ==
    /\ Row \subseteq Nat /\ IsFiniteSet(Row)
    /\ \A r \in Row : Time[r] \in Int /\ Snippet[r] \in Nat \ {0}
    /\ \A q \in Query : Narrow[q] \subseteq Wide[q] /\ Wide[q] \subseteq Row
    /\ Plain \intersect Malformed = {}
    /\ Limits \subseteq Int \union {Nothing}
    /\ {MaxLimit, DefaultLimit} \subseteq Nat \ {0}
    /\ {DeepScanDepth, BodyLimit, BodyBudget, SummaryLimit, MaxCommits, MaxFaults} \subseteq Nat
    /\ Nothing \notin Int \union BOOLEAN
    /\ Nothing \notin [outcome : {"ok", "error"}, returned : Nat, fts : Nat,
                      broadened : BOOLEAN \union {Nothing}]

VARIABLES
    index,      \* the rows of the corpus
    call,       \* the call
    stayed,     \* the rows that have been there since it began (history)
    commits, faults

queryVars == <<index, call, stayed, commits, faults>>

--------------------------------------------------------------------------------
(* What a request asks for                                                 *)

Limit(l) == IF l = Nothing THEN DefaultLimit ELSE Max({1, Min({l, MaxLimit})})

(* like_substring: the argument is taken literally                         *)
InScope(req, r) == req.repo = Nothing \/ Repo[r] \in req.repo

(* What a statement with this query and scope selects from                 *)
Matching(rows, req, wide) ==
    {r \in rows :
        /\ InScope(req, r)
        /\ req.recent => Time[r] >= Cutoff
        /\ req.query # Nothing => r \in (IF wide THEN Wide ELSE Narrow)[req.query]}

SessionsOf(rows) == {Session[r] : r \in rows}

(* Mutant: every edit of a session counts.                                 *)
CountAll(req, rows) == Cardinality(rows)

Counted(req, rows) ==
    IF req.tool = "recent_sessions" THEN Cardinality(SessionsOf(rows)) ELSE Cardinality(rows)

--------------------------------------------------------------------------------
(* The rows of an answer: the sequences a statement may return             *)

First(s, n) == SubSeq(s, 1, Min({n, Len(s)}))

(* The members of a set, each behind those that are ahead of it            *)
InOrder(S, ahead) ==
    [i \in 1 .. Cardinality(S) |->
        CHOOSE r \in S : Cardinality({s \in S : <<s, r>> \in ahead}) = i - 1]

Newer(r, s) == Time[r] > Time[s] \/ (Time[r] = Time[s] /\ r > s)

(* run_recent_sessions: the last of its matching edits for each session;   *)
(* sessions that were active at the same time come in any order            *)
RecentSessions(rows, limit) ==
    LET last == {r \in rows : \A s \in rows : Session[s] = Session[r] => ~Newer(s, r)}
    IN {First(p, limit) : p \in {q \in SetToSeqs(last) :
            \A i, j \in DOMAIN q : i < j => Time[q[i]] >= Time[q[j]]}}

(* run_recent_commits: the newest, the better match among the equally new  *)
ByTime ==
    {p \in Row \X Row : Time[p[1]] > Time[p[2]] \/ (Time[p[1]] = Time[p[2]] /\ p[1] < p[2])}

RecentCommits(rows, limit) == {First(InOrder(rows, ByTime), limit)}

ByRank == {p \in Row \X Row : p[1] < p[2]}

Best(rows, limit) == {First(InOrder(rows, ByRank), limit)}

FindSession(rows, limit) == Best(rows, limit)
FindCommit(rows, limit) == Best(rows, limit)
FindMemory(rows, limit) == Best(rows, limit)

(* More rows are read than shown                                           *)
FindDesignDoc(rows, limit) == Best(rows, Max({limit, DeepScanDepth}))
FindCode(rows, limit) == Best(rows, Max({limit, DeepScanDepth}))

(* Every row becomes a result, in this order.                              *)
Selected(req, rows) ==
    LET limit == Limit(req.limit) IN
    CASE req.tool = "recent_sessions" -> RecentSessions(rows, limit)
      [] req.tool = "recent_commits"  -> RecentCommits(rows, limit)
      [] req.tool = "find_session"    -> FindSession(rows, limit)
      [] req.tool = "find_commit"     -> FindCommit(rows, limit)
      [] req.tool = "find_memory"     -> FindMemory(rows, limit)
      [] req.tool = "find_design_doc" -> FindDesignDoc(rows, limit)
      [] req.tool = "find_code"       -> FindCode(rows, limit)

--------------------------------------------------------------------------------
(* What is shown of them                                                   *)

Deep(req) == req.tool \in {"find_design_doc", "find_code"}

(* A path is of a repository; documents have theirs in full.               *)
File(req, r) == IF req.tool = "find_code" THEN <<Repo[r], PathOf[r]>> ELSE <<Nothing, PathOf[r]>>

(* summarize, on lengths: at a word, or where it is cut, with an ellipsis  *)
Summarize(length, max) == IF length <= max THEN length ELSE max + 1

(* The bodies of the rows shown, until the budget is spent; then excerpts  *)
Spent(rows) ==
    LET Body(spent, r) == IF spent >= BodyBudget THEN 0 ELSE Summarize(Snippet[r], BodyLimit)
        after[i \in 0 .. Len(rows)] ==
            IF i = 0 THEN 0 ELSE after[i - 1] + Body(after[i - 1], rows[i])
    IN after

Bodies(rows) ==
    LET Body(i) == Spent(rows)[i] - Spent(rows)[i - 1]
    IN [i \in DOMAIN rows |->
           [row |-> rows[i], body |-> Body(i), truncated |-> Body(i) < Full[rows[i]],
            excerpt |-> IF Body(i) = 0 THEN Summarize(Snippet[rows[i]], SummaryLimit) ELSE 0]]

(* build_also_matched: a pointer for each further file, at its best row    *)
AlsoMatched(req, shown, tail) ==
    LET further == {i \in DOMAIN tail : File(req, tail[i]) \notin shown}
        Of(i) == {j \in further : File(req, tail[j]) = File(req, tail[i])}
        first == {i \in further : \A j \in Of(i) : i <= j}
        best == InOrder(first, {p \in first \X first : p[1] < p[2]})
    IN [k \in DOMAIN best |-> [row |-> tail[best[k]], matches |-> Cardinality(Of(best[k]))]]

HeadLength(req, rows) == Min({Limit(req.limit), Len(rows)})

ShownFiles(req, rows) == {File(req, rows[i]) : i \in 1 .. HeadLength(req, rows)}

(* Mutant: the pointers start below what was read, not below what is shown.*)
TailBelow(req, rows) == SubSeq(rows, DeepScanDepth + 1, Len(rows))

TailOf(req, rows) == SubSeq(rows, HeadLength(req, rows) + 1, Len(rows))

Also(req, rows) ==
    IF Deep(req) THEN AlsoMatched(req, ShownFiles(req, rows), TailOf(req, rows)) ELSE <<>>

(* The words that are in several of the best rows of the wider match, in   *)
(* not too many, and rare in the index; by n * ln(rows / df), the largest  *)
(* first, the alphabet among equals.                                       *)
NeighbourhoodTerms(query, rows) ==
    LET sample == First(SetToSortSeq(rows \intersect Wide[query], <), Sample)
        Local(w) == Cardinality({i \in DOMAIN sample : w \in Words[sample[i]]})
        DocFreq(w) == Max({1, Cardinality({r \in rows : w \in Words[r]})})
        terms == {w \in (UNION {Words[r] : r \in rows}) \ Said[query] :
                    /\ MinLocalDocs <= Local(w)
                    /\ Local(w) <= (6 * Len(sample) + 9) \div 10
                    /\ DocFreq(w) < Cardinality(rows)}
        Stronger(v, w) ==
            Cardinality(rows) ^ Local(v) * DocFreq(w) ^ Local(w)
                - Cardinality(rows) ^ Local(w) * DocFreq(v) ^ Local(v)
        Ahead(v, w) == Stronger(v, w) > 0 \/ (Stronger(v, w) = 0 /\ v < w)
    IN First(SetToSortSeq(terms, Ahead), MaxTerms)

--------------------------------------------------------------------------------
(* The call                                                                *)

NoAnswer == [total |-> 0, wide |-> FALSE, rows |-> <<>>, terms |-> <<>>, reach |-> 0,
             empty |-> Nothing, through |-> Nothing]

Idle == [at |-> "idle", req |-> Nothing, ok |-> TRUE, answer |-> NoAnswer,
         lost |-> {}, commits |-> 0, op |-> Nothing, line |-> Nothing, booked |-> FALSE]

QueryInit ==
    /\ index \in SUBSET Row /\ stayed = {} /\ call = Idle
    /\ commits = 0 /\ faults = 0

(* The daemon, or a scan, commits.                                         *)
Commit ==
    /\ commits < MaxCommits /\ commits' = commits + 1
    /\ index' \in (SUBSET Row) \ {index}
    /\ stayed' = stayed \intersect index'
    /\ UNCHANGED <<call, faults>>

Begin(req) ==
    /\ call' = [Idle EXCEPT !.at = "count", !.req = req, !.commits = commits]
    /\ stayed' = index
    /\ UNCHANGED <<index, commits, faults>>

(* A filter of white space is none, but it is one to the measurements.     *)
Recent(tool, filter, repo, limit) ==
    [tool |-> tool, query |-> IF filter = Blank THEN Nothing ELSE filter, repo |-> repo,
     limit |-> limit, recent |-> TRUE, fts |-> filter # Nothing]

Find(tool, query, repo, limit) ==
    [tool |-> tool, query |-> query, repo |-> repo, limit |-> limit, recent |-> FALSE, fts |-> TRUE]

Queries == Query \union {Blank}
Filters == Queries \union {Nothing}

CallRecentSessions ==
    call.at = "idle" /\ \E f \in Filters, l \in Limits :
        Begin(Recent("recent_sessions", f, Nothing, l))

CallRecentCommits ==
    call.at = "idle" /\ \E f \in Filters, p \in Scope, l \in Limits :
        Begin(Recent("recent_commits", f, p, l))

CallFindSession ==
    call.at = "idle" /\ \E q \in Queries, l \in Limits : Begin(Find("find_session", q, Nothing, l))

CallFindCommit ==
    call.at = "idle" /\ \E q \in Queries, p \in Scope, l \in Limits :
        Begin(Find("find_commit", q, p, l))

CallFindMemory ==
    call.at = "idle" /\ \E q \in Queries, l \in Limits : Begin(Find("find_memory", q, Nothing, l))

CallFindDesignDoc ==
    call.at = "idle" /\ \E q \in Queries, l \in Limits : Begin(Find("find_design_doc", q, Nothing, l))

CallFindCode ==
    call.at = "idle" /\ \E q \in Queries, p \in Scope, l \in Limits :
        Begin(Find("find_code", q, p, l))

Go(at, answer) ==
    /\ call' = [call EXCEPT !.at = at, !.answer = answer]
    /\ UNCHANGED <<index, stayed, commits, faults>>

Error == [call EXCEPT !.at = "measure", !.ok = FALSE, !.answer = NoAnswer]

(* A statement the database does not answer                                *)
Fails(next) ==
    /\ faults < MaxFaults /\ faults' = faults + 1
    /\ call' = [next EXCEPT !.lost = @ \union {call.at}]
    /\ UNCHANGED <<index, stayed, commits>>

Refused(req) == req.query = Blank \/ req.query \in Malformed

Refuse ==
    /\ call.at = "count" /\ Refused(call.req)
    /\ call' = Error
    /\ UNCHANGED <<index, stayed, commits, faults>>

(* Mutant: the query is broadened when it has matches, too.                *)
AnyBroadens(req, total) == ~req.recent /\ req.query \in Plain

(* fts5_or_broadened, asked when nothing matched, by the find tools        *)
Broadens(req, total) == ~req.recent /\ total = 0 /\ req.query \in Plain

Count ==
    LET total == Counted(call.req, Matching(index, call.req, FALSE)) IN
    /\ call.at = "count" /\ ~Refused(call.req)
    /\ \/ Go(IF Broadens(call.req, total) THEN "retry" ELSE "select",
             [call.answer EXCEPT !.total = total])
       \/ Fails(Error)

Retry ==
    LET total == Cardinality(Matching(index, call.req, TRUE)) IN
    /\ call.at = "retry"
    /\ \/ Go("select", IF total = 0 THEN call.answer
                       ELSE [call.answer EXCEPT !.total = total, !.wide = TRUE])
       \/ Fails(Error)

Advised(req) == req.tool \in {"find_memory", "find_design_doc"}

Select ==
    /\ call.at = "select"
    /\ \/ \E rows \in Selected(call.req, Matching(index, call.req, call.answer.wide)) :
            Go(IF Advised(call.req) THEN "advise" ELSE "diagnose",
               [call.answer EXCEPT !.rows = rows, !.reach = call.answer.total])
       \/ Fails(Error)

(* neighbourhood_terms: its failure leaves the answer without advice.      *)
Advise ==
    LET req == call.req
        reach == Cardinality(index \intersect Wide[req.query])
        terms == IF reach <= call.answer.total THEN <<>> ELSE NeighbourhoodTerms(req.query, index)
    IN /\ call.at = "advise"
       /\ \/ /\ req.query \in Plain
             /\ Go("diagnose", [call.answer EXCEPT !.terms = terms, !.reach = reach])
          \/ req.query \notin Plain /\ Go("diagnose", call.answer)
          \/ Fails([call EXCEPT !.at = "diagnose"])

(* annotate_empty_result: how many rows the corpus has, then the newest    *)
Diagnose ==
    /\ call.at = "diagnose"
    /\ \/ call.answer.total # 0 /\ Go("measure", call.answer)
       \/ /\ call.answer.total = 0
          /\ Go(IF index = {} THEN "measure" ELSE "newest",
                [call.answer EXCEPT !.empty = (index = {})])
       \/ call.answer.total = 0 /\ Fails([call EXCEPT !.at = "measure"])

Newest ==
    /\ call.at = "newest"
    /\ \/ Go("measure", [call.answer EXCEPT !.through =
                            IF index = {} THEN Nothing ELSE Max({Time[r] : r \in index})])
       \/ Fails([call EXCEPT !.at = "measure"])

--------------------------------------------------------------------------------
(* Its measurements, of which none can fail it                             *)

(* Op::complete, Op::complete_err                                          *)
Measure ==
    /\ call.at = "measure"
    /\ \/ /\ call' = [call EXCEPT !.at = "emit", !.op = IF call.ok THEN "ok" ELSE "error"]
          /\ UNCHANGED <<index, stayed, commits, faults>>
       \/ Fails([call EXCEPT !.at = "emit"])

(* Mutant: what was read is taken for what was returned.                   *)
EmittedRead(c) ==
    [outcome |-> "ok", returned |-> Len(c.answer.rows),
     fts |-> IF c.req.fts THEN c.answer.total ELSE 0,
     broadened |-> IF c.req.fts THEN c.answer.wide ELSE Nothing]

(* emit_metrics: a success has candidates, if a text was searched          *)
Emitted(c) ==
    [outcome |-> "ok", returned |-> HeadLength(c.req, c.answer.rows),
     fts |-> IF c.req.fts THEN c.answer.total ELSE 0,
     broadened |-> IF c.req.fts THEN c.answer.wide ELSE Nothing]

(* emit_error_metrics                                                      *)
EmittedError == [outcome |-> "error", returned |-> 0, fts |-> 0, broadened |-> Nothing]

AfterEmit(c) == IF c.ok /\ c.req.tool \in Priced THEN "book" ELSE "done"

Emit ==
    /\ call.at = "emit"
    /\ \/ /\ call' = [call EXCEPT !.at = AfterEmit(call),
                                  !.line = IF call.ok THEN Emitted(call) ELSE EmittedError]
          /\ UNCHANGED <<index, stayed, commits, faults>>
       \/ Fails([call EXCEPT !.at = AfterEmit(call)])

Book ==
    /\ call.at = "book"
    /\ \/ /\ call' = [call EXCEPT !.at = "done", !.booked = TRUE]
          /\ UNCHANGED <<index, stayed, commits, faults>>
       \/ Fails([call EXCEPT !.at = "done"])

Step ==
    Refuse \/ Count \/ Retry \/ Select \/ Advise \/ Diagnose \/ Newest \/ Measure \/ Emit \/ Book

QueryNext ==
    \/ CallRecentSessions \/ CallRecentCommits \/ CallFindSession \/ CallFindCommit
    \/ CallFindMemory \/ CallFindDesignDoc \/ CallFindCode
    \/ Step \/ Commit

QuerySpec == QueryInit /\ [][QueryNext]_queryVars

--------------------------------------------------------------------------------
Done == call.at = "done"
Answered == Done /\ call.ok

Shown == First(call.answer.rows, Limit(call.req.limit))

(* What is shown for a row, a later edit for one of a session, or what may *)
(* take its place                                                          *)
Stands(req, s, r) ==
    IF req.tool = "recent_sessions" THEN Session[s] = Session[r] /\ ~Newer(r, s) ELSE s = r

Better(req, s, r) == IF req.recent THEN Time[s] >= Time[r] ELSE s < r

FullOfBetter(req, rows, n, r) == Len(rows) = n /\ \A i \in 1 .. n : Better(req, rows[i], r)

Pointed(req, rows) == {File(req, p.row) : p \in ToSet(Also(req, rows))}

(* No answer loses a row to a commit in the middle of the call: a row that *)
(* was there all the time and matches what was asked for is shown, or the  *)
(* answer is full of better ones, and the query has not been broadened;    *)
(* for a session, a later edit of it may stand for the row, and where more *)
(* is read than shown its file is shown or pointed to.                     *)
NoHitLost ==
    Answered =>
        \A r \in Matching(stayed, call.req, FALSE) :
            /\ ~call.answer.wide
            /\ \/ \E i \in DOMAIN Shown : Stands(call.req, Shown[i], r)
               \/ FullOfBetter(call.req, Shown, Limit(call.req.limit), r)
            /\ Deep(call.req) =>
                 \/ File(call.req, r) \in ShownFiles(call.req, call.answer.rows)
                                             \union Pointed(call.req, call.answer.rows)
                 \/ FullOfBetter(call.req, call.answer.rows,
                                 Max({Limit(call.req.limit), DeepScanDepth}), r)

(* "No results" is never left to be guessed at: with no commit and no      *)
(* failure in between, the numbers of an answer agree with its rows, and   *)
(* an empty one says if the corpus is (annotate_empty_result).             *)
QuietAnswer ==
    Answered /\ call.commits = commits /\ call.lost = {} =>
        /\ Len(Shown) = Min({call.answer.total, Limit(call.req.limit)})
        /\ Shown = <<>> <=> call.answer.empty # Nothing
        /\ call.answer.empty = TRUE <=> index = {}
        /\ call.answer.empty = FALSE <=> call.answer.through # Nothing

(* Every row that was read is told of once: shown with a body or, when the *)
(* bodies have filled the budget, an excerpt, or counted in the one pointer*)
(* to its file, which points to the best of them; no file is both, and the *)
(* bodies exceed the budget by one at the most.                            *)
NothingHidden ==
    Answered /\ Deep(call.req) =>
        LET rows == call.answer.rows
            also == Also(call.req, rows)
            bodies == Bodies(Shown)
            shown == ShownFiles(call.req, rows)
            Of(file) == {i \in DOMAIN rows : File(call.req, rows[i]) = file}
            PointsTo(p, file) ==
                /\ File(call.req, p.row) = file
                /\ p.matches = Cardinality(Of(file))
                /\ \E i \in Of(file) : p.row = rows[i] /\ \A j \in Of(file) : i <= j
        IN /\ \A i \in DOMAIN rows : File(call.req, rows[i]) \notin shown =>
                  \E k \in DOMAIN also : PointsTo(also[k], File(call.req, rows[i]))
           /\ \A k, m \in DOMAIN also :
                  k # m => File(call.req, also[k].row) # File(call.req, also[m].row)
           /\ \A k \in DOMAIN also : File(call.req, also[k].row) \notin shown
           /\ \A i \in DOMAIN bodies : bodies[i].body > 0 \/ bodies[i].excerpt > 0
           /\ Spent(Shown)[Len(Shown)] <= BodyBudget + BodyLimit

(* Advice, diagnosis and measurements are free: what fails there neither   *)
(* turns an answer into an error nor changes what is shown of it, and what *)
(* is measured of a call is what its caller got.                           *)
AdviceIsFree ==
    Done =>
        /\ call.ok <=> ~Refused(call.req) /\ call.lost \intersect {"count", "retry", "select"} = {}
        /\ call.op # Nothing => (call.op = "ok" <=> call.ok)
        /\ call.line # Nothing =>
               /\ call.line.outcome = "ok" <=> call.ok
               /\ call.line.returned = Len(Shown)
        /\ call.booked => call.ok /\ (call.line # Nothing \/ "emit" \in call.lost)
================================================================================
