----------------------------- MODULE ThreadMetric -----------------------------
(***************************************************************************)
(* How many terms have a thread from the prose to the code they describe   *)
(* (thread_metric.rs, symbol_index.rs): a sample of the vocabulary, each   *)
(* term resolved with Provenance, and the measurements summed up.  A term  *)
(* is a record [df, hunks, edits].                                         *)
(***************************************************************************)
EXTENDS Provenance, Functions

CONSTANTS Hour, Day, Week, Cap

(* stratified_sample: every k-th of the candidates, the common ones first  *)
StratifiedSample(candidates, max) ==
    IF max = 0 \/ Len(candidates) <= max THEN candidates
    ELSE [i \in 1 .. max |-> candidates[((i - 1) * Len(candidates)) \div max + 1]]

(* sample_terms: terms of at least two rows                                *)
SampleTerms(vocabulary, max) ==
    StratifiedSample(SortSeq(SelectSeq(vocabulary, LAMBDA t : t.df >= 2),
                             LAMBDA s, t : s.df > t.df), max)

--------------------------------------------------------------------------------
(* measure_terms, and one term of it                                       *)

WindowStart(edits) == IF edits = {} THEN None ELSE Min({e.at : e \in edits})

(* The predating feeder that is closest to the author                      *)
Tightest(deltas) ==
    LET before == {d \in deltas : Predates(d)} IN IF before = {} THEN None ELSE Max(before)

MeasureTerm(term, start) ==
    {LET author == res.diff.author IN
     [df       |-> term.df,
      author   |-> author # None,
      authorAt |-> IF author = None THEN None ELSE author.at,
      lang     |-> IF author = None THEN None ELSE Ext[author.path],
      prose    |-> Tightest({f.delta : f \in res.diff.feeders}),
      session  |-> Tightest({f.delta : f \in res.sessions}),
      possible |-> IF author = None \/ start = None THEN FALSE ELSE author.at >= start] :
        res \in ResolveProvenance(term.hunks, term.edits, Cap)}

--------------------------------------------------------------------------------
(* summarize                                                               *)

Bucket(d) ==
    LET mag == IF d < 0 THEN -d ELSE d
    IN IF mag < Hour THEN "sub_hour" ELSE IF mag < Day THEN "hour_to_day"
       ELSE IF mag < Week THEN "day_to_week" ELSE "week_plus"

(* The upper median of the sizes of a sequence of differences              *)
P50(deltas) ==
    LET mags == SortSeq([i \in DOMAIN deltas |-> -deltas[i]], <)
    IN IF mags = <<>> THEN None ELSE mags[Len(mags) \div 2 + 1]

Shape(deltas) ==
    [bucket |-> [b \in {"sub_hour", "hour_to_day", "day_to_week", "week_plus"} |->
                    Len(SelectSeq(deltas, LAMBDA d : Bucket(d) = b))],
     n      |-> Len(deltas),
     p50    |-> P50(deltas)]

HasFeeder(m) == m.prose # None \/ m.session # None

CountOf(ms, P(_)) == Len(SelectSeq(ms, P))

(* build_tiers: thirds by how many rows hold the term, the last may be     *)
(* short or missing                                                        *)
Tiers(ms) ==
    LET sorted == SortSeq(ms, LAMBDA m, n : m.df < n.df)
        third == (Len(ms) + 2) \div 3
        Slice(i) == SubSeq(sorted, Min({i * third, Len(ms)}) + 1, Min({(i + 1) * third, Len(ms)}))
    IN [i \in {j \in 0 .. 2 : Slice(j) # <<>>} |->
           [terms      |-> Len(Slice(i)),
            lo         |-> Min({Slice(i)[k].df : k \in DOMAIN Slice(i)}),
            hi         |-> Max({Slice(i)[k].df : k \in DOMAIN Slice(i)}),
            withAuthor |-> CountOf(Slice(i), LAMBDA m : m.author),
            withFeeder |-> CountOf(Slice(i), LAMBDA m : m.author /\ HasFeeder(m))]]

(* build_langs                                                             *)
Langs(authored) ==
    [l \in {authored[i].lang : i \in DOMAIN authored} |->
        LET mine == SelectSeq(authored, LAMBDA m : m.lang = l)
            fed  == SelectSeq(mine, HasFeeder)
        IN [authored |-> Len(mine), withFeeder |-> Len(fed),
            p50 |-> P50([i \in DOMAIN fed |-> Tightest({fed[i].prose, fed[i].session})])]]

Summary(ms) ==
    LET authored == SelectSeq(ms, LAMBDA m : m.author)
        prose    == SelectSeq(authored, LAMBDA m : m.prose # None)
        session  == SelectSeq(authored, LAMBDA m : m.session # None)
        either   == CountOf(authored, HasFeeder)
    IN [terms      |-> Len(ms),
        withAuthor |-> Len(authored),
        prose      |-> Len(prose),
        session    |-> Len(session),
        possible   |-> CountOf(authored, LAMBDA m : m.possible),
        either     |-> either,
        neither    |-> Len(authored) - either,
        proseShape   |-> Shape([i \in DOMAIN prose |-> prose[i].prose]),
        sessionShape |-> Shape([i \in DOMAIN session |-> session[i].session]),
        tiers |-> Tiers(ms), langs |-> Langs(authored)]

--------------------------------------------------------------------------------
(* No coverage exceeds its denominator: a term whose author was fed by a   *)
(* session is one whose author falls in the transcripts' window, though    *)
(* the two are computed from different queries.                            *)
CoverageBounded(s) ==
    /\ s.session <= s.possible /\ s.possible <= s.withAuthor
    /\ s.either <= s.prose + s.session /\ s.neither + s.either = s.withAuthor
    /\ s.proseShape.n = s.prose /\ s.sessionShape.n = s.session

(* Tiers and languages tell every term once.                               *)
NothingLost(s) ==
    LET SumOver(f, F(_)) == FoldFunction(+, 0, [x \in DOMAIN f |-> F(f[x])])
    IN /\ SumOver(s.tiers, LAMBDA t : t.terms) = s.terms
       /\ SumOver(s.tiers, LAMBDA t : t.withAuthor) = s.withAuthor
       /\ SumOver(s.tiers, LAMBDA t : t.withFeeder) = s.either
       /\ SumOver(s.langs, LAMBDA l : l.authored) = s.withAuthor
       /\ SumOver(s.langs, LAMBDA l : l.withFeeder) = s.either
       /\ \A i, j \in DOMAIN s.tiers : i < j => s.tiers[i].hi <= s.tiers[j].lo
================================================================================
