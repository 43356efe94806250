-------------------------------- MODULE Savings --------------------------------
(***************************************************************************)
(* What a call is said to have saved, and the ways of that number: into    *)
(* the event and the ledger (cost_ledger.rs, mcp/telemetry.rs), through    *)
(* the windows of check() and the export (metrics_export.rs), and back     *)
(* from the export through rescore (rescore.rs).                           *)
(*                                                                         *)
(* A call is a record [at, tool, result, returned, error, query]; at is    *)
(* its time, result its size in tokens, returned the hits, error the kind  *)
(* of its failure or None, query None or [terms, length, ops].  A model is *)
(* [tools, overhead, factor, zeroMatch], the contents of calibration.toml; *)
(* its factor is in tenths.                                                *)
(***************************************************************************)
EXTENDS Integers, SequencesExt, FiniteSetsExt, Functions

CONSTANTS
    None,
    SafeKey     \* the names of lower case letters, digits, '_' and '.'

AtLeast(a, b) == IF a >= b THEN a ELSE b

SumOver(s, F(_)) == FoldLeft(LAMBDA n, x : n + F(x), 0, s)

Tool(model, name) == IF name \in DOMAIN model.tools THEN {model.tools[name]} ELSE {}

--------------------------------------------------------------------------------
(* Layer2Fields::from_entry                                                *)

(* The tokens of a search by hand: no less than the result and its search  *)
Floor(model, result) == (result * model.factor + 5) \div 10 + model.overhead

(* Mutant: without the match gate, nothing found has saved the anchor.     *)
Ungated(model, entry, result, returned) ==
    IF entry.p50 = 0 THEN [p50 |-> 0, saved |-> 0]
    ELSE LET effective == AtLeast(entry.p50, Floor(model, result))
         IN [p50 |-> effective, saved |-> effective - result]

Effective(model, entry, result, returned) ==
    IF entry.p50 = 0 THEN [p50 |-> 0, saved |-> 0]
    ELSE IF returned = 0
    THEN [p50 |-> AtLeast(result + model.zeroMatch, 0), saved |-> model.zeroMatch]
    ELSE LET effective == AtLeast(entry.p50, Floor(model, result))
         IN [p50 |-> effective, saved |-> effective - result]

FromEntry(model, entry, result, returned) ==
    LET e == Effective(model, entry, result, returned)
    IN [p50 |-> AtLeast(e.p50, 0), p95 |-> AtLeast(AtLeast(entry.p95, e.p50), 0), saved |-> e.saved]

Compute(model, tool, result, returned) ==
    {FromEntry(model, entry, result, returned) : entry \in Tool(model, tool)}

--------------------------------------------------------------------------------
(* The event of a call, and its row in the ledger                          *)

Layer2(model, call) ==
    IF model = None \/ call.error # None THEN {}
    ELSE Compute(model, call.tool, call.result, call.returned)

Event(model, call) ==
    [at |-> call.at, tool |-> call.tool, query |-> call.query, error |-> call.error,
     result |-> IF call.error = None THEN call.result ELSE 0,
     returned |-> IF call.error = None THEN call.returned ELSE 0, layer2 |-> Layer2(model, call)]

(* record_event, insert_ledger_row: the events that have been priced       *)
LedgerRows(events) ==
    LET priced == SelectSeq(events, LAMBDA e : e.layer2 # {})
        Priced(e) == CHOOSE l \in e.layer2 : TRUE
    IN [i \in DOMAIN priced |->
           [at |-> priced[i].at, tool |-> priced[i].tool, result |-> priced[i].result,
            p50 |-> Priced(priced[i]).p50, saved |-> Priced(priced[i]).saved]]

(* aggregate_window                                                        *)
AggregateWindow(rows, cutoff) ==
    LET in == SelectSeq(rows, LAMBDA r : r.at >= cutoff)
    IN [queries |-> Len(in), result |-> SumOver(in, LAMBDA r : r.result),
        p50 |-> SumOver(in, LAMBDA r : r.p50), saved |-> SumOver(in, LAMBDA r : r.saved),
        perTool |-> [t \in {in[i].tool : i \in DOMAIN in} |->
            LET own == SelectSeq(in, LAMBDA r : r.tool = t)
            IN [queries |-> Len(own), saved |-> SumOver(own, LAMBDA r : r.saved)]]]

--------------------------------------------------------------------------------
(* The export                                                              *)

(* count_bucket: the least number of the bucket                            *)
CountBucket(n) ==
    Max({b \in {0, 1, 2, 4, 8, 16, 32, 64, 128, 256, 512, 1024, 4096, 16384, 65536} : b <= AtLeast(n, 0)})

(* filter_safe_keys                                                        *)
FilterSafeKeys(m) == Restrict(m, DOMAIN m \intersect SafeKey)

ErrorKinds == {"fts5_syntax", "sqlite", "internal"}

(* scrub_row: of a query its shape, of a name what is known                *)
ScrubRow(e) ==
    [tool |-> IF e.tool \in SafeKey THEN e.tool ELSE "unknown",
     query |-> IF e.query = None THEN None
               ELSE [terms |-> CountBucket(e.query.terms), length |-> CountBucket(e.query.length),
                     ops |-> e.query.ops],
     error |-> IF e.error = None THEN None ELSE IF e.error \in ErrorKinds THEN e.error ELSE "unknown",
     result |-> e.result, returned |-> e.returned, layer2 |-> e.layer2]

(* run_export.  A line that is no event ends the export; a time that       *)
(* cannot be read is in every window.                                      *)
RunExport(lines, cutoff) ==
    LET kept == SelectSeq(lines, LAMBDA e : e = None \/ cutoff = None \/ e.at = None \/ e.at >= cutoff)
        rows == [i \in DOMAIN kept |-> ScrubRow(kept[i])]
        Count(P(_)) == Len(SelectSeq(rows, P))
    IN IF None \in ToSet(lines) THEN None
       ELSE [rows |-> rows, total |-> Len(lines),
             unreadable |-> IF cutoff = None THEN 0 ELSE Len(SelectSeq(kept, LAMBDA e : e.at = None)),
             errors |-> Count(LAMBDA r : r.error # None),
             losses |-> Count(LAMBDA r : \E l \in r.layer2 : l.saved < 0)]

(* scrub_snapshot: the counts of check() as buckets, of its maps the safe  *)
(* keys, and how many are dropped                                          *)
ScrubSnapshot(c) ==
    [counts    |-> [k \in DOMAIN c.counts |-> CountBucket(c.counts[k])],
     documents |-> [k \in DOMAIN FilterSafeKeys(c.documents) |-> CountBucket(c.documents[k])],
     p50 |-> FilterSafeKeys(c.p50), p95 |-> FilterSafeKeys(c.p95), runs |-> FilterSafeKeys(c.runs),
     dropped |-> FoldLeft(LAMBDA n, m : n + Cardinality(DOMAIN m \ SafeKey), 0,
                          <<c.documents, c.p50, c.p95, c.runs>>)]

--------------------------------------------------------------------------------
(* rescore                                                                 *)

Saved(layer2) == IF layer2 = {} THEN None ELSE (CHOOSE l \in layer2 : TRUE).saved

(* run_rescore, of one row                                                 *)
Rescored(model, row) ==
    LET new == IF row.error # None THEN {} ELSE Compute(model, row.tool, row.result, row.returned)
    IN [tool |-> row.tool, recorded |-> Saved(row.layer2), rescored |-> Saved(new),
        status |-> IF row.error # None THEN "error" ELSE IF new = {} THEN "not in model" ELSE "scored"]

RunRescore(model, rows) == [i \in DOMAIN rows |-> Rescored(model, rows[i])]

Delta(r) == IF r.recorded = None \/ r.rescored = None THEN None ELSE r.rescored - r.recorded

OrZero(n) == IF n = None THEN 0 ELSE n

Totals(report) ==
    [recorded |-> SumOver(report, LAMBDA r : OrZero(r.recorded)),
     rescored |-> SumOver(report, LAMBDA r : OrZero(r.rescored)),
     changed  |-> Len(SelectSeq(report, LAMBDA r : Delta(r) \notin {None, 0})),
     perTool  |-> [t \in {report[i].tool : i \in DOMAIN report} |->
         LET own == SelectSeq(report, LAMBDA r : r.tool = t)
         IN [calls |-> Len(own), recorded |-> SumOver(own, LAMBDA r : OrZero(r.recorded)),
             rescored |-> SumOver(own, LAMBDA r : OrZero(r.rescored))]]]

(* largest_corrections: the places of the rows that moved most             *)
LargestCorrections(report, n) ==
    LET moved == {i \in DOMAIN report : Delta(report[i]) \notin {None, 0}}
        Size(i) == AtLeast(Delta(report[i]), -Delta(report[i]))
        sorted == SetToSortSeq(moved, LAMBDA i, j : Size(i) > Size(j) \/ (Size(i) = Size(j) /\ i < j))
    IN SubSeq(sorted, 1, Min({n, Len(sorted)}))

--------------------------------------------------------------------------------
(* A saving is what the by-hand search would have cost less the result     *)
(* (but where the zero-match knob takes it below nothing): a call that     *)
(* found something never saves less than the search overhead, one that     *)
(* found nothing never more than the knob says, an administrative one      *)
(* nothing (Layer2Fields::from_entry).                                     *)
HonestSaving(model, call) ==
    \A l \in Layer2(model, call) : \A entry \in Tool(model, call.tool) :
        /\ 0 <= l.p50 /\ l.p50 <= l.p95
        /\ entry.p50 = 0 => l.saved = 0
        /\ entry.p50 # 0 /\ l.p50 > 0 => l.saved = l.p50 - call.result
        /\ entry.p50 # 0 /\ call.returned = 0 => l.saved = model.zeroMatch
        /\ entry.p50 # 0 /\ call.returned > 0 /\ model.factor >= 10 => l.saved >= model.overhead

(* The number is the same whichever way it goes: the window of the ledger  *)
(* is what the export over the same time recorded; what rescore makes of   *)
(* the export is what the ledger would say had its model been live; no     *)
(* call is lost or counted twice, and an error is counted as one and saves *)
(* nothing everywhere.                                                     *)
OneAccount(live, loaded, calls, cutoff) ==
    LET Window(model) ==
            AggregateWindow(LedgerRows([i \in DOMAIN calls |-> Event(model, calls[i])]), cutoff)
        export == RunExport([i \in DOMAIN calls |-> Event(live, calls[i])], cutoff)
        report == RunRescore(loaded, export.rows)
        totals == Totals(report)
        in == SelectSeq(calls, LAMBDA c : c.at >= cutoff)
    IN /\ totals.recorded = Window(live).saved
       /\ (\A c \in ToSet(calls) : c.tool \in SafeKey) => totals.rescored = Window(loaded).saved
       /\ live = loaded => totals.changed = 0
       /\ totals.changed = Len(LargestCorrections(report, Len(report)))
       /\ Len(report) = Len(in)
       /\ export.errors = Len(SelectSeq(in, LAMBDA c : c.error # None))
       /\ export.errors = Len(SelectSeq(report, LAMBDA r : r.status = "error"))
       /\ FoldFunction(LAMBDA t, n : t.saved + n, 0, Window(live).perTool) = Window(live).saved
       /\ FoldFunction(LAMBDA t, n : t.recorded + n, 0, totals.perTool) = totals.recorded

(* An export has all of its window or is none: no line is skipped in       *)
(* silence, and what leaves of a name is safe or the export's own          *)
(* (run_export, scrub_row, scrub_snapshot).                                *)
WholeExport(lines, cutoff, snapshot) ==
    LET export == RunExport(lines, cutoff)
        old == {i \in DOMAIN lines : lines[i] # None /\ cutoff # None
                                        /\ lines[i].at # None /\ lines[i].at < cutoff}
        sent == ScrubSnapshot(snapshot)
        Keys(c) == {<<"documents", k>> : k \in DOMAIN c.documents} \union {<<"p50", k>> : k \in DOMAIN c.p50}
                   \union {<<"p95", k>> : k \in DOMAIN c.p95} \union {<<"runs", k>> : k \in DOMAIN c.runs}
    IN /\ export = None <=> None \in ToSet(lines)
       /\ export # None =>
              /\ Len(export.rows) = Len(lines) - Cardinality(old)
              /\ \A i \in DOMAIN export.rows :
                     /\ export.rows[i].tool \in SafeKey \union {"unknown"}
                     /\ export.rows[i].error \in ErrorKinds \union {None, "unknown"}
       /\ Keys(sent) = {k \in Keys(snapshot) : k[2] \in SafeKey}
       /\ sent.dropped = Cardinality(Keys(snapshot) \ Keys(sent))
================================================================================
