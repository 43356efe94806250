------------------------------ MODULE CostLedger ------------------------------
(***************************************************************************)
(* What becomes of the measurements of a tool call: a row of               *)
(* op_measurements, a line of the JSONL sink (metrics_sink.rs) and, when   *)
(* the calibration model prices the tool, a row of cost_ledger_events      *)
(* (mcp/telemetry.rs, cost_ledger.rs).  The sink outlives the database:    *)
(* every server that starts replays it into the ledger.  One server runs   *)
(* per client, all on the same file and the same database.                 *)
(*                                                                         *)
(* The file is the sequence of the fragments that were appended to it, as  *)
(* a write that fails and a writer that is killed may leave any part of a  *)
(* line behind, which the next line of any server then joins.              *)
(***************************************************************************)
EXTENDS Naturals, SequencesExt

CONSTANTS
    Server,
    MaxCalls,       \* bound on tool calls
    Key,            \* (ts, tool) of each call
    Overlap,        \* whether a server may start while another records a call
                    \* or replays
    MaxFaults       \* bound on crashes and on writes that fail

Call == 1 .. MaxCalls

ASSUME LedgerAssumption ==
    MaxCalls \in Nat /\ MaxFaults \in Nat /\ Key \in [Call -> Nat] /\ Overlap \in BOOLEAN

VARIABLES
    calls,          \* tool calls so far
    priced,         \* those with Layer-2 fields
    sink,           \* the file
    ledger,         \* how many rows each call has
    ops,            \* calls with an op_measurements row
    server,         \* what each server is at
    torn,           \* history: calls whose line a fault has cut
    faults

file == <<sink, torn>>
tables == <<ledger, ops>>
vars == <<calls, priced, file, tables, server, faults>>

(* A line is the two halves of its text and its newline.                   *)
Fragment == [call : Call, seg : 1 .. 3]

Text(c) == [seg \in 1 .. 2 |-> [call |-> c, seg |-> seg]]

LineOf(c) == [seg \in 1 .. 3 |-> [call |-> c, seg |-> seg]]

Off == [pc |-> "off", call |-> 0, buffer |-> <<>>, read |-> {}, todo |-> {},
        seen |-> {}, whole |-> FALSE]

Init ==
    /\ calls = 0 /\ priced = {} /\ sink = <<>>
    /\ ledger = [c \in Call |-> 0] /\ ops = {}
    /\ server = [s \in Server |-> Off]
    /\ torn = {} /\ faults = 0

Counted == {c \in Call : ledger[c] > 0}

(* What may go wrong does so MaxFaults times.                              *)
Fault == faults < MaxFaults /\ faults' = faults + 1

--------------------------------------------------------------------------------
(* Startup: reconcile_cost_ledger, backfill_from_jsonl                     *)

Recording(s) == server[s].pc \in {"emit", "record", "keys", "fill"}

(* A line begins at i.                                                     *)
BeginsAt(i) == i \in DOMAIN sink /\ (i = 1 \/ sink[i - 1].seg = 3)

(* It is the whole text of a call and no more.                             *)
LegibleAt(i) ==
    /\ BeginsAt(i) /\ sink[i].seg = 1
    /\ i + 1 \in DOMAIN sink /\ sink[i + 1] = [call |-> sink[i].call, seg |-> 2]
    /\ i + 2 \in DOMAIN sink => sink[i + 2].seg = 3

(* The lines of the sink that belong in the ledger; others, and text that  *)
(* is no JSON, cost nothing.                                               *)
Events == {[at |-> i, call |-> sink[i].call] :
              i \in {k \in DOMAIN sink : LegibleAt(k) /\ sink[k].call \in priced}}

(* read_to_string of the sink.  It fails when a read does, and when a line *)
(* was cut inside a character, as then the file is no text; that is logged *)
(* and the server starts without a replay.                                 *)
Start(s) ==
    /\ server[s].pc = "off"
    /\ Overlap \/ \A o \in Server : ~Recording(o)
    /\ \/ /\ server' = [server EXCEPT ![s] =
                 [Off EXCEPT !.pc = "keys", !.todo = Events,
                             !.read = {line.call : line \in Events}]]
          /\ UNCHANGED faults
       \/ /\ server' = [server EXCEPT ![s] = [Off EXCEPT !.pc = "serve"]]
          /\ Fault \/ (torn # {} /\ UNCHANGED faults)
    /\ UNCHANGED <<calls, priced, file, tables>>

(* Mutant: what is there already is not asked for.                         *)
NoKeys(rows) == {}

(* SELECT ts, tool FROM cost_ledger_events                                 *)
Keys(rows) == {Key[c] : c \in rows}

(* A replay that fails is logged, and the server serves.                   *)
ReplayFails(s) ==
    /\ Fault
    /\ server' = [server EXCEPT ![s].pc = "serve", ![s].todo = {}]

LoadKeys(s) ==
    /\ server[s].pc = "keys"
    /\ \/ /\ server' = [server EXCEPT ![s].pc = "fill", ![s].seen = Keys(Counted)]
          /\ UNCHANGED faults
       \/ ReplayFails(s)
    /\ UNCHANGED <<calls, priced, file, tables>>

(* Mutant: a key counts as seen whether or not its row was written.        *)
SkipsAll(s, c) == TRUE

Skips(s, c) == Key[c] \in server[s].seen

(* The next line: skipped when its key is known, else a row of its own,    *)
(* outside any transaction; an insert that fails ends the replay.          *)
Fill(s) ==
    /\ server[s].pc = "fill"
    /\ \E line \in server[s].todo :
        /\ \A other \in server[s].todo : line.at <= other.at
        /\ \/ /\ Skips(s, line.call)
              /\ server' = [server EXCEPT ![s].todo = @ \ {line}]
              /\ UNCHANGED <<ledger, faults>>
           \/ /\ ~Skips(s, line.call)
              /\ ledger' = [ledger EXCEPT ![line.call] = @ + 1]
              /\ server' = [server EXCEPT ![s].todo = @ \ {line},
                                          ![s].seen = @ \union {Key[line.call]}]
              /\ UNCHANGED faults
           \/ ~Skips(s, line.call) /\ ReplayFails(s) /\ UNCHANGED ledger
    /\ UNCHANGED <<calls, priced, file, ops>>

Ready(s) ==
    /\ server[s].pc = "fill" /\ server[s].todo = {}
    /\ server' = [server EXCEPT ![s].pc = "serve", ![s].whole = TRUE]
    /\ UNCHANGED <<calls, priced, file, tables, faults>>

--------------------------------------------------------------------------------
(* A tool call                                                             *)

(* The handler has its answer, or its error, and has tried to measure it.  *)
(* An error, and a tool without an entry in calibration.toml, have no      *)
(* Layer-2 fields.                                                         *)
Answer(s) ==
    LET c == calls + 1 IN
    /\ server[s].pc = "serve" /\ calls < MaxCalls
    /\ calls' = c
    /\ priced' \in {priced, priced \union {c}}
    /\ \/ ops' = ops \union {c} /\ UNCHANGED faults
       \/ ops' = ops /\ Fault
    /\ server' = [server EXCEPT ![s].pc = "emit", ![s].call = c]
    /\ UNCHANGED <<file, ledger>>

(* The call whose line is left without its end                             *)
Cut(fragments) ==
    IF fragments = <<>> \/ Last(fragments).seg = 3 THEN {} ELSE {Last(fragments).call}

(* A flush that fails, or is interrupted, has written so many.             *)
Flushes(fragments, n) ==
    /\ sink' = sink \o SubSeq(fragments, 1, n)
    /\ torn' = torn \union Cut(SubSeq(fragments, 1, n)) \union Cut(fragments)

(* Mutant: the writer forgets that it has written.                         *)
RestAll(fragments, n) == fragments

(* What a BufWriter still holds when it has written n                      *)
Rest(fragments, n) == SubSeq(fragments, n + 1, Len(fragments))

Emitted(s, buffer) ==
    server' = [server EXCEPT ![s].pc = "record", ![s].buffer = buffer]

(* MetricsSink::emit: under the mutex the line and its newline go to the   *)
(* BufWriter, which writes what it holds.                                  *)
Emit(s) ==
    LET held == server[s].buffer
        lines == held \o LineOf(server[s].call)
    IN
    /\ server[s].pc = "emit"
    /\ sink' = sink \o lines /\ Emitted(s, Rest(lines, Len(lines)))
    /\ UNCHANGED <<calls, priced, torn, tables, faults>>

(* It has failed, in the middle of what it wrote, and holds the rest; of   *)
(* the line it has what found room before the write that failed.  A line   *)
(* larger than the buffer is written directly, and the rest is lost.       *)
EmitFails(s) ==
    LET held == server[s].buffer
        c == server[s].call
    IN
    /\ server[s].pc = "emit" /\ Fault
    /\ \/ \E taken \in {held, held \o Text(c), held \o LineOf(c)} :
            \E n \in 0 .. Len(taken) - 1 :
                Flushes(taken, n) /\ Emitted(s, Rest(taken, n))
       \/ \E n \in 0 .. 1 :
            LET written == held \o SubSeq(Text(c), 1, n)
            IN Flushes(written, Len(written)) /\ Emitted(s, <<>>)
    /\ UNCHANGED <<calls, priced, tables>>

(* layer2.is_some()                                                        *)
Records(c) == c \in priced

(* record_event, whose failure is logged                                   *)
Record(s) ==
    LET c == server[s].call IN
    /\ server[s].pc = "record"
    /\ \/ /\ ledger' = IF Records(c) THEN [ledger EXCEPT ![c] = @ + 1] ELSE ledger
          /\ UNCHANGED faults
       \/ Fault /\ UNCHANGED ledger
    /\ server' = [server EXCEPT ![s].pc = "serve", ![s].call = 0]
    /\ UNCHANGED <<calls, priced, file, ops>>

--------------------------------------------------------------------------------
(* The end of a server                                                     *)

(* The client is gone: the BufWriter is flushed when it is dropped, which  *)
(* nobody hears of if it fails.                                            *)
Stop(s) ==
    LET held == server[s].buffer IN
    /\ server[s].pc = "serve"
    /\ \/ sink' = sink \o held /\ UNCHANGED <<torn, faults>>
       \/ Fault /\ \E n \in 0 .. Len(held) - 1 : Flushes(held, n)
    /\ server' = [server EXCEPT ![s] = Off]
    /\ UNCHANGED <<calls, priced, tables>>

(* Killed at any point, also in the middle of a write, with what it holds. *)
Crash(s) ==
    LET lines == server[s].buffer \o LineOf(server[s].call) IN
    /\ server[s].pc # "off" /\ Fault
    /\ \/ UNCHANGED file
       \/ server[s].pc = "emit" /\ \E n \in 1 .. Len(lines) : Flushes(lines, n)
    /\ server' = [server EXCEPT ![s] = Off]
    /\ UNCHANGED <<calls, priced, tables>>

(* The database is deleted and indexed anew.                               *)
Rebuild ==
    /\ \A s \in Server : server[s].pc = "off"
    /\ Counted # {}
    /\ ledger' = [c \in Call |-> 0] /\ ops' = {}
    /\ UNCHANGED <<calls, priced, file, server, faults>>

Next ==
    \/ \E s \in Server :
        \/ Start(s) \/ LoadKeys(s) \/ Fill(s) \/ Ready(s)
        \/ Answer(s) \/ Emit(s) \/ EmitFails(s) \/ Record(s)
        \/ Stop(s) \/ Crash(s)
    \/ Rebuild

Spec == Init /\ [][Next]_vars

--------------------------------------------------------------------------------
TypeOK ==
    /\ calls \in 0 .. MaxCalls /\ priced \subseteq 1 .. calls /\ ops \subseteq 1 .. calls
    /\ sink \in Seq(Fragment) /\ torn \subseteq 1 .. calls /\ faults \in 0 .. MaxFaults
    /\ ledger \in [Call -> Nat]
    /\ \A s \in Server :
        /\ server[s].pc \in {"off", "keys", "fill", "serve", "emit", "record"}
        /\ server[s].buffer \in Seq(Fragment) /\ server[s].read \subseteq Call
        /\ server[s].todo \subseteq [at : Nat, call : Call]
        /\ server[s].seen \subseteq {Key[c] : c \in Call}

(* "A re-run never double-counts": however often servers start, crash in   *)
(* the middle of a replay or between the sink and the ledger, whatever     *)
(* writes fail, no call is counted twice, and none that has not been       *)
(* priced (backfill_from_jsonl).                                           *)
CountedOnce == Counted \subseteq priced /\ \A c \in Call : ledger[c] <= 1

(* The rollup "reflects the full history again": once a replay has got     *)
(* through, every call in the sink it has read is in the ledger, by its    *)
(* key, until the next rebuild.                                            *)
Reconciled ==
    \A s \in Server : server[s].whole => Keys(server[s].read) \subseteq Keys(Counted)

(* The line that begins at i holds a part of a line that was cut, or what  *)
(* was made up for it later.                                               *)
HoldsTorn(i) ==
    \E j \in i .. Len(sink) :
        sink[j].call \in torn /\ \A k \in i .. j - 1 : sink[k].seg # 3

(* The file is a log: however servers take turns to write, fail in the     *)
(* middle of a line, make up for it later or are killed, nothing is in it  *)
(* twice, a line that cannot be read holds part of one that a fault cut,   *)
(* and a fault cuts the line it is in and that of its call (emit).         *)
SinkIsLog ==
    /\ \A i, j \in DOMAIN sink : i # j => sink[i] # sink[j]
    /\ \A i \in DOMAIN sink : BeginsAt(i) /\ ~LegibleAt(i) => HoldsTorn(i)
    /\ Cardinality(torn) <= 2 * faults
================================================================================
