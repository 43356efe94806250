----------------------------- MODULE WatcherDaemon -----------------------------
(***************************************************************************)
(* The life of a `nibdex serve` or `nibdex watch` process: the HTTP server *)
(* main waits for, the watcher task (serve_with) with the debouncer it     *)
(* owns, the dispatch loop and the heartbeat loop it spawns, the shutdown  *)
(* signal fanned out to both, and the file_watcher_state row from which    *)
(* check(), in another process, tells whether a watcher is alive.          *)
(*                                                                         *)
(* What a dispatch does to the corpora is FileCorpus and CommitIndex; here *)
(* it reads the file and takes time.  Of the row only last_heartbeat_ts is *)
(* kept, as an age; the event counters are statistics nothing depends on.  *)
(* Times are ages, stopped once too old to matter, in a unit of which only *)
(* the order of the code's intervals is kept.                              *)
(***************************************************************************)
EXTENDS Naturals, Sequences, FiniteSets

CONSTANTS
    Path,           \* paths the subscriptions classify
    None,
    Heartbeat,      \* HEARTBEAT_INTERVAL_SECS
    Window,         \* LIVENESS_WINDOW_SECS
    Busy,           \* how long a statement waits for the write lock
    Drain,          \* what serve_with waits for the dispatch loop
    Join,           \* what main waits for the watcher
    MaxDispatch,    \* the longest a batch takes to dispatch and record
    MaxQueue        \* bound on the batches in the unbounded channel

ASSUME TimeAssumption ==
    /\ {Heartbeat, Window, Busy, Drain, Join, MaxDispatch} \subseteq Nat
    /\ 0 < Drain /\ Drain < Join /\ 0 < Heartbeat /\ Heartbeat < Window
    /\ None \notin Nat

VARIABLES
    main,           \* "down", "http" (serving), "join" (HTTP ended, waits for
                    \* the watcher), "failed" (so after a failed bind), "watch"
    joinFor,        \* how long main has waited
    told,           \* the tasks the shutdown signal has reached
    open,           \* an HTTP connection is open (an MCP stream)
    task,           \* serve_with: "off", "run", "drain", "done"
    drainFor,       \* how long it has waited for the loop
    ticking,        \* the heartbeat loop runs
    beatAge,        \* since the last of its ticks that is dealt with
    fresh,          \* paths the debouncer holds
    chan,           \* batches in the event channel
    loop,           \* run_dispatch_loop: "off", "recv", "dispatch"
    batch,          \* the paths of its batch still to dispatch
    busyFor,        \* since its now_ts
    rowAge,         \* since last_heartbeat_ts; None before the first daemon
    lost,           \* history: heartbeats that failed since a write to the
                    \* row last got through, counted while they may matter
    idleFor,        \* history: since the watcher or its loop last ran
    owed,           \* history: paths changed under a running watcher, not read
                    \* since
    failed          \* history: of them, those whose last dispatch failed

server == <<main, joinFor, told, open>>
watcher == <<task, drainFor, ticking, beatAge>>
events == <<fresh, chan>>
dispatcher == <<loop, batch, busyFor>>
changes == <<owed, failed>>
row == <<rowAge, lost>>
vars == <<server, watcher, events, dispatcher, row, idleFor, changes>>

Init ==
    /\ main = "down" /\ joinFor = 0 /\ told = {} /\ open = FALSE
    /\ task = "off" /\ drainFor = 0 /\ ticking = FALSE /\ beatAge = 0
    /\ fresh = {} /\ chan = <<>>
    /\ loop = "off" /\ batch = {} /\ busyFor = 0
    /\ rowAge = None /\ lost = 0 /\ idleFor = Window + 1
    /\ owed = {} /\ failed = {}

(* serve_with holds the debouncer, and the debouncer holds a sender of the *)
(* channel, until it returns.                                              *)
Debouncing == task \in {"run", "drain"}
Closed == ~Debouncing

(* With the lost heartbeats, the next one that is due, its wait for the    *)
(* lock and the longest batch, the window is not over: as long as this     *)
(* holds, the heartbeats that are lost are counted.                        *)
LostFit == MaxDispatch + Heartbeat * (lost + 1) + Busy <= Window

(* What check() tells of the row: read_live_state.                         *)
ReportedLive == rowAge # None /\ rowAge <= Window

--------------------------------------------------------------------------------
(* The process                                                             *)

InitState == rowAge' = 0 /\ lost' = 0

(* The HTTP server ends at once if its port is taken, which the watcher,   *)
(* already spawned, is not told.  serve_with may fail before init_state, a *)
(* subscribed directory being gone, or after it, a watch being refused;    *)
(* only main's join sees it.                                               *)
Start ==
    /\ main = "down"
    /\ main' \in {"http", "failed", "watch"}
    /\ \/ /\ task' = "run" /\ ticking' = TRUE /\ loop' = "recv"
          /\ InitState /\ idleFor' = 0
       \/ /\ task' = "done" /\ UNCHANGED <<ticking, loop>>
          /\ \/ UNCHANGED <<row, idleFor>>
             \/ InitState /\ idleFor' = 0
    /\ UNCHANGED <<joinFor, told, open, drainFor, beatAge, events, batch,
                   busyFor, changes>>

(* The process ends, in order or killed, and every task with it.           *)
Gone ==
    /\ main' = "down" /\ joinFor' = 0 /\ told' = {} /\ open' = FALSE
    /\ task' = "off" /\ drainFor' = 0 /\ ticking' = FALSE /\ beatAge' = 0
    /\ fresh' = {} /\ chan' = <<>>
    /\ loop' = "off" /\ batch' = {} /\ busyFor' = 0
    /\ owed' = {} /\ failed' = {}
    /\ UNCHANGED <<row, idleFor>>

Kill == main # "down" /\ Gone

--------------------------------------------------------------------------------
(* main and the HTTP server                                                *)

(* Mutant of Signal: the HTTP server is not told.                          *)
SignalWatcherOnly ==
    /\ main # "down" /\ told = {}
    /\ told' = {"watcher"}
    /\ UNCHANGED <<main, joinFor, open, watcher, events, dispatcher, row,
                   idleFor, changes>>

Signal ==
    /\ main # "down" /\ told = {}
    /\ told' = IF main = "watch" THEN {"watcher"} ELSE {"watcher", "http"}
    /\ UNCHANGED <<main, joinFor, open, watcher, events, dispatcher, row,
                   idleFor, changes>>

Connect ==
    /\ main = "http" /\ "http" \notin told /\ ~open
    /\ open' = TRUE
    /\ UNCHANGED <<main, joinFor, told, watcher, events, dispatcher, row,
                   idleFor, changes>>

Disconnect ==
    /\ open /\ open' = FALSE
    /\ UNCHANGED <<main, joinFor, told, watcher, events, dispatcher, row,
                   idleFor, changes>>

(* The server ends when it is told to and no connection is open.           *)
HttpReturns ==
    /\ main = "http" /\ "http" \in told /\ ~open
    /\ main' = "join"
    /\ UNCHANGED <<joinFor, told, open, watcher, events, dispatcher, row,
                   idleFor, changes>>

MainExits ==
    /\ \/ main \in {"watch", "join", "failed"} /\ task = "done"
       \/ main \in {"join", "failed"} /\ joinFor = Join
    /\ Gone

--------------------------------------------------------------------------------
(* serve_with                                                              *)

MoreLost == lost' = IF LostFit THEN lost + 1 ELSE lost

(* The UPDATE of a tick, with the time of the tick.                        *)
HeartbeatWritten ==
    beatAge >= Heartbeat /\ rowAge' = beatAge - Heartbeat /\ lost' = 0

(* Mutant of StopWatching: the heartbeat loop is left to run.              *)
StopWatchingBeating ==
    /\ task = "run" /\ "watcher" \in told
    /\ task' = "drain" /\ owed' = {} /\ failed' = {}
    /\ UNCHANGED <<server, drainFor, ticking, beatAge, events, dispatcher,
                   row, idleFor>>

(* The signal: drop(event_tx), abort the heartbeat, wait for the loop.  A  *)
(* statement of the heartbeat that waits may still get through.            *)
StopWatching ==
    /\ task = "run" /\ "watcher" \in told
    /\ task' = "drain" /\ ticking' = FALSE /\ beatAge' = 0
    /\ owed' = {} /\ failed' = {}
    /\ UNCHANGED row \/ HeartbeatWritten
    /\ UNCHANGED <<server, drainFor, events, dispatcher, idleFor>>

(* Mutant of DrainOver: the loop is awaited without a timeout.             *)
DrainOverUntimed == loop = "off"

DrainOver == loop = "off" \/ drainFor = Drain

(* The timeout lets go of the loop, it does not end it.  Returning drops   *)
(* the debouncer.                                                          *)
ServeReturns ==
    /\ task = "drain" /\ DrainOver
    /\ task' = "done" /\ fresh' = {}
    /\ UNCHANGED <<server, drainFor, ticking, beatAge, chan, dispatcher,
                   row, idleFor, changes>>

(* A watched path changes on disk.                                         *)
Touch(f) ==
    /\ Debouncing
    /\ fresh' = fresh \union {f}
    /\ owed' = IF task = "run" THEN owed \union {f} ELSE owed
    /\ UNCHANGED <<server, watcher, chan, dispatcher, row, idleFor, failed>>

(* Mutant of Debounce: a bounded channel and try_send, its error ignored.  *)
DebounceTrySend ==
    /\ Debouncing /\ fresh # {}
    /\ chan' = IF chan = <<>> THEN <<fresh>> ELSE chan
    /\ fresh' = {}
    /\ UNCHANGED <<server, watcher, dispatcher, row, idleFor, changes>>

(* The debouncer's closure sends what it holds.                            *)
Debounce ==
    /\ Debouncing /\ fresh # {} /\ Len(chan) < MaxQueue
    /\ chan' = Append(chan, fresh) /\ fresh' = {}
    /\ UNCHANGED <<server, watcher, dispatcher, row, idleFor, changes>>

(* Mutant of UpdateHeartbeat: an error is returned with `?`, which ends    *)
(* the loop.                                                               *)
UpdateHeartbeatReturns ==
    /\ ticking /\ beatAge >= Heartbeat
    /\ \/ HeartbeatWritten /\ UNCHANGED ticking
       \/ UNCHANGED rowAge /\ MoreLost /\ ticking' = FALSE
    /\ beatAge' = IF ticking' THEN beatAge - Heartbeat ELSE 0
    /\ UNCHANGED <<server, task, drainFor, events, dispatcher, idleFor, changes>>

(* A tick waits for the write lock, which a dispatch, a query or another   *)
(* process may hold, and its error is printed.  The interval keeps to its  *)
(* times, however long the statement took.                                 *)
UpdateHeartbeat ==
    /\ ticking /\ beatAge >= Heartbeat
    /\ \/ HeartbeatWritten
       \/ UNCHANGED rowAge /\ MoreLost
    /\ beatAge' = beatAge - Heartbeat
    /\ UNCHANGED <<server, task, drainFor, ticking, events, dispatcher,
                   idleFor, changes>>

--------------------------------------------------------------------------------
(* run_dispatch_loop                                                       *)
Receive ==
    /\ loop = "recv" /\ chan # <<>>
    /\ batch' = Head(chan) /\ chan' = Tail(chan)
    /\ loop' = "dispatch" /\ busyFor' = 0
    /\ UNCHANGED <<server, watcher, fresh, row, idleFor, changes>>

(* Mutant of Dispatch: the error is returned with `?` and ends the loop.   *)
DispatchReturns(f) ==
    /\ loop = "dispatch" /\ f \in batch
    /\ batch' = batch \ {f}
    /\ \/ owed' = owed \ {f} /\ failed' = failed \ {f} /\ UNCHANGED loop
       \/ /\ failed' = failed \union (owed \intersect {f}) /\ UNCHANGED owed
          /\ loop' = "off"
    /\ UNCHANGED <<server, watcher, events, busyFor, row, idleFor>>

(* dispatch_one reads the path as it is now, or fails, which is printed.   *)
Dispatch(f) ==
    /\ loop = "dispatch" /\ f \in batch
    /\ batch' = batch \ {f}
    /\ \/ owed' = owed \ {f} /\ failed' = failed \ {f}
       \/ failed' = failed \union (owed \intersect {f}) /\ UNCHANGED owed
    /\ UNCHANGED <<server, watcher, events, loop, busyFor, row, idleFor>>

(* record_batch, with the time taken before the dispatch; its error is     *)
(* printed.                                                                *)
RecordBatch ==
    /\ loop = "dispatch" /\ batch = {}
    /\ \/ rowAge' = busyFor /\ lost' = 0
       \/ UNCHANGED row
    /\ loop' = "recv" /\ busyFor' = 0
    /\ UNCHANGED <<server, watcher, events, batch, idleFor, changes>>

(* recv() yields None: no batch, and no sender left.                       *)
LoopEnds ==
    /\ loop = "recv" /\ chan = <<>> /\ Closed
    /\ loop' = "off"
    /\ UNCHANGED <<server, watcher, events, batch, busyFor, row, idleFor,
                   changes>>

--------------------------------------------------------------------------------
(* Time passes while nothing is due: the runtime serves a ready task or an *)
(* elapsed timer within a unit, and a batch takes at most MaxDispatch.     *)
Older(age) == IF age = None \/ age > Window THEN age ELSE age + 1

Due ==
    \/ ticking /\ beatAge = Heartbeat + Busy
    \/ task = "run" /\ "watcher" \in told
    \/ task = "drain" /\ DrainOver
    \/ main = "http" /\ "http" \in told /\ ~open
    \/ main \in {"join", "failed"} /\ (joinFor = Join \/ task = "done")
    \/ main = "watch" /\ task = "done"
    \/ loop = "recv" /\ (chan # <<>> \/ Closed)
    \/ loop = "dispatch" /\ busyFor = MaxDispatch

Tick ==
    /\ ~Due
    /\ beatAge' = IF ticking THEN beatAge + 1 ELSE beatAge
    /\ drainFor' = IF task = "drain" /\ drainFor < Drain
                   THEN drainFor + 1 ELSE drainFor
    /\ joinFor' = IF main \in {"join", "failed"} THEN joinFor + 1 ELSE joinFor
    /\ busyFor' = IF loop = "dispatch" THEN busyFor + 1 ELSE busyFor
    /\ rowAge' = Older(rowAge)
    /\ idleFor' = IF task = "run" \/ loop # "off" THEN 0 ELSE Older(idleFor)
    /\ UNCHANGED <<main, told, open, task, ticking, events, loop, batch, lost,
                   changes>>

Next ==
    \/ Start \/ Kill \/ Signal \/ Connect \/ Disconnect
    \/ HttpReturns \/ MainExits
    \/ StopWatching \/ ServeReturns
    \/ \E f \in Path : Touch(f) \/ Dispatch(f)
    \/ Debounce \/ Receive \/ RecordBatch \/ LoopEnds
    \/ UpdateHeartbeat \/ Tick

Spec == Init /\ [][Next]_vars

(* The runtime runs every ready task and time goes on.  Nobody has to      *)
(* start, signal, kill or connect, and no client has to hang up.           *)
Fairness ==
    /\ WF_vars(HttpReturns) /\ WF_vars(MainExits)
    /\ WF_vars(StopWatching) /\ WF_vars(ServeReturns)
    /\ WF_vars(Debounce) /\ WF_vars(Receive)
    /\ WF_vars(\E f \in Path : Dispatch(f)) /\ WF_vars(RecordBatch)
    /\ WF_vars(LoopEnds) /\ WF_vars(UpdateHeartbeat) /\ SF_vars(Tick)

FairSpec == Spec /\ Fairness

--------------------------------------------------------------------------------
(* Types; and a watcher that ticks has a row to update.                     *)
TypeOK ==
    /\ main \in {"down", "http", "join", "failed", "watch"}
    /\ joinFor \in 0..Join
    /\ told \subseteq {"watcher", "http"} /\ open \in BOOLEAN
    /\ task \in {"off", "run", "drain", "done"} /\ drainFor \in 0..Drain
    /\ ticking \in BOOLEAN /\ beatAge \in 0..(Heartbeat + Busy)
    /\ fresh \subseteq Path /\ chan \in Seq(SUBSET Path)
    /\ loop \in {"off", "recv", "dispatch"}
    /\ batch \subseteq Path /\ busyFor \in 0..MaxDispatch
    /\ rowAge \in 0..(Window + 1) \union {None} /\ (ticking => rowAge # None)
    /\ lost \in Nat /\ idleFor \in 0..(Window + 1)
    /\ owed \subseteq Path /\ failed \subseteq Path

(* While a watcher runs, check() in another process reports it, however    *)
(* often the record of a batch failed, unless so many heartbeats failed    *)
(* one after the other, and none got through, that the window is over      *)
(* before the next; the record of a batch, whose time is that of its start,*)
(* may take the row back by as much as the longest one takes, see LostFit  *)
(* (update_heartbeat, record_batch and the gate of read_live_state).       *)
AliveReported == task = "run" /\ LostFit => ReportedLive

(* And a watcher that is gone, killed or shut down or failed to start, is  *)
(* not reported once it has been gone for longer than the window, even     *)
(* though an open connection keeps the process up (serve_with aborts the   *)
(* heartbeat; read_live_state).                                            *)
ReportIsRecent == ReportedLive => idleFor <= Window

(* A change under the watch is never forgotten: until it is read it waits  *)
(* in the debouncer, the channel or the batch, or its last dispatch failed *)
(* and was printed (spawn_debouncer, run_dispatch_loop).                   *)
Waits(f) ==
    \/ f \in fresh \union batch
    \/ \E i \in 1..Len(chan) : f \in chan[i]

NothingForgotten == task = "run" => \A f \in owed : Waits(f) \/ f \in failed

(* After a signal the watcher is done before main stops waiting for it:    *)
(* the drain of serve_with fits in main's, whatever the loop was doing.    *)
JoinedInTime == main = "join" /\ joinFor = Join => task = "done"

(* Every change under a running watch is read, or its dispatch failed.     *)
ChangeRead ==
    \A f \in Path : f \in owed ~> (f \notin owed \/ f \in failed \/ task # "run")

(* A signalled process ends, unless a client keeps its connection.         *)
ShutdownEnds == told # {} ~> (main = "down" \/ open)

(* A comment of serve_with: dropping event_tx closes the channel, so that  *)
(* an idle loop sees None and returns; the drain then never runs out on an *)
(* idle loop.                                                              *)
DropEndsLoop ==
    ~(task = "drain" /\ drainFor = Drain /\ loop = "recv" /\ chan = <<>>)
================================================================================
