----------------------------- MODULE ServiceProofs -----------------------------
(***************************************************************************)
(* What holds of the three that serve, for every value of the constants.   *)
(*                                                                         *)
(* The watcher daemon (watcher.rs): check() reports a running watcher as   *)
(* long as the heartbeats lost in a row leave room in the liveness window, *)
(* and none that is gone; no change is forgotten; a signalled watcher is   *)
(* done in time.                                                           *)
(*                                                                         *)
(* The hook (hook.rs): what it adds to a call is of the nearest database   *)
(* it could ask and of the caller's repository, unless that could not be   *)
(* read; it finds what is there; and the log tells of every firing whose   *)
(* line could be written and can be read.                                  *)
(*                                                                         *)
(* A query (mcp/query.rs, mcp/server.rs): no commit in the middle of a     *)
(* call loses a row of its answer, nothing that was read is left out of    *)
(* it, the numbers of a call that nothing disturbs agree with its rows,    *)
(* and neither advice nor measurement fails it.                            *)
(***************************************************************************)
EXTENDS WatcherDaemon, Hook, Queries,
        SequenceTheorems, FiniteSetTheorems, WellFoundedInduction, TLAPS

--------------------------------------------------------------------------------
(* The watcher daemon                                                      *)

(* The age of the row alone is not inductive: it is bounded by the time    *)
(* since the last tick that was dealt with, the heartbeats lost before it  *)
(* and the batch whose record may have set the row's time back.            *)
Aged ==
    /\ task \in {"off", "run", "drain", "done"}
    /\ loop \in {"off", "recv", "dispatch"}
    /\ beatAge \in Nat /\ busyFor \in Nat /\ rowAge \in Nat \union {None}
    /\ lost \in Nat
    /\ beatAge <= Heartbeat + Busy
    /\ loop # "dispatch" => busyFor = 0
    /\ busyFor <= MaxDispatch
    /\ main = "down" => task = "off" /\ loop = "off"
    /\ task = "off" => beatAge = 0 /\ ~ticking
    /\ task = "run" =>
        /\ ticking /\ rowAge # None /\ loop # "off"
        /\ LostFit => rowAge <= MaxDispatch + Heartbeat * lost + beatAge

LEMMA AgedInit == Init => Aged
BY TimeAssumption DEF Init, Aged

LEMMA AgedStep == Aged /\ [Next]_vars => Aged'
<1> SUFFICES ASSUME Aged, [Next]_vars PROVE Aged'
  OBVIOUS
<1> USE TimeAssumption DEF Aged
<1>m. \A n \in Nat : Heartbeat * n \in Nat /\ Heartbeat * (n + 1) = Heartbeat * n + Heartbeat
  OBVIOUS
<1>s. ASSUME UNCHANGED lost PROVE LostFit' = LostFit
  BY <1>s DEF LostFit
<1>1. CASE Start
  <2>1. CASE task' = "run"
    <3>1. task' = "run" /\ ticking' /\ loop' = "recv" /\ rowAge' = 0 /\ lost' = 0
      BY <1>1, <2>1 DEF Start, InitState
    <3>2. main' # "down" /\ beatAge' = beatAge /\ busyFor' = busyFor /\ busyFor = 0
      BY <1>1 DEF Start
    <3>3. Heartbeat * lost' \in Nat
      BY <1>m, <3>1
    <3>4. QED
      BY <3>1, <3>2, <3>3
  <2>2. CASE task' # "run"
    BY <1>1, <2>2 DEF Start, InitState, row, events
  <2>3. QED
    BY <2>1, <2>2
<1>2. CASE Kill \/ MainExits
  BY <1>2 DEF Kill, MainExits, Gone, row
<1>3. CASE Signal \/ Connect \/ Disconnect
  BY <1>3, <1>s DEF Signal, Connect, Disconnect, watcher, dispatcher, row
<1>4. CASE HttpReturns
  BY <1>4, <1>s DEF HttpReturns, watcher, dispatcher, row
<1>5. CASE StopWatching
  BY <1>5 DEF StopWatching, HeartbeatWritten, server, dispatcher, row
<1>6. CASE ServeReturns
  BY <1>6 DEF ServeReturns, server, dispatcher, row
<1>7. ASSUME NEW f \in Path, Touch(f) PROVE Aged'
  BY <1>7, <1>s DEF Touch, server, watcher, dispatcher, row
<1>8. ASSUME NEW f \in Path, Dispatch(f) PROVE Aged'
  BY <1>8, <1>s DEF Dispatch, server, watcher, row
<1>9. CASE Debounce
  BY <1>9, <1>s DEF Debounce, server, watcher, dispatcher, row
<1>10. CASE Receive
  BY <1>10, <1>s DEF Receive, server, watcher, row
<1>11. CASE RecordBatch
  <2>1. CASE UNCHANGED row
    BY <1>11, <1>s, <2>1 DEF RecordBatch, server, watcher, row
  <2>2. CASE rowAge' = busyFor /\ lost' = 0
    <3>1. Heartbeat * lost' \in Nat
      BY <1>m, <2>2
    <3>2. QED
      BY <1>11, <2>2, <3>1 DEF RecordBatch, server, watcher
  <2>3. QED
    BY <1>11, <2>1, <2>2 DEF RecordBatch
<1>12. CASE LoopEnds
  BY <1>12, <1>s DEF LoopEnds, Closed, Debouncing, server, watcher, row
<1>13. CASE UpdateHeartbeat
  <2>1. /\ ticking /\ beatAge >= Heartbeat /\ beatAge' = beatAge - Heartbeat
        /\ UNCHANGED <<main, task, ticking, loop, busyFor>>
    BY <1>13 DEF UpdateHeartbeat, server, dispatcher
  <2>2. beatAge' \in Nat /\ beatAge' <= Heartbeat + Busy
    BY <2>1
  <2>3. CASE HeartbeatWritten
    <3>1. rowAge' = beatAge' /\ lost' = 0
      BY <2>1, <2>3 DEF HeartbeatWritten
    <3>2. Heartbeat * lost' \in Nat
      BY <1>m, <3>1
    <3>3. QED
      BY <2>1, <2>2, <3>1, <3>2
  <2>4. CASE UNCHANGED rowAge /\ MoreLost
    <3>1. CASE LostFit
      <4>1. lost' = lost + 1 /\ rowAge' = rowAge
        BY <2>4, <3>1 DEF MoreLost
      <4>2. Heartbeat * lost' = Heartbeat * lost + Heartbeat /\ Heartbeat * lost \in Nat
        BY <1>m, <4>1
      <4>3. QED
        BY <2>1, <2>2, <3>1, <4>1, <4>2
    <3>2. CASE ~LostFit
      BY <1>s, <2>1, <2>2, <2>4, <3>2 DEF MoreLost
    <3>3. QED
      BY <3>1, <3>2
  <2>5. QED
    BY <1>13, <2>3, <2>4 DEF UpdateHeartbeat
<1>14. CASE Tick
  <2>1. ~Due /\ UNCHANGED <<main, task, ticking, loop, lost>>
    BY <1>14 DEF Tick
  <2>2. /\ beatAge' = IF ticking THEN beatAge + 1 ELSE beatAge
        /\ busyFor' = IF loop = "dispatch" THEN busyFor + 1 ELSE busyFor
        /\ rowAge' = Older(rowAge)
    BY <1>14 DEF Tick
  <2>3. /\ ticking => beatAge < Heartbeat + Busy
        /\ loop = "dispatch" => busyFor < MaxDispatch
    BY <2>1 DEF Due
  <2>4. /\ rowAge' \in Nat \union {None} /\ (rowAge # None => rowAge' # None)
        /\ rowAge \in Nat => rowAge' <= rowAge + 1
    BY <2>2 DEF Older
  <2>5. Heartbeat * lost \in Nat /\ Heartbeat * lost' = Heartbeat * lost
    BY <1>m, <2>1
  <2>6. QED
    BY <1>s, <2>1, <2>2, <2>3, <2>4, <2>5
<1>15. CASE UNCHANGED vars
  BY <1>15, <1>s DEF vars, server, watcher, dispatcher, row
<1>16. QED
  BY <1>1, <1>2, <1>3, <1>4, <1>5, <1>6, <1>7, <1>8, <1>9, <1>10, <1>11,
     <1>12, <1>13, <1>14, <1>15 DEF Next

(* check() in another process reports every watcher that runs, whatever    *)
(* the intervals, the paths, the batches and the writes of them that fail, *)
(* as long as the heartbeats lost in a row leave room in the window: the   *)
(* heartbeat loop and record_batch keep the row young enough for           *)
(* read_live_state.                                                        *)
THEOREM AliveAlwaysReported == Spec => []AliveReported
<1>1. Aged => AliveReported
  <2> SUFFICES ASSUME Aged, task = "run", LostFit PROVE ReportedLive
    BY DEF AliveReported
  <2>1. /\ rowAge \in Nat /\ beatAge \in Nat /\ lost \in Nat
        /\ rowAge # None /\ beatAge <= Heartbeat + Busy
        /\ rowAge <= MaxDispatch + Heartbeat * lost + beatAge
    BY DEF Aged
  <2>2. Heartbeat * (lost + 1) = Heartbeat * lost + Heartbeat /\ Heartbeat * lost \in Nat
    BY <2>1, TimeAssumption
  <2>3. MaxDispatch + Heartbeat * (lost + 1) + Busy <= Window
    BY DEF LostFit
  <2>4. QED
    BY <2>1, <2>2, <2>3, TimeAssumption DEF ReportedLive
<1>2. QED
  BY AgedInit, AgedStep, <1>1, PTL DEF Spec

--------------------------------------------------------------------------------
(* Why nobody reports a watcher that is gone: the row is never younger     *)
(* than the time since the watcher or its loop last ran.                   *)
RowIsRecent ==
    /\ idleFor \in 0 .. Window + 1 /\ rowAge \in Nat \union {None}
    /\ busyFor \in Nat /\ beatAge \in Nat
    /\ ticking => task = "run"
    /\ task = "run" \/ loop # "off" => idleFor = 0
    /\ main = "down" => task = "off" /\ loop = "off"
    /\ task = "off" => main = "down"
    /\ rowAge # None => idleFor <= rowAge

LEMMA RecentInit == Init => RowIsRecent
BY TimeAssumption DEF Init, RowIsRecent

LEMMA RecentStep == RowIsRecent /\ [Next]_vars => RowIsRecent'
<1> SUFFICES ASSUME RowIsRecent, [Next]_vars PROVE RowIsRecent'
  OBVIOUS
<1> USE TimeAssumption DEF RowIsRecent
<1>1. CASE Start
  BY <1>1 DEF Start, InitState, row
<1>2. CASE Kill \/ MainExits
  BY <1>2 DEF Kill, MainExits, Gone, row
<1>3. CASE Signal \/ Connect \/ Disconnect
  BY <1>3 DEF Signal, Connect, Disconnect, watcher, dispatcher, row
<1>4. CASE HttpReturns
  BY <1>4 DEF HttpReturns, watcher, dispatcher, row
<1>5. CASE StopWatching \/ ServeReturns
  BY <1>5 DEF StopWatching, ServeReturns, HeartbeatWritten, server, dispatcher, row
<1>6. ASSUME NEW f \in Path, Touch(f) \/ Dispatch(f) PROVE RowIsRecent'
  BY <1>6 DEF Touch, Dispatch, server, watcher, dispatcher, row
<1>7. CASE Debounce \/ Receive
  BY <1>7 DEF Debounce, Receive, server, watcher, dispatcher, row
<1>8. CASE RecordBatch
  BY <1>8 DEF RecordBatch, server, watcher, row
<1>9. CASE LoopEnds
  BY <1>9 DEF LoopEnds, Closed, Debouncing, server, watcher, row
<1>10. CASE UpdateHeartbeat
  BY <1>10 DEF UpdateHeartbeat, HeartbeatWritten, server, dispatcher
<1>11. CASE Tick
  <2>1. /\ UNCHANGED <<main, task, ticking, loop>>
        /\ beatAge' = IF ticking THEN beatAge + 1 ELSE beatAge
        /\ busyFor' = IF loop = "dispatch" THEN busyFor + 1 ELSE busyFor
        /\ rowAge' = Older(rowAge)
        /\ idleFor' = IF task = "run" \/ loop # "off" THEN 0 ELSE Older(idleFor)
    BY <1>11 DEF Tick
  <2>2. rowAge' \in Nat \union {None} /\ busyFor' \in Nat /\ idleFor' \in 0 .. Window + 1
    BY <2>1 DEF Older
  <2>3. rowAge' # None => idleFor' <= rowAge'
    BY <2>1 DEF Older
  <2>4. QED
    BY <2>1, <2>2, <2>3
<1>12. CASE UNCHANGED vars
  BY <1>12 DEF vars, server, watcher, dispatcher, row
<1>13. QED
  BY <1>1, <1>2, <1>3, <1>4, <1>5, <1>6, <1>7, <1>8, <1>9, <1>10, <1>11, <1>12 DEF Next

(* A watcher that was killed, shut down or failed to start is reported for *)
(* no longer than the window (read_live_state, serve_with).                *)
THEOREM GoneNotReported == Spec => []ReportIsRecent
<1>1. RowIsRecent => ReportIsRecent
  BY TimeAssumption DEF RowIsRecent, ReportIsRecent, ReportedLive
<1>2. QED
  BY RecentInit, RecentStep, <1>1, PTL DEF Spec

--------------------------------------------------------------------------------
(* Why nothing is forgotten: what the debouncer holds goes into the channel*)
(* as a whole, the loop takes a batch when it has none, and what leaves a  *)
(* batch has been read or is known to have failed.                         *)
Carried ==
    /\ fresh \subseteq Path /\ chan \in Seq(SUBSET Path)
    /\ main = "down" => task = "off" /\ loop = "off" /\ owed = {}
    /\ loop # "dispatch" => batch = {}
    /\ NothingForgotten

LEMMA CarriedInit == Init => Carried
BY EmptySeq DEF Init, Carried, NothingForgotten

LEMMA CarriedStep == Carried /\ [Next]_vars => Carried'
<1> SUFFICES ASSUME Carried, [Next]_vars PROVE Carried'
  OBVIOUS
<1> USE DEF Carried
<1>l. Len(chan) \in Nat
  BY LenProperties
<1>1. CASE Start
  BY <1>1 DEF Start, events, changes, NothingForgotten
<1>2. CASE Kill \/ MainExits
  BY <1>2, EmptySeq DEF Kill, MainExits, Gone, NothingForgotten
<1>3. CASE Signal \/ Connect \/ Disconnect
  BY <1>3 DEF Signal, Connect, Disconnect, watcher, events, dispatcher, changes, NothingForgotten, Waits
<1>4. CASE HttpReturns
  BY <1>4 DEF HttpReturns, watcher, events, dispatcher, changes, NothingForgotten, Waits
<1>5. CASE StopWatching
  BY <1>5 DEF StopWatching, server, events, dispatcher, NothingForgotten
<1>6. CASE ServeReturns
  BY <1>6 DEF ServeReturns, server, dispatcher, changes, NothingForgotten
<1>7. ASSUME NEW f \in Path, Touch(f) PROVE Carried'
  <2>1. /\ UNCHANGED <<chan, batch, loop, task, main, failed>> /\ fresh' = fresh \union {f}
        /\ owed' \subseteq owed \union {f} /\ task \in {"run", "drain"}
    BY <1>7 DEF Touch, server, watcher, dispatcher, Debouncing
  <2>2. NothingForgotten'
    BY <2>1 DEF NothingForgotten, Waits
  <2>3. main # "down" \/ owed' = {}
    BY <2>1
  <2>4. QED
    BY <2>1, <2>2, <2>3
<1>8. ASSUME NEW f \in Path, Dispatch(f) PROVE Carried'
  <2>1. /\ UNCHANGED <<chan, fresh, loop, task, main>> /\ batch' = batch \ {f}
        /\ \/ owed' = owed \ {f} /\ failed' = failed \ {f}
           \/ failed' = failed \union (owed \intersect {f}) /\ owed' = owed
    BY <1>8 DEF Dispatch, server, watcher, events
  <2>2. NothingForgotten'
    BY <2>1 DEF NothingForgotten, Waits
  <2>3. QED
    BY <2>1, <2>2
<1>9. CASE Debounce
  <2>1. chan' = Append(chan, fresh) /\ fresh' = {}
        /\ UNCHANGED <<batch, loop, task, main, owed, failed>>
    BY <1>9 DEF Debounce, server, watcher, dispatcher, changes
  <2>2. /\ chan' \in Seq(SUBSET Path) /\ Len(chan') = Len(chan) + 1
        /\ \A i \in 1 .. Len(chan) : chan'[i] = chan[i]
        /\ chan'[Len(chan) + 1] = fresh
    BY <2>1, AppendProperties
  <2>3. ASSUME NEW f, Waits(f) PROVE Waits(f)'
    BY <1>l, <2>1, <2>2, <2>3 DEF Waits
  <2>4. NothingForgotten'
    BY <2>1, <2>3 DEF NothingForgotten
  <2>5. QED
    BY <2>1, <2>2, <2>4
<1>10. CASE Receive
  <2>1. /\ loop = "recv" /\ chan # <<>> /\ batch' = Head(chan) /\ chan' = Tail(chan)
        /\ loop' = "dispatch" /\ UNCHANGED <<fresh, task, main, owed, failed>>
    BY <1>10 DEF Receive, server, watcher, changes
  <2>2. /\ Tail(chan) \in Seq(SUBSET Path) /\ Len(Tail(chan)) = Len(chan) - 1
        /\ \A i \in 1 .. Len(Tail(chan)) : Tail(chan)[i] = chan[i + 1]
        /\ Head(chan) = chan[1]
    BY <2>1, HeadTailProperties
  <2>3. ASSUME NEW f, Waits(f) PROVE Waits(f)'
    <3>1. CASE f \in fresh
      BY <2>1, <3>1 DEF Waits
    <3>2. CASE \E i \in 1 .. Len(chan) : f \in chan[i]
      <4>1. PICK i \in 1 .. Len(chan) : f \in chan[i]
        BY <3>2
      <4>2. CASE i = 1
        BY <2>1, <2>2, <4>1, <4>2 DEF Waits
      <4>3. CASE i # 1
        <5>1. i - 1 \in 1 .. Len(Tail(chan)) /\ Tail(chan)[i - 1] = chan[i]
          BY <1>l, <2>2, <4>1, <4>3
        <5>2. QED
          BY <2>1, <4>1, <5>1 DEF Waits
      <4>4. QED
        BY <4>2, <4>3
    <3>3. QED
      BY <2>1, <2>3, <3>1, <3>2 DEF Waits
  <2>4. NothingForgotten'
    BY <2>1, <2>3 DEF NothingForgotten
  <2>5. QED
    BY <2>1, <2>2, <2>4
<1>11. CASE RecordBatch
  BY <1>11 DEF RecordBatch, server, watcher, events, changes, NothingForgotten, Waits
<1>12. CASE LoopEnds
  BY <1>12 DEF LoopEnds, server, watcher, events, changes, NothingForgotten, Waits
<1>13. CASE UpdateHeartbeat
  BY <1>13 DEF UpdateHeartbeat, server, events, dispatcher, changes, NothingForgotten, Waits
<1>14. CASE Tick
  BY <1>14 DEF Tick, events, changes, NothingForgotten, Waits
<1>15. CASE UNCHANGED vars
  BY <1>15 DEF vars, server, watcher, events, dispatcher, changes, NothingForgotten, Waits
<1>16. QED
  BY <1>1, <1>2, <1>3, <1>4, <1>5, <1>6, <1>7, <1>8, <1>9, <1>10, <1>11, <1>12, <1>13, <1>14, <1>15 DEF Next

(* Until it is read, a change waits somewhere or its last dispatch failed  *)
(* (spawn_debouncer, run_dispatch_loop).                                   *)
THEOREM NoChangeForgotten == Spec => []NothingForgotten
<1>1. Carried => NothingForgotten
  BY DEF Carried
<1>2. QED
  BY CarriedInit, CarriedStep, <1>1, PTL DEF Spec

--------------------------------------------------------------------------------
(* Why a signalled watcher is done in time: while main waits, the watcher  *)
(* has been told; it stops at once, and drains no longer than main waits.  *)
Timely ==
    /\ joinFor \in Nat /\ drainFor \in 0 .. Drain
    /\ told = {} \/ "watcher" \in told
    /\ task \in {"off", "run", "drain", "done"}
    /\ main = "join" => "watcher" \in told
    /\ task = "off" => main = "down"
    /\ main = "join" /\ task = "run" => joinFor = 0
    /\ main = "join" /\ task = "drain" => joinFor <= drainFor
    /\ main \in {"down", "http", "watch"} => joinFor = 0

LEMMA TimelyInit == Init => Timely
BY TimeAssumption DEF Init, Timely

LEMMA TimelyStep == Timely /\ [Next]_vars => Timely'
<1> SUFFICES ASSUME Timely, [Next]_vars PROVE Timely'
  OBVIOUS
<1> USE TimeAssumption DEF Timely
<1>1. CASE Start
  BY <1>1 DEF Start
<1>2. CASE Kill \/ MainExits
  BY <1>2 DEF Kill, MainExits, Gone
<1>3. CASE Signal \/ Connect \/ Disconnect
  BY <1>3 DEF Signal, Connect, Disconnect, watcher
<1>4. CASE HttpReturns
  BY <1>4 DEF HttpReturns, watcher
<1>5. CASE StopWatching \/ ServeReturns
  BY <1>5 DEF StopWatching, ServeReturns, server
<1>6. ASSUME NEW f \in Path, Touch(f) \/ Dispatch(f) PROVE Timely'
  BY <1>6 DEF Touch, Dispatch, server, watcher
<1>7. CASE Debounce \/ Receive \/ RecordBatch \/ LoopEnds
  BY <1>7 DEF Debounce, Receive, RecordBatch, LoopEnds, server, watcher
<1>8. CASE UpdateHeartbeat
  BY <1>8 DEF UpdateHeartbeat, server
<1>9. CASE Tick
  <2>1. ~Due /\ UNCHANGED <<main, told, task>>
    BY <1>9 DEF Tick
  <2>2. /\ drainFor' = IF task = "drain" /\ drainFor < Drain THEN drainFor + 1 ELSE drainFor
        /\ joinFor' = IF main \in {"join", "failed"} THEN joinFor + 1 ELSE joinFor
    BY <1>9 DEF Tick
  <2>3. ~(task = "run" /\ "watcher" \in told) /\ (task = "drain" => drainFor < Drain)
    BY <2>1 DEF Due, DrainOver
  <2>4. QED
    BY <2>1, <2>2, <2>3
<1>10. CASE UNCHANGED vars
  BY <1>10 DEF vars, server, watcher
<1>11. QED
  BY <1>1, <1>2, <1>3, <1>4, <1>5, <1>6, <1>7, <1>8, <1>9, <1>10 DEF Next

(* main never gives up on a watcher it has told to stop: serve_with's wait *)
(* for its loop fits in main's for it.                                     *)
THEOREM AlwaysJoinedInTime == Spec => []JoinedInTime
<1>1. Timely => JoinedInTime
  BY TimeAssumption DEF Timely, JoinedInTime
<1>2. QED
  BY TimelyInit, TimelyStep, <1>1, PTL DEF Spec

--------------------------------------------------------------------------------
(* The hook                                                                *)

(* Facts of the path upwards                                               *)

(* A database that covers a directory is at one of the places find_db      *)
(* looks at from there.                                                    *)
LEMMA CoveringIsPlaced ==
    ASSUME NEW cwd \in DOMAIN Above, NEW d \in Covering(cwd)
    PROVE  \E i \in DOMAIN Above[cwd], k \in {1, 2} : d = <<Above[cwd][i], k>>
<1>1. d \in (DOMAIN Above) \X {1, 2} /\ Holds(d[1], cwd)
  BY HookAssumption DEF Covering
<1>2. PICK i \in DOMAIN Above[cwd] : Above[cwd][i] = d[1]
  BY <1>1 DEF Holds
<1>3. d = <<Above[cwd][i], d[2]>> /\ d[2] \in {1, 2}
  BY <1>1, <1>2
<1>4. QED
  BY <1>2, <1>3

(* Where a directory is on the path                                        *)
Level(cwd, x) == CHOOSE i \in DOMAIN Above[cwd] : Above[cwd][i] = x[1]

LEMMA LevelOfPlace ==
    ASSUME NEW cwd \in DOMAIN Above, NEW i \in DOMAIN Above[cwd], NEW k
    PROVE  Level(cwd, <<Above[cwd][i], k>>) = i
BY HookAssumption DEF Level

LEMMA PathIsNumbered ==
    ASSUME NEW cwd \in DOMAIN Above
    PROVE  /\ Len(Above[cwd]) \in Nat /\ DOMAIN Above[cwd] = 1 .. Len(Above[cwd])
           /\ \A i \in DOMAIN Above[cwd] : Above[cwd][i] \in DOMAIN Above
<1>1. Above[cwd] \in Seq(DOMAIN Above)
  BY HookAssumption
<1>2. QED
  BY <1>1, LenProperties, ElementOfSeq

(* The databases that cover the directory and were not skipped             *)
Left(cwd, skipped) == Covering(cwd) \ skipped

(* None of them is at a place before this one.                             *)
NoneBefore(cwd, skipped, i, k) ==
    \A j \in DOMAIN Above[cwd], l \in {1, 2} :
        j < i \/ (j = i /\ l < k) => <<Above[cwd][j], l>> \notin Left(cwd, skipped)

(* The first place that covers the directory is the only nearest one.      *)
LEMMA FirstIsNearest ==
    ASSUME NEW cwd \in DOMAIN Above, NEW i \in DOMAIN Above[cwd], NEW k \in {1, 2},
           NEW skipped, NoneBefore(cwd, skipped, i, k),
           NEW d \in Left(cwd, skipped), d = <<Above[cwd][i], k>>
    PROVE  Nearest(cwd, skipped) = {d}
<1>1. ASSUME NEW e \in Left(cwd, skipped) PROVE Nearer(d, e, cwd) /\ (Nearer(e, d, cwd) => e = d)
  <2>1. PICK j \in DOMAIN Above[cwd], l \in {1, 2} : e = <<Above[cwd][j], l>>
    BY CoveringIsPlaced DEF Left
  <2>2. Level(cwd, e) = j /\ Level(cwd, d) = i /\ e[2] = l /\ d[2] = k
    BY <2>1, LevelOfPlace
  <2>3. ~(j < i \/ (j = i /\ l < k))
    BY <2>1 DEF NoneBefore
  <2>4. i \in Nat /\ j \in Nat
    BY PathIsNumbered
  <2>5. /\ Nearer(d, e, cwd) <=> i < j \/ (i = j /\ k <= l)
        /\ Nearer(e, d, cwd) <=> j < i \/ (j = i /\ l <= k)
    BY <2>2 DEF Nearer, Level
  <2>6. QED
    BY <2>1, <2>3, <2>4, <2>5
<1>2. QED
  BY <1>1 DEF Nearest, Left

LEMMA NowhereIsNearest ==
    ASSUME NEW cwd \in DOMAIN Above, NEW skipped,
           \A j \in DOMAIN Above[cwd], l \in {1, 2} : <<Above[cwd][j], l>> \notin Left(cwd, skipped)
    PROVE  Nearest(cwd, skipped) = {}
<1>1. ASSUME NEW d \in Left(cwd, skipped) PROVE FALSE
  <2>1. PICK i \in DOMAIN Above[cwd], k \in {1, 2} : d = <<Above[cwd][i], k>>
    BY CoveringIsPlaced DEF Left
  <2>2. QED
    BY <2>1
<1>2. QED
  BY <1>1 DEF Nearest, Left

--------------------------------------------------------------------------------
(* The rows of a query                                                     *)

LEMMA LeastOf ==
    ASSUME NEW S \in SUBSET Nat, S # {}
    PROVE  \E m \in S : \A x \in S : m <= x
<1>1. PICK m \in S : \A x \in S : <<x, m>> \notin OpToRel(<, Nat)
  BY WFMin, NatLessThanWellFounded, Zenon
<1>2. \A x \in S : ~(x < m)
  BY <1>1, Zenon DEF OpToRel
<1>3. \A x \in S : m <= x
  BY <1>2
<1>4. QED
  BY <1>3

(* The repositories around a directory have an innermost one.              *)
LEMMA InnermostExists ==
    ASSUME NEW content, NEW cwd \in DOMAIN Above, Around(content, cwd) # {}
    PROVE  \E r \in Around(content, cwd) : \A q \in Around(content, cwd) : Holds(q, r)
<1> DEFINE I == {i \in DOMAIN Above[cwd] : Above[cwd][i] \in Around(content, cwd)}
<1>1. I \in SUBSET Nat
  BY PathIsNumbered
<1>2. \A r \in Around(content, cwd) : \E i \in I : Above[cwd][i] = r
  BY DEF Around, Holds
<1>3. I # {}
  BY <1>2
<1>4. PICK m \in I : \A x \in I : m <= x
  <2> HIDE DEF I
  <2>1. QED
    BY <1>1, <1>3, LeastOf
<1>5. ASSUME NEW q \in Around(content, cwd) PROVE Holds(q, Above[cwd][m])
  <2>1. PICK i \in I : Above[cwd][i] = q
    BY <1>2
  <2>2. m <= i
    BY <1>4
  <2>3. QED
    BY <2>1, <2>2, HookAssumption
<1>6. QED
  BY <1>5

(* Chunks are stored with the repository they are of, which is listed.     *)
Stored(content) == \A c \in content.chunks : Ranked[c].repo \in content.repos

(* What find_code_in_repo looks through is the caller's.                   *)
LEMMA SearchedIsMine ==
    ASSUME NEW d \in Db, NEW cwd \in DOMAIN Above, Stored(db[d])
    PROVE  LET within == RootFor(db[d], cwd)
           IN {c \in db[d].chunks : within = {} \/ Ranked[c].repo \in within} = Mine(d, cwd)
<1> DEFINE within == RootFor(db[d], cwd)
<1>1. within = {} <=> Around(db[d], cwd) = {}
  BY InnermostExists DEF RootFor
<1>2. ASSUME NEW c \in db[d].chunks, Around(db[d], cwd) # {}
      PROVE  Ranked[c].repo \in within <=>
                 /\ Holds(Ranked[c].repo, cwd)
                 /\ \A r \in Around(db[d], cwd) : Holds(r, Ranked[c].repo)
  BY <1>2 DEF RootFor, Around, Stored
<1>3. QED
  BY <1>1, <1>2 DEF Mine

LEMMA PlacesAreFinite ==
    ASSUME NEW S \in SUBSET DOMAIN Ranked
    PROVE  S \in SUBSET Nat /\ IsFiniteSet(S)
<1>1. IsFiniteSet(DOMAIN Ranked) /\ DOMAIN Ranked \in SUBSET Nat
  BY HookAssumption, FS_Interval
<1>2. QED
  BY <1>1, FS_Subset

(* A limit that is not reached cuts nothing.                               *)
LEMMA BestOfFew ==
    ASSUME NEW S \in SUBSET DOMAIN Ranked, NEW limit \in Nat, Cardinality(S) <= limit
    PROVE  BestOf(S, limit) = S
<1>1. ASSUME NEW c \in S PROVE Cardinality({b \in S : b <= c}) <= limit
  <2>1. IsFiniteSet(S)
    BY PlacesAreFinite
  <2>2. {b \in S : b <= c} \subseteq S
    OBVIOUS
  <2>3. /\ IsFiniteSet({b \in S : b <= c})
        /\ Cardinality({b \in S : b <= c}) <= Cardinality(S)
    BY <2>1, <2>2, FS_Subset
  <2>4. Cardinality({b \in S : b <= c}) \in Nat /\ Cardinality(S) \in Nat
    BY <2>1, <2>3, FS_CardinalityType
  <2>5. QED
    BY <2>3, <2>4
<1>2. QED
  BY <1>1 DEF BestOf

(* And a limit never cuts all.                                             *)
LEMMA BestOfSome ==
    ASSUME NEW S \in SUBSET DOMAIN Ranked, NEW limit \in Nat \ {0}, S # {}
    PROVE  BestOf(S, limit) # {}
<1>1. S \in SUBSET Nat
  BY PlacesAreFinite
<1>2. PICK m \in S : \A x \in S : m <= x
  BY <1>1, LeastOf
<1>3. {b \in S : b <= m} = {m}
  BY <1>1, <1>2
<1>4. Cardinality({m}) = 1
  BY FS_Singleton, Zenon
<1>5. m \in BestOf(S, limit)
  BY <1>3, <1>4 DEF BestOf
<1>6. QED
  BY <1>5

--------------------------------------------------------------------------------
(* Types                                                                   *)

Early == {"off", "open", "find", "root", "query", "lookup"}
Kept == {"root", "query", "lookup", "no_hits", "query_error", "served",
         "schema_no_hits", "schema_served", "print"}

AskedTables == UNION {e.tables : e \in Event}

FiringType ==
    [pc : Early \union Final \union {"print", "exit", "killed"}, event : Event, env : Env,
     level : Nat, slot : {1, 2}, db : Db \union {NoDb}, within : SUBSET Repository,
     rows : SUBSET DOMAIN Ranked, tables : SUBSET Table, moved : BOOLEAN,
     skipped : SUBSET (Db \union {NoFile}), blind : BOOLEAN, missed : SUBSET AskedTables,
     unlogged : BOOLEAN]

LineType ==
    [by : Firing, outcome : SearchOutcomes \union SchemaOutcomes, db : Db \union {NoDb},
     end : {"line"} \union Broken]

AnswerType == [db : Db \union {NoDb}, hits : SUBSET DOMAIN Ranked, tables : SUBSET Table]

Placed(s) ==
    /\ s.pc \in Kept => s.db \in Db
    /\ s.pc = "find" => s.env = NoDb /\ s.level \in DOMAIN Above[s.event.cwd]
    /\ s.pc = "open" => s.env # NoDb
    /\ s.pc = "off" => s.level = 1 /\ s.slot = 1
    /\ s.pc \in {"off", "open"} => s.skipped = {}
    /\ s.pc \in {"off", "open", "find", "root"} => ~s.blind
    /\ s.pc \in Early => s.rows = {} /\ s.tables = {}
    /\ s.pc \in Early \union Final => ~s.unlogged

HookTyped ==
    /\ db \in [Db -> Content]
    /\ \A d \in Db : Stored(db[d])
    /\ firing \in [Firing -> FiringType]
    /\ \A f \in Firing : Placed(firing[f])
    /\ log \in Seq(LineType)
    /\ output \in [Firing -> AnswerType]

LEMMA HookTypedInit == HookInit => HookTyped
<1> SUFFICES ASSUME HookInit PROVE HookTyped
  OBVIOUS
<1>1. Off.event \in Event /\ Off.env \in Env
  BY HookAssumption DEF Off
<1>2. Off \in FiringType /\ Placed(Off)
  <2>1. PICK e \in Event : e = Off.event
    BY <1>1
  <2>2. PICK v \in Env : v = Off.env
    BY <1>1
  <2>3. Off = [pc |-> "off", event |-> e, env |-> v, level |-> 1, slot |-> 1, db |-> NoDb,
               within |-> {}, rows |-> {}, tables |-> {}, moved |-> FALSE, skipped |-> {},
               blind |-> FALSE, missed |-> {}, unlogged |-> FALSE]
    BY <2>1, <2>2 DEF Off
  <2>4. QED
    BY <2>3 DEF FiringType, Placed, Kept, Early, Final
<1>3. Silence \in AnswerType
  BY DEF Silence, AnswerType
<1>4. db \in [Db -> Content]
  BY HookAssumption DEF HookInit
<1>5. \A d \in Db : Stored(db[d])
  BY HookAssumption DEF HookInit, Stored
<1>6. log \in Seq(LineType)
  BY EmptySeq DEF HookInit
<1>7. QED
  BY <1>2, <1>3, <1>4, <1>5, <1>6 DEF HookInit, HookTyped

(* The path of a directory begins somewhere.                               *)
LEMMA PathBegins == ASSUME NEW cwd \in DOMAIN Above PROVE 1 \in DOMAIN Above[cwd]
<1>1. Above[cwd] \in Seq(DOMAIN Above) /\ Above[cwd] # <<>>
  BY HookAssumption
<1>2. Len(Above[cwd]) \in Nat /\ Len(Above[cwd]) # 0
  BY <1>1, EmptySeq, LenProperties
<1>3. QED
  BY <1>2, PathIsNumbered

LEMMA BecomesTyped ==
    ASSUME HookTyped, NEW f \in Firing, NEW s \in FiringType, Placed(s), Becomes(f, s)
    PROVE  /\ firing' \in [Firing -> FiringType] /\ firing'[f] = s
           /\ \A g \in Firing : Placed(firing'[g])
           /\ \A g \in Firing \ {f} : firing'[g] = firing[g]
BY DEF HookTyped, Becomes

(* What a firing becomes that looks on, or asks for the repositories       *)
LooksOn(s, after, n) ==
    \/ s.slot = 1 /\ n = [s EXCEPT !.skipped = after, !.slot = 2]
    \/ /\ s.slot = 2 /\ s.level < Len(Above[s.event.cwd])
       /\ n = [s EXCEPT !.skipped = after, !.slot = 1, !.level = s.level + 1]
    \/ /\ s.slot = 2 /\ s.level = Len(Above[s.event.cwd])
       /\ n = [s EXCEPT !.skipped = after, !.pc = "no_index"]

LEMMA NextPlaceBecomes ==
    ASSUME NEW f \in Firing, firing[f] \in FiringType, NextPlace(f), NEW after,
           after = Skips(firing[f])
    PROVE  \E n : Becomes(f, n) /\ LooksOn(firing[f], after, n)
<1> DEFINE s == firing[f]
<1>1. PICK t : t = [s EXCEPT !.skipped = after]
  OBVIOUS
<1>2. /\ t.slot = s.slot /\ t.level = s.level /\ t.event = s.event
      /\ [t EXCEPT !.slot = 2] = [s EXCEPT !.skipped = after, !.slot = 2]
      /\ [t EXCEPT !.slot = 1, !.level = s.level + 1]
           = [s EXCEPT !.skipped = after, !.slot = 1, !.level = s.level + 1]
      /\ [t EXCEPT !.pc = "no_index"] = [s EXCEPT !.skipped = after, !.pc = "no_index"]
  BY <1>1 DEF FiringType
<1>3. \/ t.slot = 1 /\ Becomes(f, [t EXCEPT !.slot = 2])
      \/ /\ t.slot = 2 /\ t.level < Len(Above[t.event.cwd])
         /\ Becomes(f, [t EXCEPT !.slot = 1, !.level = t.level + 1])
      \/ /\ t.slot = 2 /\ t.level = Len(Above[t.event.cwd])
         /\ Becomes(f, [t EXCEPT !.pc = "no_index"])
  BY <1>1, Zenon DEF NextPlace
<1>4. QED
  BY <1>2, <1>3 DEF LooksOn

LEMMA FindRootBecomes ==
    ASSUME NEW f \in Firing, firing[f] \in FiringType, Placed(firing[f]), FindRoot(f)
    PROVE  LET s == firing[f] IN
           \E within : \E m \in BOOLEAN :
              /\ within = IF m THEN {} ELSE RootFor(db[s.db], s.event.cwd)
              /\ Becomes(f, [s EXCEPT !.within = within, !.blind = m, !.pc = "query"])
<1> DEFINE s == firing[f]
<1>1. ~s.blind
  BY DEF FindRoot, Placed
<1>2. PICK root : root = RootFor(db[s.db], s.event.cwd)
  OBVIOUS
<1>3. [s EXCEPT !.within = root, !.pc = "query"]
       = [s EXCEPT !.within = root, !.blind = FALSE, !.pc = "query"]
  BY <1>1 DEF FiringType
<1>4. \/ Becomes(f, [s EXCEPT !.within = root, !.pc = "query"])
      \/ Becomes(f, [s EXCEPT !.within = {}, !.blind = TRUE, !.pc = "query"])
  BY <1>2, Zenon DEF FindRoot
<1>5. CASE Becomes(f, [s EXCEPT !.within = root, !.pc = "query"])
  <2>1. Becomes(f, [s EXCEPT !.within = root, !.blind = FALSE, !.pc = "query"])
    BY <1>3, <1>5
  <2>2. QED
    BY <1>2, <2>1
<1>6. QED
  BY <1>4, <1>5

(* It logs: a whole line, or none, or what a write that fails leaves.      *)
LineOf(f, s, end) == [by |-> f, outcome |-> Outcome(s), db |-> s.db, end |-> end]

LogsAs(s, n, end) ==
    /\ n.pc = (IF s.pc \in Delivery THEN "print" ELSE "exit") /\ n.db = s.db
    /\ n = [s EXCEPT !.pc = n.pc, !.unlogged = n.unlogged]
    /\ ~n.unlogged /\ ~s.unlogged => end = "line"

LEMMA LogFiringBecomes ==
    ASSUME NEW f \in Firing, firing[f] \in FiringType, LogFiring(f)
    PROVE  \E n \in FiringType, end \in {"line"} \union Broken :
              /\ Becomes(f, n) /\ LogsAs(firing[f], n, end)
              /\ \/ log' = Append(log, LineOf(f, firing[f], end))
                 \/ log' = log /\ n.unlogged
<1> DEFINE s == firing[f]
           Line(end) == LineOf(f, s, end)
<1>1. PICK next \in {"print", "exit"} : next = IF s.pc \in Delivery THEN "print" ELSE "exit"
  OBVIOUS
<1>2. \/ log' = Append(log, Line("line")) /\ Becomes(f, [s EXCEPT !.pc = next])
      \/ /\ \E end \in Broken : log' = log \/ log' = Append(log, Line(end))
         /\ Becomes(f, [s EXCEPT !.pc = next, !.unlogged = TRUE])
  BY <1>1, Zenon DEF LogFiring, Logs, Broken, LineOf
<1> HIDE DEF Line
<1>3. CASE log' = Append(log, Line("line")) /\ Becomes(f, [s EXCEPT !.pc = next])
  <2>1. PICK n : n = [s EXCEPT !.pc = next]
    OBVIOUS
  <2>2. /\ n \in FiringType /\ n.pc = next /\ n.db = s.db
        /\ n = [s EXCEPT !.pc = n.pc, !.unlogged = n.unlogged]
    BY <1>1, <2>1 DEF FiringType
  <2>3. QED
    BY <1>1, <1>3, <2>1, <2>2 DEF Line, LogsAs
<1>4. CASE /\ \E end \in Broken : log' = log \/ log' = Append(log, Line(end))
           /\ Becomes(f, [s EXCEPT !.pc = next, !.unlogged = TRUE])
  <2>1. PICK n : n = [s EXCEPT !.pc = next, !.unlogged = TRUE]
    OBVIOUS
  <2>2. /\ n \in FiringType /\ n.pc = next /\ n.db = s.db /\ n.unlogged
        /\ n = [s EXCEPT !.pc = n.pc, !.unlogged = n.unlogged]
    BY <1>1, <2>1 DEF FiringType
  <2>3. PICK end \in Broken : log' = log \/ log' = Append(log, Line(end))
    BY <1>4
  <2>4. QED
    BY <1>1, <1>4, <2>1, <2>2, <2>3 DEF Line, LogsAs
<1>5. QED
  BY <1>2, <1>3, <1>4

LEMMA BestOfPlaces ==
    ASSUME NEW e, NEW found PROVE Rows(e, found) \subseteq found
BY DEF Rows, BestOf

(* A firing that acts moves on, from a state of its type to one.           *)
LEMMA FiringTyped ==
    ASSUME HookTyped, NEW f \in Firing, NEW e \in Event,
           \/ TakeUp(f, e) \/ OpenNamed(f) \/ TakeDb(f) \/ NextPlace(f) \/ FindRoot(f)
           \/ RunQuery(f) \/ QueryFails(f) \/ Lookup(f) \/ LogFiring(f) \/ EmitAnswer(f) \/ GiveUp(f)
    PROVE  HookTyped'
<1> DEFINE s == firing[f]
<1>0. s \in FiringType /\ Placed(s)
  BY DEF HookTyped
<1>1. CASE TakeUp(f, e)
  <2>1. PICK v \in Env : Becomes(f, [s EXCEPT !.event = e, !.env = v, !.pc = FirstStep(e, v)])
    BY <1>1 DEF TakeUp
  <2>2. PICK n : n = [s EXCEPT !.event = e, !.env = v, !.pc = FirstStep(e, v)]
    OBVIOUS
  <2>3. n \in FiringType /\ Placed(n)
    <3>1. s.pc = "off" /\ e.cwd \in DOMAIN Above
      BY <1>1, HookAssumption DEF TakeUp
    <3>2. 1 \in DOMAIN Above[e.cwd]
      BY <3>1, PathBegins
    <3>3. /\ FirstStep(e, v) \in {"exit", "find", "open"}
          /\ FirstStep(e, v) = "find" => v = NoDb
          /\ FirstStep(e, v) = "open" => v # NoDb
      BY DEF FirstStep
    <3>4. n \in FiringType
      BY <1>0, <2>2, <3>3 DEF FiringType, Early
    <3>5. /\ n.pc = FirstStep(e, v) /\ n.env = v /\ n.event = e /\ n.level = s.level
          /\ n.skipped = s.skipped /\ n.blind = s.blind /\ n.rows = s.rows
          /\ n.tables = s.tables /\ n.unlogged = s.unlogged
      BY <1>0, <2>2 DEF FiringType
    <3>6. Placed(n)
      BY <1>0, <3>1, <3>2, <3>3, <3>5 DEF Placed, Kept, Early, Final
    <3>7. QED
      BY <3>4, <3>6
  <2>4. Becomes(f, n) /\ UNCHANGED <<db, log, output>>
    BY <1>1, <2>1, <2>2 DEF TakeUp, Lives
  <2>5. QED
    BY <2>3, <2>4, BecomesTyped DEF HookTyped
<1>a. Asks(s.event) \in {"root", "lookup"}
  BY DEF Asks
<1>b. CASE OpenNamed(f)
  <2>1. s.pc = "open" /\ UNCHANGED <<db, log, output>> /\ s.env \in Db \union {NoFile}
    BY <1>0, <1>b, HookAssumption DEF OpenNamed, Lives, FiringType, Placed
  <2>2. PICK n :
           /\ Becomes(f, n)
           /\ \/ s.env \in Db /\ n = [s EXCEPT !.db = s.env, !.pc = Asks(s.event)]
              \/ n = [s EXCEPT !.skipped = {s.env}, !.pc = "no_index"]
    BY <1>b DEF OpenNamed
  <2>3. CASE s.env \in Db /\ n = [s EXCEPT !.db = s.env, !.pc = Asks(s.event)]
    <3>1. n \in FiringType /\ Placed(n)
      BY <1>0, <1>a, <2>1, <2>3 DEF FiringType, Early, Final, Placed, Kept
    <3>2. QED
      BY <2>1, <2>2, <3>1, BecomesTyped DEF HookTyped
  <2>4. CASE n = [s EXCEPT !.skipped = {s.env}, !.pc = "no_index"]
    <3>1. n \in FiringType /\ Placed(n)
      BY <1>0, <2>1, <2>4 DEF FiringType, Early, Final, Placed, Kept
    <3>2. QED
      BY <2>1, <2>2, <3>1, BecomesTyped DEF HookTyped
  <2>5. QED
    BY <2>2, <2>3, <2>4
<1>2. CASE TakeDb(f)
  <2>1. PICK n : n = [s EXCEPT !.db = Place(s), !.pc = Asks(s.event)]
    OBVIOUS
  <2>2. Place(s) \in Db /\ s.pc = "find"
    BY <1>2 DEF TakeDb, Found
  <2>3. n \in FiringType /\ Placed(n)
    BY <1>0, <1>a, <2>1, <2>2 DEF FiringType, Early, Final, Placed, Kept
  <2>4. Becomes(f, n) /\ UNCHANGED <<db, log, output>>
    BY <1>2, <2>1 DEF TakeDb, Lives
  <2>5. QED
    BY <2>3, <2>4, BecomesTyped DEF HookTyped
<1>3. CASE NextPlace(f)
  <2>1. s.pc = "find" /\ UNCHANGED <<db, log, output>>
    BY <1>0, <1>3 DEF NextPlace, Lives, FiringType
  <2>2. PICK after : after = Skips(s)
    OBVIOUS
  <2>3. after \subseteq Db \union {NoFile}
    BY <1>0, <2>2 DEF Skips, Found, FiringType
  <2>4. PICK n : Becomes(f, n) /\ LooksOn(s, after, n)
    BY <1>0, <1>3, <2>2, NextPlaceBecomes
  <2>5. s.level \in Nat /\ s.level + 1 \in Nat
    BY <1>0 DEF FiringType
  <2>6. s.level < Len(Above[s.event.cwd]) => s.level + 1 \in DOMAIN Above[s.event.cwd]
    <3>1. s.event.cwd \in DOMAIN Above /\ s.level \in DOMAIN Above[s.event.cwd]
      BY <1>0, <2>1, HookAssumption DEF FiringType, Placed
    <3>2. QED
      BY <3>1, PathIsNumbered
  <2>7. n \in FiringType /\ Placed(n)
    <3>1. CASE n = [s EXCEPT !.skipped = after, !.slot = 2]
      BY <1>0, <2>1, <2>3, <3>1 DEF FiringType, Placed, Kept, Early, Final
    <3>2. CASE /\ s.level < Len(Above[s.event.cwd])
               /\ n = [s EXCEPT !.skipped = after, !.slot = 1, !.level = s.level + 1]
      BY <1>0, <2>1, <2>3, <2>5, <2>6, <3>2 DEF FiringType, Placed, Kept, Early, Final
    <3>3. CASE n = [s EXCEPT !.skipped = after, !.pc = "no_index"]
      BY <1>0, <2>1, <2>3, <3>3 DEF FiringType, Placed, Kept, Early, Final
    <3>4. QED
      BY <2>4, <3>1, <3>2, <3>3 DEF LooksOn
  <2>8. QED
    BY <2>1, <2>4, <2>7, BecomesTyped DEF HookTyped
<1>4. CASE FindRoot(f)
  <2>1. s.pc = "root" /\ s.db \in Db /\ UNCHANGED <<db, log, output>>
    BY <1>0, <1>4 DEF FindRoot, Placed, Kept, Lives
  <2>2. PICK within : \E m \in BOOLEAN :
           /\ within = IF m THEN {} ELSE RootFor(db[s.db], s.event.cwd)
           /\ Becomes(f, [s EXCEPT !.within = within, !.blind = m, !.pc = "query"])
    BY <1>0, <1>4, FindRootBecomes
  <2>a. PICK m \in BOOLEAN : Becomes(f, [s EXCEPT !.within = within, !.blind = m, !.pc = "query"])
    BY <2>2, Zenon
  <2>3. PICK n : n = [s EXCEPT !.within = within, !.blind = m, !.pc = "query"] /\ Becomes(f, n)
    BY <2>a
  <2>4. within \subseteq Repository
    BY <2>1, <2>2 DEF HookTyped, Content, RootFor, Around
  <2>5. n \in FiringType /\ Placed(n)
    BY <1>0, <2>1, <2>3, <2>4 DEF FiringType, Early, Final, Placed, Kept
  <2>6. QED
    BY <2>1, <2>3, <2>5, BecomesTyped DEF HookTyped
<1>5. CASE RunQuery(f)
  <2>1. PICK rows : rows = Rows(s.event, FindCodeInRepo(db[s.db], s.within, Fetch(s.event)))
    OBVIOUS
  <2>2. PICK n : n = [s EXCEPT !.rows = rows, !.pc = IF rows = {} THEN "no_hits" ELSE "served"]
    OBVIOUS
  <2>3. s.pc = "query" /\ s.db \in Db
    BY <1>0, <1>5 DEF RunQuery, Placed, Kept
  <2>4. db[s.db].chunks \subseteq DOMAIN Ranked
    BY <2>3 DEF HookTyped, Content
  <2>5. rows \subseteq DOMAIN Ranked
    BY <2>1, <2>4, BestOfPlaces DEF FindCodeInRepo, BestOf
  <2>6. n \in FiringType /\ Placed(n)
    BY <1>0, <2>2, <2>3, <2>5 DEF FiringType, Early, Final, Placed, Kept
  <2>7. Becomes(f, n) /\ UNCHANGED <<db, log, output>>
    BY <1>5, <2>1, <2>2 DEF RunQuery, Lives
  <2>8. QED
    BY <2>6, <2>7, BecomesTyped DEF HookTyped
<1>6. CASE QueryFails(f)
  <2>1. PICK n : n = [s EXCEPT !.pc = "query_error"]
    OBVIOUS
  <2>2. s.pc = "query"
    BY <1>6 DEF QueryFails
  <2>3. n \in FiringType /\ Placed(n)
    BY <1>0, <2>1, <2>2 DEF FiringType, Final, Placed, Kept
  <2>4. Becomes(f, n) /\ UNCHANGED <<db, log, output>>
    BY <1>6, <2>1 DEF QueryFails, Lives
  <2>5. QED
    BY <2>3, <2>4, BecomesTyped DEF HookTyped
<1>7. CASE Lookup(f)
  <2>1. PICK missed \in SUBSET s.event.tables :
           LET hits == (s.event.tables \ missed) \intersect db[s.db].tables IN
           Becomes(f, [s EXCEPT !.tables = hits, !.missed = missed,
                                !.pc = IF hits = {} THEN "schema_no_hits" ELSE "schema_served"])
    BY <1>7 DEF Lookup
  <2>2. PICK hits : hits = (s.event.tables \ missed) \intersect db[s.db].tables
    OBVIOUS
  <2>3. PICK n : n = [s EXCEPT !.tables = hits, !.missed = missed,
                               !.pc = IF hits = {} THEN "schema_no_hits" ELSE "schema_served"]
    OBVIOUS
  <2>4. s.pc = "lookup" /\ s.db \in Db
    BY <1>0, <1>7 DEF Lookup, Placed, Kept
  <2>5. hits \subseteq Table /\ missed \subseteq AskedTables
    BY <1>0, <2>2, <2>4 DEF HookTyped, Content, AskedTables, FiringType
  <2>6. n \in FiringType /\ Placed(n)
    BY <1>0, <2>3, <2>4, <2>5 DEF FiringType, Early, Final, Placed, Kept
  <2>7. Becomes(f, n)
    BY <2>1, <2>2, <2>3
  <2>8. UNCHANGED <<db, log, output>>
    BY <1>7 DEF Lookup, Lives
  <2>9. QED
    BY <2>6, <2>7, <2>8, BecomesTyped DEF HookTyped
<1>8. CASE LogFiring(f)
  <2>1. s.pc \in Final /\ UNCHANGED <<db, output>>
    BY <1>8 DEF LogFiring, Lives
  <2>2. PICK n \in FiringType, end \in {"line"} \union Broken :
           /\ Becomes(f, n) /\ LogsAs(s, n, end)
           /\ \/ log' = Append(log, LineOf(f, s, end))
              \/ log' = log /\ n.unlogged
    BY <1>0, <1>8, LogFiringBecomes
  <2>3. Placed(n)
    BY <1>0, <2>1, <2>2 DEF LogsAs, Final, Early, Delivery, Placed, Kept
  <2>4. log' \in Seq(LineType)
    <3>1. PICK l : l = LineOf(f, s, end)
      OBVIOUS
    <3>2. l \in LineType
      BY <1>0, <2>1, <3>1
         DEF LineOf, FiringType, LineType, Outcome, Final, SearchOutcomes, SchemaOutcomes
    <3>3. QED
      BY <2>2, <3>1, <3>2, AppendProperties DEF HookTyped
  <2>5. QED
    BY <2>1, <2>2, <2>3, <2>4, BecomesTyped DEF HookTyped
<1>9. CASE EmitAnswer(f)
  <2>1. PICK n : n = [s EXCEPT !.pc = "exit"]
    OBVIOUS
  <2>2. s.pc = "print"
    BY <1>9 DEF EmitAnswer
  <2>3. n \in FiringType /\ Placed(n)
    BY <1>0, <2>1, <2>2 DEF FiringType, Early, Final, Placed, Kept
  <2>4. /\ Becomes(f, n) /\ UNCHANGED <<db, log>>
        /\ output' = [output EXCEPT ![f] = [db |-> s.db, hits |-> s.rows, tables |-> s.tables]]
    BY <1>9, <2>1 DEF EmitAnswer, Lives
  <2>5. output' \in [Firing -> AnswerType]
    BY <1>0, <2>4 DEF HookTyped, FiringType, AnswerType
  <2>6. QED
    BY <2>3, <2>4, <2>5, BecomesTyped DEF HookTyped
<1>10. CASE GiveUp(f)
  <2>1. PICK n : n = [s EXCEPT !.pc = "killed"]
    OBVIOUS
  <2>2. n \in FiringType /\ Placed(n)
    BY <1>0, <2>1 DEF FiringType, Early, Final, Placed, Kept
  <2>3. Becomes(f, n) /\ UNCHANGED <<db, log, output>>
    BY <1>10, <2>1 DEF GiveUp
  <2>4. QED
    BY <2>2, <2>3, BecomesTyped DEF HookTyped
<1>11. QED
  BY <1>1, <1>b, <1>2, <1>3, <1>4, <1>5, <1>6, <1>7, <1>8, <1>9, <1>10

LEMMA PassTyped ==
    ASSUME HookTyped, NEW d \in Db,
           IndexDump(d) \/ \E r \in Repository : ListRepo(d, r) \/ IndexFiles(d, r)
    PROVE  /\ HookTyped'
           /\ \A f \in Firing : firing'[f] = [firing[f] EXCEPT !.moved = firing[f].pc # "off"]
           /\ UNCHANGED <<log, output>>
<1> USE DEF Content
<1>0. db[d] \in Content /\ Stored(db[d])
  BY DEF HookTyped
<1>1. PICK content \in Content : Stored(content) /\ Pass(d, content)
  <2>1. CASE IndexDump(d)
    BY <1>0, <2>1 DEF IndexDump, Stored
  <2>2. ASSUME NEW r \in Repository, ListRepo(d, r)
        PROVE  \E c \in Content : Stored(c) /\ Pass(d, c)
    BY <1>0, <2>2 DEF ListRepo, Stored
  <2>3. ASSUME NEW r \in Repository, IndexFiles(d, r)
        PROVE  \E c \in Content : Stored(c) /\ Pass(d, c)
    <3>1. PICK chunks \in SUBSET {c \in DOMAIN Ranked : Ranked[c].repo = r} :
             Pass(d, [db[d] EXCEPT !.chunks = {c \in db[d].chunks : Ranked[c].repo # r} \union chunks])
      BY <1>0, <2>3 DEF IndexFiles
    <3>2. PICK content : content = [db[d] EXCEPT !.chunks = {c \in db[d].chunks : Ranked[c].repo # r} \union chunks]
      OBVIOUS
    <3>3. /\ content.chunks = {c \in db[d].chunks : Ranked[c].repo # r} \union chunks
          /\ content.repos = db[d].repos /\ content \in Content
      BY <1>0, <3>1, <3>2
    <3>4. Stored(content)
      BY <1>0, <2>3, <3>1, <3>3 DEF IndexFiles, Stored
    <3>5. QED
      BY <3>1, <3>2, <3>3, <3>4
  <2>4. QED
    BY <2>1, <2>2, <2>3
<1>2. /\ db' = [db EXCEPT ![d] = content] /\ UNCHANGED <<log, output>>
      /\ firing' = [f \in Firing |-> [firing[f] EXCEPT !.moved = firing[f].pc # "off"]]
  BY <1>1 DEF Pass
<1>3. db' \in [Db -> Content] /\ \A x \in Db : Stored(db'[x])
  BY <1>1, <1>2 DEF HookTyped
<1>4. ASSUME NEW f \in Firing
      PROVE  firing'[f] \in FiringType /\ Placed(firing'[f])
  <2>1. PICK n : n = firing'[f]
    OBVIOUS
  <2>2. PICK m \in BOOLEAN : m = (firing[f].pc # "off")
    OBVIOUS
  <2>3. n = [firing[f] EXCEPT !.moved = m] /\ firing[f] \in FiringType /\ Placed(firing[f])
    BY <1>2, <2>1, <2>2 DEF HookTyped
  <2>4. n \in FiringType /\ Placed(n)
    BY <2>3 DEF FiringType, Placed
  <2>5. QED
    BY <2>1, <2>4
<1>5. firing' \in [Firing -> FiringType]
  BY <1>2, <1>4
<1>6. QED
  BY <1>2, <1>3, <1>4, <1>5 DEF HookTyped

LEMMA HookTypedStep == HookTyped /\ [HookNext]_hookVars => HookTyped'
<1> SUFFICES ASSUME HookTyped, [HookNext]_hookVars PROVE HookTyped'
  OBVIOUS
<1>1. PICK anyone \in Event : TRUE
  BY HookAssumption
<1>2. ASSUME NEW f \in Firing,
             \/ \E e \in Event : TakeUp(f, e)
             \/ OpenNamed(f) \/ TakeDb(f) \/ NextPlace(f) \/ FindRoot(f) \/ RunQuery(f)
             \/ QueryFails(f) \/ Lookup(f) \/ LogFiring(f) \/ EmitAnswer(f) \/ GiveUp(f)
      PROVE  HookTyped'
  BY <1>1, <1>2, FiringTyped
<1>4. ASSUME NEW d \in Db, IndexDump(d) \/ \E r \in Repository : ListRepo(d, r) \/ IndexFiles(d, r)
      PROVE  HookTyped'
  BY <1>4, PassTyped
<1>5. CASE UNCHANGED hookVars
  BY <1>5 DEF hookVars, HookTyped
<1>6. QED
  BY <1>2, <1>4, <1>5 DEF HookNext

--------------------------------------------------------------------------------

(* What is known of a firing under which no pass has written: what it may  *)
(* still look at has not been skipped, and what it has looked at covers    *)
(* nothing or has; the database it has taken is the one it should ask;     *)
(* what it has gathered answers the call; and once it has ended, what it   *)
(* printed does.                                                           *)
NoneSkipped(cwd, skipped, i, k) ==
    \A j \in DOMAIN Above[cwd], l \in {1, 2} :
        ~(j < i \/ (j = i /\ l < k)) => <<Above[cwd][j], l>> \notin skipped

SoundAs(s, answer) ==
    /\ s.pc = "find" =>
          /\ NoneBefore(s.event.cwd, s.skipped, s.level, s.slot)
          /\ NoneSkipped(s.event.cwd, s.skipped, s.level, s.slot)
    /\ s.pc = "no_index" => DueFrom(s) = {}
    /\ s.pc = "query" => s.within = IF s.blind THEN {} ELSE RootFor(db[s.db], s.event.cwd)
    /\ s.pc = "no_hits" /\ Cardinality(Searched(s, s.db)) <= Room(s.event) =>
          Answering(s, s.db) = {}
    /\ s.pc = "schema_no_hits" => s.event.tables \intersect db[s.db].tables \subseteq s.missed
    /\ s.pc \in Kept =>
          /\ DueFrom(s) = {s.db}
          /\ s.rows \subseteq Answering(s, s.db)
          /\ s.tables \subseteq s.event.tables \intersect db[s.db].tables
    /\ s.pc = "exit" /\ answer # Silence =>
          /\ DueFrom(s) = {answer.db}
          /\ answer.hits \subseteq Answering(s, answer.db)
          /\ answer.tables \subseteq s.event.tables \intersect db[answer.db].tables

(* And of what it leaves behind: nothing before it logs, then one line at  *)
(* most, which is whole unless the write failed, and only after that an    *)
(* answer.                                                                 *)
Own(f) == {i \in DOMAIN log : log[i].by = f}

Delivered(i) == log[i].outcome \in Delivery

ToldAs(f, s, answer) ==
    /\ s.pc \in Early \union Final => Own(f) = {}
    /\ s.pc # "exit" => answer = Silence
    /\ s.pc \notin {"off", "exit"} => Intent(s.event) # "none"
    /\ Intent(s.event) = "none" => Own(f) = {}
    /\ \A i, j \in Own(f) : i = j
    /\ s.pc = "print" => \A i \in Own(f) : Delivered(i) /\ log[i].db = s.db
    /\ s.pc = "exit" /\ answer = Silence => \A i \in Own(f) : ~Delivered(i)
    /\ s.pc = "exit" /\ answer # Silence =>
          Intent(s.event) # "none" /\ \A i \in Own(f) : Delivered(i) /\ log[i].db = answer.db
    /\ s.pc \in {"print", "exit"} /\ Intent(s.event) # "none" /\ ~s.unlogged =>
          \E i \in Own(f) : log[i].end = "line"

Good(f) ==
    /\ firing[f].moved \/ SoundAs(firing[f], output[f])
    /\ ToldAs(f, firing[f], output[f])

(* What a call is due depends on the call and on what could not be asked.  *)
LEMMA SameCall ==
    ASSUME NEW s, NEW n, n.event = s.event, n.env = s.env, n.skipped = s.skipped
    PROVE  /\ DueFrom(n) = DueFrom(s)
           /\ n.blind = s.blind =>
                 \A d : Searched(n, d) = Searched(s, d) /\ Answering(n, d) = Answering(s, d)
<1>1. DueFrom(n) = DueFrom(s)
  BY DEF DueFrom
<1>2. ASSUME n.blind = s.blind, NEW d PROVE Searched(n, d) = Searched(s, d)
  BY <1>2 DEF Searched
<1>3. ASSUME n.blind = s.blind, NEW d PROVE Answering(n, d) = Answering(s, d)
  BY <1>2, <1>3 DEF Answering
<1>4. QED
  BY <1>1, <1>2, <1>3

(* While no pass writes, what the databases say stays.                     *)
LEMMA SameIndex ==
    ASSUME UNCHANGED db, NEW s, NEW answer
    PROVE  SoundAs(s, answer)' <=> SoundAs(s, answer)
<1>1. \A cwd : Covering(cwd)' = Covering(cwd)
  BY DEF Covering
<1>2. \A cwd, skipped : Nearest(cwd, skipped)' = Nearest(cwd, skipped)
  BY <1>1 DEF Nearest
<1>3. DueFrom(s)' = DueFrom(s)
  BY <1>2 DEF DueFrom
<1>4. \A d, cwd : Mine(d, cwd)' = Mine(d, cwd)
  BY DEF Mine
<1>5. \A d : Searched(s, d)' = Searched(s, d)
  BY <1>4 DEF Searched
<1>6. \A d : Answering(s, d)' = Answering(s, d)
  BY <1>5 DEF Answering
<1>7. \A cwd, skipped, i, k : NoneBefore(cwd, skipped, i, k)' <=> NoneBefore(cwd, skipped, i, k)
  BY <1>1 DEF NoneBefore, Left
<1>8. QED
  BY <1>3, <1>5, <1>6, <1>7 DEF SoundAs

LEMMA SameLog ==
    ASSUME UNCHANGED log, NEW f, NEW s, NEW answer
    PROVE  ToldAs(f, s, answer)' <=> ToldAs(f, s, answer)
<1>1. Own(f)' = Own(f) /\ \A i : Delivered(i)' <=> Delivered(i)
  BY DEF Own, Delivered
<1>2. QED
  BY <1>1 DEF ToldAs

LEMMA LinesAfter ==
    ASSUME HookTyped, NEW l, log' = Append(log, l)
    PROVE  /\ \A i \in DOMAIN log : i # Len(log) + 1 /\ log'[i] = log[i]
           /\ DOMAIN log' = DOMAIN log \union {Len(log) + 1}
           /\ log'[Len(log) + 1] = l
           /\ \A g : Own(g)' = Own(g) \union (IF l.by = g THEN {Len(log) + 1} ELSE {})
<1>1. log \in Seq(LineType \union {l}) /\ l \in LineType \union {l}
  <2>1. Seq(LineType) \subseteq Seq(LineType \union {l})
    OBVIOUS
  <2>2. QED
    BY <2>1 DEF HookTyped
<1>2. Len(log) \in Nat /\ DOMAIN log = 1 .. Len(log)
  BY <1>1, LenProperties
<1>3. /\ DOMAIN log' = 1 .. Len(log) + 1
      /\ \A i \in DOMAIN log : log'[i] = log[i]
      /\ log'[Len(log) + 1] = l
  BY <1>1, <1>2, AppendProperties
<1>4. DOMAIN log' = DOMAIN log \union {Len(log) + 1} /\ Len(log) + 1 \notin DOMAIN log
  BY <1>2, <1>3
<1>5. \A g : Own(g)' = Own(g) \union (IF l.by = g THEN {Len(log) + 1} ELSE {})
  BY <1>3, <1>4 DEF Own
<1>6. QED
  BY <1>3, <1>4, <1>5

(* What one firing does is nothing to another.                             *)
LEMMA OthersStand ==
    ASSUME HookTyped, NEW g \in Firing, Good(g), UNCHANGED db,
           firing'[g] = firing[g], output'[g] = output[g],
           log' = log \/ \E l : log' = Append(log, l) /\ l.by # g
    PROVE  Good(g)'
<1>1. PICK s, o : s = firing[g] /\ o = output[g]
  OBVIOUS
<1>2. Own(g)' = Own(g) /\ \A i \in Own(g) : log'[i] = log[i]
  BY LinesAfter DEF Own
<1>3. ToldAs(g, s, o)
  BY <1>1 DEF Good
<1>4. ToldAs(g, s, o)'
  BY <1>2, <1>3 DEF ToldAs, Delivered
<1>5. s.moved \/ SoundAs(s, o)'
  BY <1>1, SameIndex DEF Good
<1>6. QED
  BY <1>1, <1>4, <1>5 DEF Good

LEMMA BecomesThis ==
    ASSUME HookTyped, NEW f \in Firing, NEW n, Becomes(f, n)
    PROVE  firing'[f] = n /\ \A g \in Firing \ {f} : firing'[g] = firing[g]
BY DEF HookTyped, Becomes

(* A firing that neither logs nor prints is good when it becomes a state   *)
(* that is.                                                                *)
LEMMA Quietly ==
    ASSUME HookTyped, NEW f \in Firing, UNCHANGED <<db, log, output>>, NEW n, Becomes(f, n),
           n.moved \/ SoundAs(n, output[f]), ToldAs(f, n, output[f])
    PROVE  Good(f)'
<1>1. PICK o : o = output[f]
  OBVIOUS
<1>2. firing'[f] = n /\ output'[f] = o
  BY <1>1, BecomesThis
<1>3. (n.moved \/ SoundAs(n, o)') /\ ToldAs(f, n, o)'
  BY <1>1, SameIndex, SameLog
<1>4. QED
  BY <1>2, <1>3 DEF Good

(* While it is early it is told of as before.                              *)
LEMMA EarlyTold ==
    ASSUME NEW f \in Firing, Good(f), firing[f].pc \in Early, firing[f].pc # "off", NEW n,
           n.pc \in Early \union Final, n.event = firing[f].event
    PROVE  ToldAs(f, n, output[f])
BY DEF Good, ToldAs, Early, Final

LEMMA GoodTakeUp ==
    ASSUME HookTyped, NEW f \in Firing, Good(f), NEW e \in Event, TakeUp(f, e)
    PROVE  Good(f)'
<1> DEFINE s == firing[f]
<1>1. s.pc = "off" /\ output[f] = Silence /\ UNCHANGED <<db, log, output>>
  BY DEF TakeUp, Lives
<1>2. PICK v \in Env : Becomes(f, [s EXCEPT !.event = e, !.env = v, !.pc = FirstStep(e, v)])
  BY DEF TakeUp
<1>3. PICK n : n = [s EXCEPT !.event = e, !.env = v, !.pc = FirstStep(e, v)]
  OBVIOUS
<1>4. s \in FiringType /\ Placed(s)
  BY DEF HookTyped
<1>5. /\ n.event = e /\ n.pc = FirstStep(e, v) /\ n.level = 1 /\ n.slot = 1 /\ n.skipped = {}
  BY <1>1, <1>3, <1>4 DEF FiringType, Placed
<1>6. /\ n.pc \in {"exit", "find", "open"}
      /\ n.pc = "exit" <=> Intent(e) = "none"
  BY <1>5 DEF FirstStep
<1>7. NoneBefore(e.cwd, {}, 1, 1) /\ NoneSkipped(e.cwd, {}, 1, 1)
  <2>1. DOMAIN Above[e.cwd] = 1 .. Len(Above[e.cwd])
    BY HookAssumption, PathIsNumbered
  <2>2. QED
    BY <2>1 DEF NoneBefore, NoneSkipped
<1>8. SoundAs(n, output[f])
  BY <1>1, <1>5, <1>6, <1>7 DEF SoundAs, Kept
<1>9. Own(f) = {}
  BY <1>1 DEF Good, ToldAs, Early
<1>10. ToldAs(f, n, output[f])
  BY <1>1, <1>5, <1>6, <1>9 DEF ToldAs, Early, Final
<1>11. QED
  BY <1>1, <1>2, <1>3, <1>8, <1>10, Quietly

LEMMA GoodOpenNamed ==
    ASSUME HookTyped, NEW f \in Firing, Good(f), OpenNamed(f)
    PROVE  Good(f)'
<1> DEFINE s == firing[f]
<1>1. s.pc = "open" /\ UNCHANGED <<db, log, output>>
  BY DEF OpenNamed, Lives
<1>2. s \in FiringType /\ Placed(s)
  BY DEF HookTyped
<1>3. /\ s.env # NoDb /\ s.skipped = {} /\ s.rows = {} /\ s.tables = {}
  BY <1>1, <1>2 DEF Placed, Early
<1>4. PICK n :
         /\ Becomes(f, n)
         /\ \/ s.env \in Db /\ n = [s EXCEPT !.db = s.env, !.pc = Asks(s.event)]
            \/ n = [s EXCEPT !.skipped = {s.env}, !.pc = "no_index"]
  BY DEF OpenNamed
<1>5. Asks(s.event) \in {"root", "lookup"}
  BY DEF Asks
<1>6. CASE n = [s EXCEPT !.db = s.env, !.pc = Asks(s.event)]
  <2>1. /\ n.event = s.event /\ n.env = s.env /\ n.skipped = {} /\ n.db = s.env
        /\ n.rows = {} /\ n.tables = {} /\ n.pc \in {"root", "lookup"}
    BY <1>2, <1>3, <1>5, <1>6 DEF FiringType
  <2>2. DueFrom(n) = {n.db}
    BY <1>3, <2>1 DEF DueFrom
  <2>3. SoundAs(n, output[f])
    BY <2>1, <2>2 DEF SoundAs
  <2>4. ToldAs(f, n, output[f])
    BY <1>1, <2>1, EarlyTold DEF Early
  <2>5. QED
    BY <1>1, <1>4, <2>3, <2>4, Quietly
<1>7. CASE n = [s EXCEPT !.skipped = {s.env}, !.pc = "no_index"]
  <2>1. /\ n.event = s.event /\ n.env = s.env /\ n.skipped = {s.env} /\ n.pc = "no_index"
    BY <1>2, <1>7 DEF FiringType
  <2>2. DueFrom(n) = {}
    BY <1>3, <2>1 DEF DueFrom
  <2>3. SoundAs(n, output[f])
    BY <2>1, <2>2 DEF SoundAs, Kept
  <2>4. ToldAs(f, n, output[f])
    BY <1>1, <2>1, EarlyTold DEF Early, Final
  <2>5. QED
    BY <1>1, <1>4, <2>3, <2>4, Quietly
<1>8. QED
  BY <1>4, <1>6, <1>7

(* A place is found to cover the directory or not.                         *)
LEMMA FoundIsCovering ==
    ASSUME HookTyped, NEW f \in Firing, firing[f].pc = "find"
    PROVE  Found(firing[f]) <=> Place(firing[f]) \in Covering(firing[f].event.cwd)
<1> DEFINE s == firing[f]
<1>1. s.level \in DOMAIN Above[s.event.cwd]
  BY DEF HookTyped, Placed
<1>2. Holds(Place(s)[1], s.event.cwd)
  BY <1>1 DEF Place, Holds
<1>3. QED
  BY <1>2 DEF Found, Covers, Covering

LEMMA TakenIsNearest ==
    ASSUME NEW cwd \in DOMAIN Above, NEW i \in DOMAIN Above[cwd], NEW k \in {1, 2}, NEW skipped,
           NoneBefore(cwd, skipped, i, k), NoneSkipped(cwd, skipped, i, k),
           NEW d \in Covering(cwd), d = <<Above[cwd][i], k>>
    PROVE  Nearest(cwd, skipped) = {d}
<1>1. i \in Nat
  BY PathIsNumbered
<1>2. ~(i < i \/ (i = i /\ k < k))
  BY <1>1
<1>3. d \notin skipped
  BY <1>2 DEF NoneSkipped
<1>4. d \in Left(cwd, skipped)
  BY <1>3 DEF Left
<1>5. QED
  BY <1>4, FirstIsNearest

LEMMA GoodTakeDb ==
    ASSUME HookTyped, NEW f \in Firing, Good(f), TakeDb(f)
    PROVE  Good(f)'
<1> DEFINE s == firing[f]
<1>1. s.pc = "find" /\ Found(s) /\ UNCHANGED <<db, log, output>>
  BY DEF TakeDb, Lives
<1>2. s \in FiringType /\ Placed(s)
  BY DEF HookTyped
<1>3. s.env = NoDb /\ s.rows = {} /\ s.tables = {}
  BY <1>1, <1>2 DEF Placed, Early
<1>4. PICK n : n = [s EXCEPT !.db = Place(s), !.pc = Asks(s.event)]
  OBVIOUS
<1>5. /\ n.event = s.event /\ n.env = s.env /\ n.skipped = s.skipped /\ n.db = Place(s)
      /\ n.pc \in {"root", "lookup"} /\ n.rows = {} /\ n.tables = {} /\ n.moved = s.moved
  BY <1>2, <1>3, <1>4 DEF FiringType, Asks
<1>6. ASSUME ~s.moved PROVE Nearest(s.event.cwd, s.skipped) = {Place(s)}
  <2>1. /\ NoneBefore(s.event.cwd, s.skipped, s.level, s.slot)
        /\ NoneSkipped(s.event.cwd, s.skipped, s.level, s.slot)
    BY <1>1, <1>6 DEF Good, SoundAs
  <2>2. s.event.cwd \in DOMAIN Above /\ s.level \in DOMAIN Above[s.event.cwd] /\ s.slot \in {1, 2}
    BY <1>1, <1>2, HookAssumption DEF FiringType, Placed
  <2>3. Place(s) \in Covering(s.event.cwd)
    BY <1>1, FoundIsCovering
  <2>4. Place(s) = <<Above[s.event.cwd][s.level], s.slot>>
    BY DEF Place
  <2>5. QED
    BY <2>1, <2>2, <2>3, <2>4, TakenIsNearest
<1>7. n.moved \/ DueFrom(n) = {n.db}
  BY <1>3, <1>5, <1>6 DEF DueFrom
<1>8. n.moved \/ SoundAs(n, output[f])
  BY <1>5, <1>7 DEF SoundAs
<1>9. ToldAs(f, n, output[f])
  BY <1>1, <1>5, EarlyTold DEF Early
<1>10. Becomes(f, n)
  BY <1>4 DEF TakeDb
<1>11. QED
  BY <1>1, <1>8, <1>9, <1>10, Quietly

(* What is skipped or found to cover nothing leaves none before the next.  *)
LEMMA PlacesInOrder ==
    ASSUME NEW cwd \in DOMAIN Above, NEW i \in DOMAIN Above[cwd], NEW k \in {1, 2}, NEW skipped,
           NoneBefore(cwd, skipped, i, k), <<Above[cwd][i], k>> \notin Left(cwd, skipped)
    PROVE  /\ k = 1 => NoneBefore(cwd, skipped, i, 2)
           /\ k = 2 => NoneBefore(cwd, skipped, i + 1, 1)
           /\ k = 2 /\ i = Len(Above[cwd]) => Nearest(cwd, skipped) = {}
<1>1. Len(Above[cwd]) \in Nat /\ DOMAIN Above[cwd] = 1 .. Len(Above[cwd])
  BY PathIsNumbered
<1>2. ASSUME NEW j \in DOMAIN Above[cwd], NEW l \in {1, 2}, j < i \/ (j = i /\ l <= k)
      PROVE  <<Above[cwd][j], l>> \notin Left(cwd, skipped)
  <2>1. CASE j < i \/ (j = i /\ l < k)
    BY <2>1 DEF NoneBefore
  <2>2. CASE j = i /\ l = k
    BY <2>2
  <2>3. l \in Nat /\ k \in Nat
    OBVIOUS
  <2>4. QED
    BY <1>2, <2>1, <2>2, <2>3
<1>3. k = 1 => NoneBefore(cwd, skipped, i, 2)
  <2>1. ASSUME k = 1, NEW j \in DOMAIN Above[cwd], NEW l \in {1, 2}, j < i \/ (j = i /\ l < 2)
        PROVE  <<Above[cwd][j], l>> \notin Left(cwd, skipped)
    <3>1. l < 2 => l <= k
      BY <2>1
    <3>2. QED
      BY <1>2, <2>1, <3>1
  <2>2. QED
    BY <2>1 DEF NoneBefore
<1>4. k = 2 => NoneBefore(cwd, skipped, i + 1, 1)
  <2>1. ASSUME k = 2, NEW j \in DOMAIN Above[cwd], NEW l \in {1, 2},
               j < i + 1 \/ (j = i + 1 /\ l < 1)
        PROVE  <<Above[cwd][j], l>> \notin Left(cwd, skipped)
    <3>1. j \in Nat /\ i \in Nat
      BY <1>1
    <3>2. j < i \/ (j = i /\ l <= k)
      BY <2>1, <3>1
    <3>3. QED
      BY <1>2, <3>2
  <2>2. QED
    BY <2>1 DEF NoneBefore
<1>5. k = 2 /\ i = Len(Above[cwd]) => Nearest(cwd, skipped) = {}
  <2>1. ASSUME k = 2, i = Len(Above[cwd]), NEW j \in DOMAIN Above[cwd], NEW l \in {1, 2}
        PROVE  <<Above[cwd][j], l>> \notin Left(cwd, skipped)
    <3>1. j < i \/ (j = i /\ l <= k)
      BY <1>1, <2>1
    <3>2. QED
      BY <1>2, <3>1
  <2>2. QED
    BY <2>1, NowhereIsNearest
<1>6. QED
  BY <1>3, <1>4, <1>5

(* A place that is skipped is passed by.                                   *)
LEMMA SkippedInOrder ==
    ASSUME NEW cwd \in DOMAIN Above, NEW i \in DOMAIN Above[cwd], NEW k \in {1, 2},
           NEW skipped, NEW after, after \subseteq skipped \union {<<Above[cwd][i], k>>},
           NoneSkipped(cwd, skipped, i, k)
    PROVE  /\ k = 1 => NoneSkipped(cwd, after, i, 2)
           /\ k = 2 => NoneSkipped(cwd, after, i + 1, 1)
<1>1. DOMAIN Above[cwd] = 1 .. Len(Above[cwd]) /\ Len(Above[cwd]) \in Nat
  BY PathIsNumbered
<1>2. ASSUME NEW j \in DOMAIN Above[cwd], NEW l \in {1, 2}, ~(j < i \/ (j = i /\ l <= k))
      PROVE  <<Above[cwd][j], l>> \notin after
  <2>1. ~(j < i \/ (j = i /\ l < k)) /\ ~(j = i /\ l = k)
    BY <1>1, <1>2
  <2>2. <<Above[cwd][j], l>> \notin skipped
    BY <2>1 DEF NoneSkipped
  <2>3. Above[cwd][j] = Above[cwd][i] => j = i
    BY HookAssumption
  <2>4. <<Above[cwd][j], l>> # <<Above[cwd][i], k>>
    BY <2>1, <2>3
  <2>5. QED
    BY <2>2, <2>4
<1>3. ASSUME k = 1 PROVE NoneSkipped(cwd, after, i, 2)
  <2>1. ASSUME NEW j \in DOMAIN Above[cwd], NEW l \in {1, 2}, ~(j < i \/ (j = i /\ l < 2))
        PROVE  <<Above[cwd][j], l>> \notin after
    <3>1. ~(j < i \/ (j = i /\ l <= k))
      BY <1>3, <2>1
    <3>2. QED
      BY <1>2, <3>1
  <2>2. QED
    BY <2>1 DEF NoneSkipped
<1>4. ASSUME k = 2 PROVE NoneSkipped(cwd, after, i + 1, 1)
  <2>1. ASSUME NEW j \in DOMAIN Above[cwd], NEW l \in {1, 2}, ~(j < i + 1 \/ (j = i + 1 /\ l < 1))
        PROVE  <<Above[cwd][j], l>> \notin after
    <3>1. ~(j < i \/ (j = i /\ l <= k))
      <4>1. i \in Nat /\ j \in Nat
        BY <1>1
      <4>2. QED
        BY <1>4, <2>1, <4>1
    <3>2. QED
      BY <1>2, <3>1
  <2>2. QED
    BY <2>1 DEF NoneSkipped
<1>5. QED
  BY <1>3, <1>4

LEMMA GoodNextPlace ==
    ASSUME HookTyped, NEW f \in Firing, Good(f), NextPlace(f)
    PROVE  Good(f)'
<1> DEFINE s == firing[f]
<1>1. s \in FiringType /\ Placed(s)
  BY DEF HookTyped
<1>2. s.pc = "find" /\ UNCHANGED <<db, log, output>>
  BY <1>1 DEF NextPlace, Lives, FiringType
<1>3. PICK cwd, i, k : cwd = s.event.cwd /\ i = s.level /\ k = s.slot
  OBVIOUS
<1>4. PICK after : after = Skips(s)
  OBVIOUS
<1>5. PICK n : Becomes(f, n) /\ LooksOn(s, after, n)
  BY <1>1, <1>4, NextPlaceBecomes
<1>6. cwd \in DOMAIN Above /\ i \in DOMAIN Above[cwd] /\ k \in {1, 2} /\ s.env = NoDb
  BY <1>1, <1>2, <1>3, HookAssumption DEF FiringType, Placed
<1>7. Place(s) = <<Above[cwd][i], k>>
  BY <1>3 DEF Place
<1>8. /\ s.skipped \subseteq after /\ after \subseteq s.skipped \union {<<Above[cwd][i], k>>}
      /\ <<Above[cwd][i], k>> \notin Left(cwd, after)
  BY <1>2, <1>3, <1>4, <1>7, FoundIsCovering DEF Skips, Left
<1>9. ASSUME ~s.moved
      PROVE  /\ k = 1 => NoneBefore(cwd, after, i, 2) /\ NoneSkipped(cwd, after, i, 2)
             /\ k = 2 => NoneBefore(cwd, after, i + 1, 1) /\ NoneSkipped(cwd, after, i + 1, 1)
             /\ k = 2 /\ i = Len(Above[cwd]) => Nearest(cwd, after) = {}
  <2>1. NoneBefore(cwd, s.skipped, i, k) /\ NoneSkipped(cwd, s.skipped, i, k)
    BY <1>2, <1>3, <1>9 DEF Good, SoundAs
  <2>2. NoneBefore(cwd, after, i, k)
    BY <1>8, <2>1 DEF NoneBefore, Left
  <2>3. PICK skipped : skipped = s.skipped
    OBVIOUS
  <2>4. /\ k = 1 => NoneSkipped(cwd, after, i, 2)
        /\ k = 2 => NoneSkipped(cwd, after, i + 1, 1)
    BY <1>6, <1>8, <2>1, <2>3, SkippedInOrder
  <2>5. QED
    BY <1>6, <1>8, <2>2, <2>4, PlacesInOrder
<1>a. ASSUME n.event = s.event, n.moved = s.moved, n.pc \in {"find", "no_index"},
             s.moved \/ SoundAs(n, output[f])
      PROVE  Good(f)'
  <2>1. ToldAs(f, n, output[f])
    BY <1>2, <1>a, EarlyTold DEF Early, Final
  <2>2. QED
    BY <1>2, <1>5, <1>a, <2>1, Quietly
<1>b. CASE s.slot = 1 /\ n = [s EXCEPT !.skipped = after, !.slot = 2]
  <2>1. /\ n.event = s.event /\ n.pc = "find" /\ n.level = i /\ n.slot = 2
        /\ n.skipped = after /\ n.moved = s.moved
    BY <1>1, <1>2, <1>3, <1>b DEF FiringType
  <2>2. s.moved \/ SoundAs(n, output[f])
    BY <1>3, <1>9, <1>b, <2>1 DEF SoundAs, Kept
  <2>3. QED
    BY <1>a, <2>1, <2>2
<1>c. CASE /\ s.slot = 2 /\ s.level < Len(Above[s.event.cwd])
           /\ n = [s EXCEPT !.skipped = after, !.slot = 1, !.level = s.level + 1]
  <2>1. /\ n.event = s.event /\ n.pc = "find" /\ n.level = i + 1 /\ n.slot = 1
        /\ n.skipped = after /\ n.moved = s.moved
    BY <1>1, <1>2, <1>3, <1>c DEF FiringType
  <2>2. s.moved \/ SoundAs(n, output[f])
    BY <1>3, <1>9, <1>c, <2>1 DEF SoundAs, Kept
  <2>3. QED
    BY <1>a, <2>1, <2>2
<1>d. CASE /\ s.slot = 2 /\ s.level = Len(Above[s.event.cwd])
           /\ n = [s EXCEPT !.skipped = after, !.pc = "no_index"]
  <2>1. /\ n.event = s.event /\ n.pc = "no_index" /\ n.env = NoDb
        /\ n.skipped = after /\ n.moved = s.moved
    BY <1>1, <1>2, <1>6, <1>d DEF FiringType
  <2>2. s.moved \/ DueFrom(n) = {}
    BY <1>3, <1>9, <1>d, <2>1 DEF DueFrom
  <2>3. s.moved \/ SoundAs(n, output[f])
    BY <2>1, <2>2 DEF SoundAs, Kept
  <2>4. QED
    BY <1>a, <2>1, <2>3
<1>e. QED
  BY <1>5, <1>b, <1>c, <1>d DEF LooksOn

LEMMA GoodFindRoot ==
    ASSUME HookTyped, NEW f \in Firing, Good(f), FindRoot(f)
    PROVE  Good(f)'
<1> DEFINE s == firing[f]
<1>1. s.pc = "root" /\ UNCHANGED <<db, log, output>>
  BY DEF FindRoot, Lives
<1>2. s \in FiringType /\ Placed(s)
  BY DEF HookTyped
<1>3. PICK within : \E m \in BOOLEAN :
         /\ within = IF m THEN {} ELSE RootFor(db[s.db], s.event.cwd)
         /\ Becomes(f, [s EXCEPT !.within = within, !.blind = m, !.pc = "query"])
  BY <1>2, FindRootBecomes
<1>4. PICK m \in BOOLEAN :
         /\ within = IF m THEN {} ELSE RootFor(db[s.db], s.event.cwd)
         /\ Becomes(f, [s EXCEPT !.within = within, !.blind = m, !.pc = "query"])
  BY <1>3, Zenon
<1>5. PICK n : n = [s EXCEPT !.within = within, !.blind = m, !.pc = "query"]
  OBVIOUS
<1>6. /\ n.event = s.event /\ n.env = s.env /\ n.skipped = s.skipped /\ n.db = s.db
      /\ n.pc = "query" /\ n.rows = {} /\ n.tables = {} /\ n.moved = s.moved
      /\ n.blind = m /\ n.within = within
  BY <1>1, <1>2, <1>5 DEF FiringType, Placed, Early
<1>7. n.moved \/ DueFrom(n) = {n.db}
  BY <1>1, <1>6, SameCall DEF Good, SoundAs, Kept
<1>8. n.within = IF n.blind THEN {} ELSE RootFor(db[n.db], n.event.cwd)
  BY <1>4, <1>6
<1>9. n.moved \/ SoundAs(n, output[f])
  BY <1>6, <1>7, <1>8 DEF SoundAs
<1>10. ToldAs(f, n, output[f])
  BY <1>1, <1>6, EarlyTold DEF Early
<1>11. QED
  BY <1>1, <1>4, <1>5, <1>9, <1>10, Quietly

(* What the query returns answers the call, and it returns something when  *)
(* there is something and the fetched rows hold all that is searched.      *)
LEMMA RowsAnswer ==
    ASSUME HookTyped, NEW s \in FiringType, s.db \in Db,
           s.within = IF s.blind THEN {} ELSE RootFor(db[s.db], s.event.cwd),
           NEW rows, rows = Rows(s.event, FindCodeInRepo(db[s.db], s.within, Fetch(s.event)))
    PROVE  /\ rows \subseteq Answering(s, s.db)
           /\ Cardinality(Searched(s, s.db)) <= Room(s.event) /\ rows = {}
                => Answering(s, s.db) = {}
<1> DEFINE d == s.db
           e == s.event
           searched == Searched(s, d)
           found == FindCodeInRepo(db[d], s.within, Fetch(e))
           kept == {c \in found : Ranked[c].whole /\ Meets(e, c)}
<1>1. e.cwd \in DOMAIN Above /\ Stored(db[d]) /\ db[d].chunks \subseteq DOMAIN Ranked
  BY HookAssumption DEF FiringType, HookTyped, Content
<1>2. found = BestOf(searched, Fetch(e))
  <2>1. CASE s.blind
    BY <2>1 DEF FindCodeInRepo, Searched
  <2>2. CASE ~s.blind
    BY <1>1, <2>2, SearchedIsMine DEF FindCodeInRepo, Searched
  <2>3. QED
    BY <2>1, <2>2
<1>3. searched \subseteq DOMAIN Ranked
  BY <1>1 DEF Searched, Mine
<1>4. found \subseteq searched
  BY <1>2 DEF BestOf
<1>5. rows = BestOf(kept, MaxHits)
  BY DEF Rows
<1>6. kept \subseteq Answering(s, d)
  BY <1>4 DEF Answering
<1>7. rows \subseteq kept
  BY <1>5 DEF BestOf
<1>8. ASSUME Cardinality(searched) <= Room(e), rows = {} PROVE Answering(s, d) = {}
  <2>1. Fetch(e) \in Nat /\ Fetch(e) = Room(e)
    BY HookAssumption DEF Fetch, Room
  <2>2. found = searched
    BY <1>2, <1>3, <1>8, <2>1, BestOfFew
  <2>3. kept = Answering(s, d)
    BY <2>2 DEF Answering
  <2>4. kept = {}
    <3>1. kept \subseteq DOMAIN Ranked
      BY <1>3, <1>4
    <3>2. MaxHits \in Nat \ {0}
      BY HookAssumption
    <3> HIDE DEF kept
    <3>3. QED
      BY <1>5, <1>8, <3>1, <3>2, BestOfSome
  <2>5. QED
    BY <2>3, <2>4
<1>9. QED
  BY <1>6, <1>7, <1>8

LEMMA GoodRunQuery ==
    ASSUME HookTyped, NEW f \in Firing, Good(f), RunQuery(f)
    PROVE  Good(f)'
<1> DEFINE s == firing[f]
<1>1. s.pc = "query" /\ UNCHANGED <<db, log, output>>
  BY DEF RunQuery, Lives
<1>2. PICK rows : rows = Rows(s.event, FindCodeInRepo(db[s.db], s.within, Fetch(s.event)))
  OBVIOUS
<1>3. PICK n : n = [s EXCEPT !.rows = rows, !.pc = IF rows = {} THEN "no_hits" ELSE "served"]
  OBVIOUS
<1>4. Becomes(f, n)
  BY <1>2, <1>3 DEF RunQuery
<1>5. s \in FiringType /\ Placed(s)
  BY DEF HookTyped
<1>6. /\ n.event = s.event /\ n.env = s.env /\ n.skipped = s.skipped /\ n.blind = s.blind
      /\ n.db = s.db /\ n.rows = rows /\ n.tables = {} /\ n.moved = s.moved
      /\ n.pc = IF rows = {} THEN "no_hits" ELSE "served"
  BY <1>1, <1>3, <1>5 DEF FiringType, Placed, Early
<1>7. s.db \in Db
  BY <1>1, <1>5 DEF Placed, Kept
<1>8. s.moved \/ /\ DueFrom(s) = {s.db}
                 /\ s.within = IF s.blind THEN {} ELSE RootFor(db[s.db], s.event.cwd)
  BY <1>1 DEF Good, SoundAs, Kept
<1>9. s.moved \/ /\ rows \subseteq Answering(s, s.db)
                 /\ Cardinality(Searched(s, s.db)) <= Room(s.event) /\ rows = {}
                      => Answering(s, s.db) = {}
  BY <1>2, <1>5, <1>7, <1>8, RowsAnswer
<1>10. /\ DueFrom(n) = DueFrom(s) /\ Searched(n, n.db) = Searched(s, s.db)
       /\ Answering(n, n.db) = Answering(s, s.db)
  BY <1>6, SameCall
<1>11. n.moved \/ SoundAs(n, output[f])
  BY <1>6, <1>8, <1>9, <1>10 DEF SoundAs
<1>12. ToldAs(f, n, output[f])
  BY <1>1, <1>6, EarlyTold DEF Early, Final
<1>13. QED
  BY <1>1, <1>4, <1>11, <1>12, Quietly

LEMMA GoodQueryFails ==
    ASSUME HookTyped, NEW f \in Firing, Good(f), QueryFails(f)
    PROVE  Good(f)'
<1> DEFINE s == firing[f]
<1>1. s.pc = "query" /\ UNCHANGED <<db, log, output>>
  BY DEF QueryFails, Lives
<1>2. PICK n : n = [s EXCEPT !.pc = "query_error"]
  OBVIOUS
<1>3. Becomes(f, n)
  BY <1>2 DEF QueryFails
<1>4. s \in FiringType /\ Placed(s)
  BY DEF HookTyped
<1>5. /\ n.event = s.event /\ n.env = s.env /\ n.skipped = s.skipped
      /\ n.db = s.db /\ n.rows = {} /\ n.tables = {} /\ n.moved = s.moved
      /\ n.pc = "query_error"
  BY <1>1, <1>2, <1>4 DEF FiringType, Placed, Early
<1>6. n.moved \/ DueFrom(n) = {n.db}
  BY <1>1, <1>5, SameCall DEF Good, SoundAs, Kept
<1>7. n.moved \/ SoundAs(n, output[f])
  BY <1>5, <1>6 DEF SoundAs
<1>8. ToldAs(f, n, output[f])
  BY <1>1, <1>5, EarlyTold DEF Early, Final
<1>9. QED
  BY <1>1, <1>3, <1>7, <1>8, Quietly

LEMMA GoodLookup ==
    ASSUME HookTyped, NEW f \in Firing, Good(f), Lookup(f)
    PROVE  Good(f)'
<1> DEFINE s == firing[f]
<1>1. s.pc = "lookup" /\ UNCHANGED <<db, log, output>>
  BY DEF Lookup, Lives
<1>2. PICK missed \in SUBSET s.event.tables :
         LET hits == (s.event.tables \ missed) \intersect db[s.db].tables IN
         Becomes(f, [s EXCEPT !.tables = hits, !.missed = missed,
                              !.pc = IF hits = {} THEN "schema_no_hits" ELSE "schema_served"])
  BY DEF Lookup
<1>3. PICK hits : hits = (s.event.tables \ missed) \intersect db[s.db].tables
  OBVIOUS
<1>4. PICK n : n = [s EXCEPT !.tables = hits, !.missed = missed,
                             !.pc = IF hits = {} THEN "schema_no_hits" ELSE "schema_served"]
  OBVIOUS
<1>5. Becomes(f, n)
  BY <1>2, <1>3, <1>4
<1>6. s \in FiringType /\ Placed(s)
  BY DEF HookTyped
<1>7. /\ n.event = s.event /\ n.env = s.env /\ n.skipped = s.skipped
      /\ n.db = s.db /\ n.rows = {} /\ n.tables = hits /\ n.missed = missed /\ n.moved = s.moved
      /\ n.pc = IF hits = {} THEN "schema_no_hits" ELSE "schema_served"
  BY <1>1, <1>4, <1>6 DEF FiringType, Placed, Early
<1>8. n.moved \/ DueFrom(n) = {n.db}
  BY <1>1, <1>7, SameCall DEF Good, SoundAs, Kept
<1>9. n.moved \/ SoundAs(n, output[f])
  BY <1>3, <1>7, <1>8 DEF SoundAs
<1>10. ToldAs(f, n, output[f])
  BY <1>1, <1>7, EarlyTold DEF Early, Final
<1>11. QED
  BY <1>1, <1>5, <1>9, <1>10, Quietly

LEMMA GoodLogFiring ==
    ASSUME HookTyped, NEW f \in Firing, Good(f), LogFiring(f)
    PROVE  Good(f)'
<1> DEFINE s == firing[f]
<1>1. s.pc \in Final /\ UNCHANGED <<db, output>>
  BY DEF LogFiring, Lives
<1>2. s \in FiringType /\ Placed(s)
  BY DEF HookTyped
<1>3. PICK n \in FiringType, end \in {"line"} \union Broken :
         /\ Becomes(f, n) /\ LogsAs(s, n, end)
         /\ \/ log' = Append(log, LineOf(f, s, end))
            \/ log' = log /\ n.unlogged
  BY <1>2, LogFiringBecomes
<1>4. /\ n.event = s.event /\ n.env = s.env /\ n.skipped = s.skipped /\ n.blind = s.blind
      /\ n.db = s.db /\ n.rows = s.rows /\ n.tables = s.tables /\ n.moved = s.moved
      /\ n.pc = IF s.pc \in Delivery THEN "print" ELSE "exit"
  BY <1>2, <1>3 DEF LogsAs, FiringType
<1>5. ~n.unlogged => end = "line"
  BY <1>1, <1>2, <1>3 DEF LogsAs, Placed
<1>6. Own(f) = {} /\ output[f] = Silence /\ Intent(n.event) # "none"
  BY <1>1, <1>4 DEF Good, ToldAs, Final
<1>7. /\ DueFrom(n) = DueFrom(s) /\ Searched(n, n.db) = Searched(s, s.db)
      /\ Answering(n, n.db) = Answering(s, s.db)
  BY <1>4, SameCall
<1>8. n.moved \/ SoundAs(n, Silence)
  <2>1. CASE s.pc \in Delivery
    <3>1. n.pc = "print" /\ s.pc \in Kept
      BY <1>4, <2>1 DEF Delivery, Kept
    <3>2. s.moved \/ /\ DueFrom(s) = {s.db}
                     /\ s.rows \subseteq Answering(s, s.db)
                     /\ s.tables \subseteq s.event.tables \intersect db[s.db].tables
      BY <3>1 DEF Good, SoundAs
    <3>3. QED
      BY <1>4, <1>7, <3>1, <3>2 DEF SoundAs
  <2>2. CASE s.pc \notin Delivery
    <3>1. n.pc = "exit"
      BY <1>4, <2>2
    <3>2. QED
      BY <3>1 DEF SoundAs, Kept
  <2>3. QED
    BY <2>1, <2>2
<1>9. n.pc \in {"print", "exit"} /\ (n.pc = "print" <=> s.pc \in Delivery)
  BY <1>4
<1>10. ToldAs(f, n, Silence)'
  <2>1. CASE log' = log /\ n.unlogged
    <3>1. Own(f)' = {}
      BY <1>6, <2>1 DEF Own
    <3>2. QED
      BY <1>6, <1>9, <2>1, <3>1 DEF ToldAs, Early, Final
  <2>2. CASE log' = Append(log, LineOf(f, s, end))
    <3>1. PICK l : l = LineOf(f, s, end)
      OBVIOUS
    <3>2. /\ l.by = f /\ l.db = s.db /\ l.end = end
          /\ l.outcome \in Delivery <=> s.pc \in Delivery
      BY <3>1 DEF LineOf, Outcome, Delivery
    <3>3. PICK i : Own(f)' = {i} /\ log'[i] = l
      BY <1>6, <2>2, <3>1, <3>2, LinesAfter
    <3>4. Delivered(i)' <=> n.pc = "print"
      BY <1>9, <3>2, <3>3 DEF Delivered
    <3>5. QED
      BY <1>4, <1>5, <1>6, <1>9, <3>2, <3>3, <3>4 DEF ToldAs, Early, Final
  <2>3. QED
    BY <1>3, <2>1, <2>2
<1>11. n.moved \/ SoundAs(n, Silence)'
  <2>1. PICK o : o = Silence
    OBVIOUS
  <2>2. QED
    BY <1>1, <1>8, <2>1, SameIndex
<1>12. firing'[f] = n /\ output'[f] = Silence
  BY <1>1, <1>3, <1>6, BecomesThis
<1>13. QED
  BY <1>10, <1>11, <1>12 DEF Good

LEMMA GoodEmitAnswer ==
    ASSUME HookTyped, NEW f \in Firing, Good(f), EmitAnswer(f)
    PROVE  Good(f)'
<1> DEFINE s == firing[f]
<1>1. s.pc = "print" /\ UNCHANGED <<db, log>>
  BY DEF EmitAnswer, Lives
<1>2. PICK n : n = [s EXCEPT !.pc = "exit"]
  OBVIOUS
<1>3. PICK o : o = [db |-> s.db, hits |-> s.rows, tables |-> s.tables]
  OBVIOUS
<1>4. firing'[f] = n /\ output'[f] = o
  BY <1>2, <1>3, BecomesThis DEF EmitAnswer, HookTyped
<1>5. s \in FiringType /\ s.db \in Db
  BY <1>1 DEF HookTyped, Placed, Kept
<1>6. /\ n.event = s.event /\ n.env = s.env /\ n.skipped = s.skipped /\ n.blind = s.blind
      /\ n.db = s.db /\ n.moved = s.moved /\ n.pc = "exit" /\ n.unlogged = s.unlogged
  BY <1>2, <1>5 DEF FiringType
<1>7. o.db = s.db /\ o.hits = s.rows /\ o.tables = s.tables /\ o # Silence
  <2>1. s.db # NoDb
    BY <1>5, HookAssumption
  <2>2. QED
    BY <1>3, <2>1 DEF Silence
<1>8. DueFrom(n) = DueFrom(s) /\ \A d : Answering(n, d) = Answering(s, d)
  BY <1>6, SameCall
<1>9. s.moved \/ /\ DueFrom(s) = {s.db}
                 /\ s.rows \subseteq Answering(s, s.db)
                 /\ s.tables \subseteq s.event.tables \intersect db[s.db].tables
  BY <1>1 DEF Good, SoundAs, Kept
<1>10. n.moved \/ SoundAs(n, o)
  BY <1>6, <1>7, <1>8, <1>9 DEF SoundAs, Kept
<1>11. ToldAs(f, n, o)
  BY <1>1, <1>6, <1>7 DEF Good, ToldAs, Early, Final
<1>12. QED
  BY <1>1, <1>4, <1>10, <1>11, SameIndex, SameLog DEF Good

LEMMA GoodGiveUp ==
    ASSUME HookTyped, NEW f \in Firing, Good(f), GiveUp(f)
    PROVE  Good(f)'
<1> DEFINE s == firing[f]
<1>1. s.pc \notin {"off", "exit"} /\ UNCHANGED <<db, log, output>>
  BY DEF GiveUp
<1>2. PICK n : n = [s EXCEPT !.pc = "killed"]
  OBVIOUS
<1>3. Becomes(f, n)
  BY <1>2 DEF GiveUp
<1>4. n.event = s.event /\ n.pc = "killed"
  BY <1>2 DEF HookTyped, FiringType
<1>5. SoundAs(n, output[f])
  BY <1>4 DEF SoundAs, Kept
<1>6. ToldAs(f, n, output[f])
  BY <1>1, <1>4 DEF Good, ToldAs, Early, Final
<1>7. QED
  BY <1>1, <1>3, <1>5, <1>6, Quietly

LEMMA GoodPass ==
    ASSUME HookTyped, NEW f \in Firing, Good(f), NEW d \in Db,
           IndexDump(d) \/ \E r \in Repository : ListRepo(d, r) \/ IndexFiles(d, r)
    PROVE  Good(f)'
<1> DEFINE s == firing[f]
<1>1. firing'[f] = [s EXCEPT !.moved = s.pc # "off"] /\ UNCHANGED <<log, output>>
  BY PassTyped
<1>2. PICK m \in BOOLEAN : m = (s.pc # "off")
  OBVIOUS
<1>3. PICK n : n = [s EXCEPT !.moved = m]
  OBVIOUS
<1>4. s \in FiringType
  BY DEF HookTyped
<1>5. /\ firing'[f] = n /\ n.pc = s.pc /\ n.event = s.event /\ n.db = s.db /\ n.moved = m
      /\ n.unlogged = s.unlogged
  BY <1>1, <1>2, <1>3, <1>4 DEF FiringType
<1>6. PICK o : o = output[f] /\ o = output'[f]
  BY <1>1
<1>7. ToldAs(f, n, o)
  BY <1>5, <1>6 DEF Good, ToldAs
<1>8. n.moved \/ SoundAs(n, o)'
  BY <1>2, <1>5 DEF SoundAs, Kept
<1>9. QED
  BY <1>1, <1>5, <1>6, <1>7, <1>8, SameLog DEF Good

HookInv == HookTyped /\ \A f \in Firing : Good(f)

LEMMA HookInvInit == HookInit => HookInv
<1> SUFFICES ASSUME HookInit PROVE HookInv
  OBVIOUS
<1>1. ASSUME NEW f \in Firing PROVE Good(f)
  <2>1. firing[f] = Off /\ output[f] = Silence /\ Own(f) = {}
    BY <1>1 DEF HookInit, Own
  <2>2. Off.pc = "off"
    BY DEF Off
  <2>3. SoundAs(Off, Silence) /\ ToldAs(f, Off, Silence)
    BY <2>1, <2>2 DEF SoundAs, ToldAs, Kept
  <2>4. QED
    BY <2>1, <2>3 DEF Good
<1>2. QED
  BY <1>1, HookTypedInit DEF HookInv

LEMMA HookInvStep == HookInv /\ [HookNext]_hookVars => HookInv'
<1> SUFFICES ASSUME HookInv, [HookNext]_hookVars PROVE HookInv'
  OBVIOUS
<1>0. HookTyped /\ HookTyped' /\ \A f \in Firing : Good(f)
  BY HookTypedStep DEF HookInv
<1>1. ASSUME NEW f \in Firing,
             \/ \E e \in Event : TakeUp(f, e)
             \/ OpenNamed(f) \/ TakeDb(f) \/ NextPlace(f) \/ FindRoot(f) \/ RunQuery(f)
             \/ QueryFails(f) \/ Lookup(f) \/ LogFiring(f) \/ EmitAnswer(f) \/ GiveUp(f),
             NEW g \in Firing
      PROVE  Good(g)'
  <2>0. firing[f] \in FiringType
    BY <1>0 DEF HookTyped
  <2>1. CASE g = f
    BY <1>0, <1>1, <2>1, GoodTakeUp, GoodOpenNamed, GoodTakeDb, GoodNextPlace, GoodFindRoot,
       GoodRunQuery, GoodQueryFails, GoodLookup, GoodLogFiring, GoodEmitAnswer, GoodGiveUp
  <2>2. CASE g # f
    <3>1. \E n : Becomes(f, n)
      <4>1. CASE \E e \in Event : TakeUp(f, e)
        BY <4>1 DEF TakeUp
      <4>2. CASE OpenNamed(f) \/ TakeDb(f) \/ NextPlace(f) \/ FindRoot(f)
        BY <4>2 DEF OpenNamed, TakeDb, NextPlace, FindRoot
      <4>3. CASE RunQuery(f) \/ QueryFails(f) \/ Lookup(f) \/ EmitAnswer(f) \/ GiveUp(f)
        BY <4>3 DEF RunQuery, QueryFails, Lookup, EmitAnswer, GiveUp
      <4>4. CASE LogFiring(f)
        BY <2>0, <4>4, LogFiringBecomes
      <4>5. QED
        BY <1>1, <4>1, <4>2, <4>3, <4>4
    <3>2. firing'[g] = firing[g]
      BY <1>0, <2>2, <3>1, BecomesThis
    <3>3. UNCHANGED db
      <4>1. CASE (\E e \in Event : TakeUp(f, e)) \/ OpenNamed(f) \/ TakeDb(f) \/ NextPlace(f)
        BY <4>1 DEF TakeUp, OpenNamed, TakeDb, NextPlace, Lives
      <4>2. CASE FindRoot(f) \/ RunQuery(f) \/ QueryFails(f) \/ Lookup(f) \/ LogFiring(f)
        BY <4>2 DEF FindRoot, RunQuery, QueryFails, Lookup, LogFiring, Lives
      <4>3. CASE EmitAnswer(f) \/ GiveUp(f)
        BY <4>3 DEF EmitAnswer, GiveUp, Lives
      <4>4. QED
        BY <1>1, <4>1, <4>2, <4>3
    <3>4. output'[g] = output[g]
      BY <1>0, <1>1, <2>2
         DEF TakeUp, OpenNamed, TakeDb, NextPlace, FindRoot, RunQuery, QueryFails, Lookup,
             LogFiring, EmitAnswer, GiveUp, HookTyped
    <3>5. log' = log \/ \E l : log' = Append(log, l) /\ l.by # g
      <4>1. CASE LogFiring(f)
        <5>1. PICK end \in {"line"} \union Broken :
                 log' = log \/ log' = Append(log, LineOf(f, firing[f], end))
          BY <2>0, <4>1, LogFiringBecomes
        <5>2. LineOf(f, firing[f], end).by = f
          BY DEF LineOf
        <5>3. QED
          BY <2>2, <5>1, <5>2
      <4>2. CASE ~LogFiring(f)
        BY <1>1, <4>2 DEF TakeUp, OpenNamed, TakeDb, NextPlace, FindRoot, RunQuery, QueryFails,
                          Lookup, EmitAnswer, GiveUp
      <4>3. QED
        BY <4>1, <4>2
    <3>6. QED
      BY <1>0, <3>2, <3>3, <3>4, <3>5, OthersStand
  <2>3. QED
    BY <2>1, <2>2
<1>2. ASSUME NEW d \in Db, IndexDump(d) \/ \E r \in Repository : ListRepo(d, r) \/ IndexFiles(d, r),
             NEW g \in Firing
      PROVE  Good(g)'
  BY <1>0, <1>2, GoodPass
<1>3. ASSUME UNCHANGED hookVars, NEW g \in Firing PROVE Good(g)'
  BY <1>0, <1>3, OthersStand DEF hookVars
<1>4. QED
  BY <1>0, <1>1, <1>2, <1>3 DEF HookNext, HookInv

(* The answer a hook prints is from the database it was told to ask, or    *)
(* from the nearest that covers the directory and could be asked, of the   *)
(* caller's repository, unless that could not be read, and of its scope,   *)
(* whatever the tree, the databases, the failures and the other firings,   *)
(* when no pass wrote meanwhile (find_db, repo_root_for,                   *)
(* find_code_in_repo, answer_schema_or_exit).                              *)
THEOREM AnswersAreTheirs == HookSpec => []AnswerIsTheirs
<1>1. HookInv => AnswerIsTheirs
  BY DEF HookInv, Good, SoundAs, AnswerIsTheirs
<1>2. QED
  BY HookInvInit, HookInvStep, <1>1, PTL DEF HookSpec

(* A search is not left unanswered while the fetched rows hold all that is *)
(* searched and one of them answers it, and no table of the dump is left   *)
(* out whose lookup did not fail; no database is reported only when none   *)
(* that covers the directory could be asked (find_db, find_code_in_repo,   *)
(* run, answer_schema_or_exit).                                            *)
THEOREM HitsAreFound == HookSpec => []HitsFound
<1>1. HookInv => HitsFound
  BY DEF HookInv, Good, SoundAs, HitsFound, Kept
<1>2. QED
  BY HookInvInit, HookInvStep, <1>1, PTL DEF HookSpec

--------------------------------------------------------------------------------
(* The log                                                                 *)

LEMMA LogIsFinite ==
    ASSUME HookTyped
    PROVE  /\ DOMAIN log = 1 .. Len(log) /\ Len(log) \in Nat
           /\ \A i \in DOMAIN log : log[i] \in LineType
           /\ IsFiniteSet(DOMAIN log)
           /\ Lines \subseteq DOMAIN log /\ IsFiniteSet(Lines)
<1>1. log \in Seq(LineType)
  BY DEF HookTyped
<1>2. Len(log) \in Nat /\ DOMAIN log = 1 .. Len(log) /\ \A i \in 1 .. Len(log) : log[i] \in LineType
  BY <1>1, LenProperties, ElementOfSeq
<1>3. IsFiniteSet(1 .. Len(log))
  BY <1>2, FS_Interval
<1>4. Lines \subseteq DOMAIN log
  BY DEF Lines
<1>5. IsFiniteSet(Lines)
  BY <1>2, <1>3, <1>4, FS_Subset
<1>6. QED
  BY <1>2, <1>3, <1>4, <1>5

(* The lines of a firing are of what it appended.                          *)
LEMMA LinesAreOwn == ASSUME NEW f PROVE LinesOf(f) \subseteq Own(f) /\ LinesOf(f) \subseteq Lines
BY DEF LinesOf, Own, Lines

(* What is written whole is read, unless what is before it or a character  *)
(* cut in half spoils it.                                                  *)
LEMMA WholeIsRead ==
    ASSUME HookInv, NEW f \in Firing, firing[f].pc \in {"print", "exit"},
           Intent(firing[f].event) # "none", ~MayBeUntold(f)
    PROVE  LinesOf(f) # {}
<1>1. PICK i \in Own(f) : log[i].end = "line"
  BY DEF HookInv, Good, ToldAs, MayBeUntold
<1>2. i \in DOMAIN log /\ log[i].by = f
  BY <1>1 DEF Own
<1>3. IsText /\ (i > 1 => log[i - 1].end = "line")
  BY <1>2 DEF MayBeUntold
<1>4. i \in Lines
  BY <1>1, <1>2, <1>3 DEF Lines, IsLine
<1>5. QED
  BY <1>2, <1>4 DEF LinesOf

(* A delivery that is logged is printed, or about to be, or the firing was *)
(* killed.                                                                 *)
LEMMA DeliveryIsOf ==
    ASSUME HookInv, NEW i \in DOMAIN log, Delivered(i)
    PROVE  /\ log[i].by \in Firing /\ i \in Own(log[i].by)
           /\ \/ firing[log[i].by].pc \in {"print", "killed"}
              \/ output[log[i].by].db = log[i].db
<1>1. log[i].by \in Firing
  BY LogIsFinite DEF HookInv, LineType
<1>2. PICK f \in Firing : f = log[i].by
  BY <1>1
<1>3. i \in Own(f) /\ ToldAs(f, firing[f], output[f])
  BY <1>2 DEF Own, HookInv, Good
<1>4. firing[f].pc \in {"print", "exit", "killed"}
  <2>1. firing[f] \in FiringType /\ firing[f].pc \notin Early \union Final
    BY <1>3 DEF HookInv, HookTyped, ToldAs
  <2>2. QED
    BY <2>1 DEF FiringType
<1>5. firing[f].pc = "exit" => output[f].db = log[i].db
  BY <1>3 DEF ToldAs
<1>6. QED
  BY <1>1, <1>2, <1>3, <1>4, <1>5

(* deliveries_for counts the answers printed from a database whose lines   *)
(* can be read, and besides what was printed only what is being printed or *)
(* was killed before.                                                      *)
LEMMA DeliveriesCounted == ASSUME HookInv, NEW d \in Db PROVE CountsDeliveries(d)
<1> DEFINE D == {i \in Lines : log[i].outcome \in Delivery /\ log[i].db = d}
           By == {log[i].by : i \in D}
           printed == {f \in Firing : output[f].db = d}
           unsure == {f \in Firing : firing[f].pc \in {"print", "killed"}}
           sure == {f \in printed : ~MayBeUntold(f)}
           by == [i \in D |-> log[i].by]
<1>0. Lines \subseteq DOMAIN log
  BY LogIsFinite DEF HookInv
<1>1. IsFiniteSet(D)
  BY LogIsFinite, FS_Subset DEF HookInv
<1>2. By \subseteq printed \union unsure
  <2>1. ASSUME NEW i \in D PROVE log[i].by \in printed \union unsure
    BY <1>0, DeliveryIsOf DEF Delivered
  <2>2. QED
    BY <2>1
<1>3. sure \subseteq By
  <2>1. ASSUME NEW f \in sure PROVE \E i \in D : log[i].by = f
    <3>1. output[f] # Silence /\ f \in Firing /\ output[f].db = d /\ ~MayBeUntold(f)
      BY HookAssumption DEF Silence
    <3>2. /\ firing[f].pc = "exit" /\ Intent(firing[f].event) # "none"
          /\ \A i \in Own(f) : Delivered(i) /\ log[i].db = d
      BY <3>1 DEF HookInv, Good, ToldAs
    <3>3. PICK i : i \in LinesOf(f)
      BY <3>1, <3>2, WholeIsRead
    <3>4. QED
      BY <3>2, <3>3, LinesAreOwn DEF LinesOf, Delivered
  <2>2. QED
    BY <2>1
<1>4. by \in Bijection(D, By)
  <2>1. by \in [D -> By]
    OBVIOUS
  <2>2. ASSUME NEW i \in D, NEW j \in D, by[i] = by[j] PROVE i = j
    <3>1. PICK f \in Firing : f = log[i].by /\ i \in Own(f)
      BY <1>0, DeliveryIsOf DEF Delivered
    <3>2. j \in Own(f)
      BY <1>0, <2>2, <3>1 DEF Own
    <3>3. QED
      BY <3>1, <3>2 DEF HookInv, Good, ToldAs
  <2>3. \A b \in By : \E i \in D : by[i] = b
    OBVIOUS
  <2> HIDE DEF by, D, By
  <2>4. by \in Injection(D, By)
    BY <2>1, <2>2 DEF Injection, IsInjective
  <2>5. by \in Surjection(D, By)
    BY <2>1, <2>3 DEF Surjection
  <2>6. QED
    BY <2>4, <2>5 DEF Bijection
<1>5. ExistsBijection(D, By)
  BY <1>4 DEF ExistsBijection
<1>a. sure \subseteq printed
  OBVIOUS
<1>b. CountsDeliveries(d) <=>
         Deliveries(d) \in Cardinality(sure) .. Cardinality(printed) + Cardinality(unsure)
  BY DEF CountsDeliveries
<1>c. Deliveries(d) = Cardinality(D)
  BY DEF Deliveries
<1>7. IsFiniteSet(printed) /\ IsFiniteSet(unsure)
  BY HookAssumption, FS_Subset
<1> HIDE DEF D, By, printed, unsure, sure, by
<1>6. IsFiniteSet(By) /\ Cardinality(By) = Cardinality(D)
  BY <1>1, <1>5, FS_Bijection
<1>8. IsFiniteSet(sure) /\ Cardinality(sure) <= Cardinality(By)
  BY <1>3, <1>6, FS_Subset
<1>9. IsFiniteSet(printed \union unsure) /\ Cardinality(By) <= Cardinality(printed \union unsure)
  BY <1>2, <1>7, FS_Subset, FS_Union
<1>10. Cardinality(printed \union unsure) <= Cardinality(printed) + Cardinality(unsure)
  <2>1. IsFiniteSet(printed \intersect unsure)
    BY <1>7, FS_Intersection
  <2>2. /\ Cardinality(printed \intersect unsure) \in Nat
        /\ Cardinality(printed) \in Nat /\ Cardinality(unsure) \in Nat
    BY <1>7, <2>1, FS_CardinalityType
  <2>3. Cardinality(printed \union unsure) =
            Cardinality(printed) + Cardinality(unsure) - Cardinality(printed \intersect unsure)
    BY <1>7, FS_Union
  <2>4. QED
    BY <2>2, <2>3
<1>11. /\ Cardinality(printed) \in Nat /\ Cardinality(unsure) \in Nat /\ Cardinality(By) \in Nat
       /\ Cardinality(printed \union unsure) \in Nat /\ Cardinality(sure) \in Nat
  BY <1>6, <1>7, <1>8, <1>9, FS_CardinalityType
<1>12. Cardinality(By) \in Cardinality(sure) .. Cardinality(printed) + Cardinality(unsure)
  BY <1>8, <1>9, <1>10, <1>11
<1>13. QED
  BY <1>6, <1>12, <1>b, <1>c

(* The report knows every outcome that is logged.                          *)
LEMMA NoOtherOutcome == ASSUME HookInv PROVE Stats.other = 0
<1> DEFINE A == {i \in Lines : log[i].outcome \in SearchOutcomes}
           B == {i \in Lines : log[i].outcome \in SchemaOutcomes}
<1>1. A \union B = Lines
  BY LogIsFinite DEF HookInv, LineType
<1>2. A \intersect B = {}
  BY DEF SearchOutcomes, SchemaOutcomes
<1>3. IsFiniteSet(A) /\ IsFiniteSet(B)
  BY LogIsFinite, FS_Subset DEF HookInv
<1>4. CountOf(SearchOutcomes) = Cardinality(A) /\ CountOf(SchemaOutcomes) = Cardinality(B)
  BY DEF CountOf
<1> HIDE DEF A, B
<1>5. Cardinality(A) \in Nat /\ Cardinality(B) \in Nat
  BY <1>3, FS_CardinalityType
<1>6. Cardinality(A \union B) = Cardinality(A) + Cardinality(B) - Cardinality(A \intersect B)
  BY <1>3, FS_Union
<1>7. Cardinality(Lines) = Cardinality(A) + Cardinality(B)
  <2>1. Cardinality(A \intersect B) = 0
    BY <1>2, FS_EmptySet
  <2>2. QED
    BY <1>1, <1>5, <1>6, <2>1
<1>8. Cardinality(Lines) - (Cardinality(A) + Cardinality(B)) = 0
  BY <1>5, <1>7
<1>9. QED
  BY <1>4, <1>8 DEF Stats

(* The log tells of a call the hook took up at most once, and with what    *)
(* became of it, and does tell unless its line was not written whole,      *)
(* joins one that was not, or a character of the file is cut; its          *)
(* deliveries are what was printed from a database but for those, and the  *)
(* report leaves out no outcome, however many firings append to it         *)
(* (log_firing, parse_log, deliveries_for, render_stats).                  *)
THEOREM FiringsAreTold == HookSpec => []EveryFiringTold
<1>1. ASSUME HookInv, NEW f \in Firing PROVE TellsOnce(f)
  <2>1. PICK s, o : s = firing[f] /\ o = output[f]
    OBVIOUS
  <2>2. ToldAs(f, s, o)
    BY <1>1, <2>1 DEF HookInv, Good
  <2>3. Cardinality(LinesOf(f)) <= 1
    <3>1. CASE LinesOf(f) = {}
      BY <3>1, FS_EmptySet
    <3>2. CASE LinesOf(f) # {}
      <4>1. PICK i : LinesOf(f) = {i}
        BY <2>2, <3>2, LinesAreOwn DEF ToldAs
      <4>2. Cardinality({i}) = 1
        BY FS_Singleton, Zenon
      <4>3. QED
        BY <4>1, <4>2
    <3>3. QED
      BY <3>1, <3>2
  <2>4. Intent(s.event) = "none" => LinesOf(f) = {}
    BY <2>2, LinesAreOwn DEF ToldAs
  <2>5. s.pc = "exit" /\ Intent(s.event) # "none" /\ ~MayBeUntold(f) => LinesOf(f) # {}
    BY <1>1, <2>1, WholeIsRead
  <2>6. s.pc = "exit" /\ o = Silence => \A i \in LinesOf(f) : log[i].outcome \notin Delivery
    BY <2>2, LinesAreOwn DEF ToldAs, Delivered
  <2>7. o # Silence =>
           /\ s.pc = "exit" /\ Intent(s.event) # "none"
           /\ \A i \in LinesOf(f) : log[i].outcome \in Delivery /\ log[i].db = o.db
    BY <2>2, LinesAreOwn DEF ToldAs, Delivered
  <2>8. QED
    BY <2>1, <2>3, <2>4, <2>5, <2>6, <2>7 DEF TellsOnce
<1>2. HookInv => EveryFiringTold
  BY <1>1, DeliveriesCounted, NoOtherOutcome DEF EveryFiringTold
<1>3. QED
  BY HookInvInit, HookInvStep, <1>2, PTL DEF HookSpec

--------------------------------------------------------------------------------
(* The query tools                                                         *)

LEMMA MinOfTwo ==
    ASSUME NEW a \in Int, NEW b \in Int
    PROVE  Min({a, b}) = IF a <= b THEN a ELSE b
<1> DEFINE m == IF a <= b THEN a ELSE b
<1>1. m \in {a, b} /\ \A y \in {a, b} : m <= y
  OBVIOUS
<1>2. \A x \in {a, b} : (\A y \in {a, b} : x <= y) => x = m
  OBVIOUS
<1>3. QED
  BY <1>1, <1>2 DEF Min

LEMMA MaxOfTwo ==
    ASSUME NEW a \in Int, NEW b \in Int
    PROVE  Max({a, b}) = IF a >= b THEN a ELSE b
<1> DEFINE m == IF a >= b THEN a ELSE b
<1>1. m \in {a, b} /\ \A y \in {a, b} : m >= y
  OBVIOUS
<1>2. \A x \in {a, b} : (\A y \in {a, b} : x >= y) => x = m
  OBVIOUS
<1>3. QED
  BY <1>1, <1>2 DEF Max

LEMMA LimitIsPositive ==
    ASSUME NEW l \in Limits PROVE Limit(l) \in Nat \ {0}
<1>1. CASE l = Nothing
  BY <1>1, QueriesAssumption DEF Limit
<1>2. CASE l # Nothing
  <2>1. l \in Int /\ MaxLimit \in Nat \ {0}
    BY <1>2, QueriesAssumption
  <2>2. Min({l, MaxLimit}) \in Int
    BY <2>1, MinOfTwo
  <2>3. Max({1, Min({l, MaxLimit})}) \in Nat \ {0}
    BY <2>2, MaxOfTwo
  <2>4. QED
    BY <1>2, <2>3 DEF Limit
<1>3. QED
  BY <1>1, <1>2

LEMMA FirstOf ==
    ASSUME NEW S, NEW s \in Seq(S), NEW n \in Nat
    PROVE  /\ First(s, n) \in Seq(S)
           /\ Len(First(s, n)) = IF n <= Len(s) THEN n ELSE Len(s)
           /\ Len(First(s, n)) \in Nat /\ DOMAIN First(s, n) = 1 .. Len(First(s, n))
           /\ \A i \in 1 .. Len(First(s, n)) : i \in 1 .. Len(s) /\ First(s, n)[i] = s[i]
<1> DEFINE m == Min({n, Len(s)})
<1>1. Len(s) \in Nat
  BY LenProperties
<1>2. m = IF n <= Len(s) THEN n ELSE Len(s)
  BY <1>1, MinOfTwo
<1>3. m \in Nat /\ m <= Len(s)
  BY <1>1, <1>2
<1> HIDE DEF m
<1>4. \A i \in 1 .. m : s[i] \in S
  BY <1>1, <1>3, ElementOfSeq
<1>5. /\ SubSeq(s, 1, m) \in Seq(S)
      /\ Len(SubSeq(s, 1, m)) = IF 1 <= m THEN m - 1 + 1 ELSE 0
      /\ \A i \in 1 .. m - 1 + 1 : SubSeq(s, 1, m)[i] = s[1 + i - 1]
  BY <1>3, <1>4, SubSeqProperties
<1>6. First(s, n) = SubSeq(s, 1, m)
  BY DEF First, m
<1>7. First(s, n) \in Seq(S) /\ Len(First(s, n)) = m
  BY <1>3, <1>5, <1>6
<1>8. DOMAIN First(s, n) = 1 .. m
  BY <1>7, LenProperties
<1>9. \A i \in 1 .. m : i \in 1 .. Len(s) /\ First(s, n)[i] = s[i]
  BY <1>1, <1>3, <1>5, <1>6
<1>10. QED
  BY <1>2, <1>3, <1>7, <1>8, <1>9

(* A strict total order                                                    *)
Orders(S, ahead) ==
    /\ \A r \in S : <<r, r>> \notin ahead
    /\ \A r, s \in S : r # s => <<r, s>> \in ahead \/ <<s, r>> \in ahead
    /\ \A r, s, t \in S : <<r, s>> \in ahead /\ <<s, t>> \in ahead => <<r, t>> \in ahead

(* InOrder lists the members of a finite set, each once and in the order.  *)
LEMMA InOrderLists ==
    ASSUME NEW S, IsFiniteSet(S), NEW ahead, Orders(S, ahead)
    PROVE  LET q == InOrder(S, ahead)
               n == Cardinality(S)
           IN /\ n \in Nat /\ q \in Seq(S) /\ Len(q) = n /\ DOMAIN q = 1 .. n
              /\ \A r \in S : \E i \in 1 .. n : q[i] = r
              /\ \A i \in 1 .. n : q[i] \in S
              /\ \A i, j \in 1 .. n : i < j => <<q[i], q[j]>> \in ahead
<1> DEFINE n == Cardinality(S)
           Before(r) == {s \in S : <<s, r>> \in ahead}
           rank == [r \in S |-> Cardinality(Before(r))]
           q == InOrder(S, ahead)
<1>1. n \in Nat
  BY FS_CardinalityType
<1>2. ASSUME NEW r \in S
      PROVE  IsFiniteSet(Before(r)) /\ rank[r] \in Nat /\ rank[r] < n
  <2>1. Before(r) \in SUBSET (S \ {r})
    BY DEF Orders
  <2>2. IsFiniteSet(S \ {r}) /\ Cardinality(S \ {r}) = n - 1
    BY FS_RemoveElement
  <2> DEFINE B == Before(r)
  <2>3. rank[r] = Cardinality(B)
    OBVIOUS
  <2>4. B \in SUBSET (S \ {r})
    BY <2>1
  <2> HIDE DEF B, rank, n
  <2>5. IsFiniteSet(B) /\ Cardinality(B) <= Cardinality(S \ {r})
    BY <2>2, <2>4, FS_Subset
  <2>6. Cardinality(B) \in Nat
    BY <2>5, FS_CardinalityType
  <2>7. Cardinality(B) < n
    BY <1>1, <2>2, <2>5, <2>6
  <2>8. IsFiniteSet(B) /\ rank[r] \in Nat /\ rank[r] < n
    BY <2>3, <2>5, <2>6, <2>7
  <2>9. QED
    BY <2>8 DEF B
<1>3. ASSUME NEW r \in S, NEW s \in S, <<r, s>> \in ahead
      PROVE  rank[r] < rank[s]
  <2> DEFINE B == Before(r)
             C == Before(s)
  <2>1. r \notin B /\ B \union {r} \in SUBSET C
    BY <1>3 DEF Orders
  <2>2. IsFiniteSet(B) /\ IsFiniteSet(C) /\ rank[r] = Cardinality(B) /\ rank[s] = Cardinality(C)
    BY <1>2
  <2> HIDE DEF B, C, rank
  <2>3. Cardinality(B \union {r}) = Cardinality(B) + 1
    BY <2>1, <2>2, FS_AddElement
  <2>4. Cardinality(B \union {r}) <= Cardinality(C)
    BY <2>1, <2>2, FS_Subset
  <2>5. Cardinality(B) \in Nat /\ Cardinality(C) \in Nat
    BY <2>2, FS_CardinalityType
  <2>6. QED
    BY <2>2, <2>3, <2>4, <2>5
<1>4. \A r, s \in S : rank[r] = rank[s] => r = s
  <2> SUFFICES ASSUME NEW r \in S, NEW s \in S, rank[r] = rank[s], r # s PROVE FALSE
    OBVIOUS
  <2>1. rank[r] \in Nat /\ rank[s] \in Nat
    BY <1>2
  <2>2. <<r, s>> \in ahead \/ <<s, r>> \in ahead
    BY DEF Orders
  <2> HIDE DEF rank
  <2>3. rank[r] < rank[s] \/ rank[s] < rank[r]
    BY <1>3, <2>2
  <2>4. QED
    BY <2>1, <2>3
<1>5. \A i \in 1 .. n : \E r \in S : rank[r] = i - 1
  <2>1. DOMAIN rank = S /\ rank = [r \in S |-> rank[r]]
    OBVIOUS
  <2> HIDE DEF rank, n
  <2>2. rank \in [S -> 0 .. n - 1]
    <3>1. \A a, b \in Nat : a < b => a \in 0 .. b - 1
      OBVIOUS
    <3>2. ASSUME NEW r \in S PROVE rank[r] \in 0 .. n - 1
      <4>1. rank[r] \in Nat /\ rank[r] < n
        BY <1>2
      <4>2. QED
        BY <1>1, <3>1, <4>1
    <3>3. QED
      BY <2>1, <3>2
  <2>3. rank \in Injection(S, 0 .. n - 1)
    BY <1>4, <2>1, <2>2 DEF Injection, IsInjective
  <2>4. IsFiniteSet(0 .. n - 1) /\ Cardinality(0 .. n - 1) = n
    <3>1. 0 \in Int /\ n - 1 \in Int
      BY <1>1
    <3>2. IsFiniteSet(0 .. n - 1) /\ Cardinality(0 .. n - 1) = IF 0 > n - 1 THEN 0 ELSE n - 1 - 0 + 1
      BY <3>1, FS_Interval
    <3>3. QED
      BY <1>1, <3>2
  <2>5. rank \in Surjection(S, 0 .. n - 1)
    <3>1. Cardinality(S) = Cardinality(0 .. n - 1)
      BY <2>4 DEF n
    <3>2. QED
      BY <2>3, <2>4, <3>1, FS_Injection
  <2>6. \A k \in 0 .. n - 1 : \E r \in S : rank[r] = k
    BY <2>5 DEF Surjection
  <2>7. QED
    BY <1>1, <2>6
<1>6. ASSUME NEW i \in 1 .. n PROVE q[i] \in S /\ rank[q[i]] = i - 1
  <2>1. q[i] = CHOOSE r \in S : Cardinality(Before(r)) = i - 1
    BY DEF InOrder
  <2>2. \E r \in S : Cardinality(Before(r)) = i - 1
    BY <1>5
  <2>3. q[i] \in S /\ Cardinality(Before(q[i])) = i - 1
    BY <2>1, <2>2
  <2>4. QED
    BY <2>3
<1>7. DOMAIN q = 1 .. n
  BY DEF InOrder
<1>8. q \in [1 .. n -> S]
  <2> DEFINE At(i) == CHOOSE r \in S : Cardinality(Before(r)) = i - 1
  <2>1. q = [i \in 1 .. n |-> At(i)]
    BY DEF InOrder
  <2> HIDE DEF q, n, At
  <2>2. \A i \in 1 .. n : At(i) \in S
    BY <1>6, <2>1
  <2>3. QED
    BY <2>1, <2>2
<1> HIDE DEF q, n, rank
<1>9. q \in Seq(S) /\ Len(q) = n
  <2>1. q \in Seq(S)
    BY <1>1, <1>8
  <2>2. QED
    BY <1>1, <1>8, <2>1, LenProperties
<1>10. ASSUME NEW r \in S PROVE \E i \in 1 .. n : q[i] = r
  <2>1. rank[r] \in Nat /\ rank[r] < n
    BY <1>2
  <2>2. PICK k \in 1 .. n : k - 1 = rank[r]
    BY <1>1, <2>1
  <2>3. q[k] \in S /\ rank[q[k]] = rank[r]
    BY <1>6, <2>2
  <2>4. QED
    BY <1>4, <2>2, <2>3
<1>11. ASSUME NEW i \in 1 .. n, NEW j \in 1 .. n, i < j PROVE <<q[i], q[j]>> \in ahead
  <2>1. /\ q[i] \in S /\ q[j] \in S
        /\ rank[q[i]] = i - 1 /\ rank[q[j]] = j - 1
    BY <1>6
  <2>2. ~(rank[q[j]] < rank[q[i]]) /\ q[i] # q[j]
    BY <1>11, <2>1
  <2>3. <<q[j], q[i]>> \notin ahead
    BY <1>3, <2>1, <2>2
  <2>4. QED
    BY <2>1, <2>2, <2>3 DEF Orders
<1>12. QED
  BY <1>1, <1>6, <1>7, <1>9, <1>10, <1>11 DEF q, n

--------------------------------------------------------------------------------
(* The rows of a statement                                                 *)

LEMMA RowsAreFinite ==
    ASSUME NEW S \in SUBSET Row
    PROVE  IsFiniteSet(S) /\ Cardinality(S) \in Nat /\ S \subseteq Nat
<1>1. IsFiniteSet(Row) /\ Row \subseteq Nat
  BY QueriesAssumption
<1>2. IsFiniteSet(S)
  BY <1>1, FS_Subset
<1>3. QED
  BY <1>1, <1>2, FS_CardinalityType

LEMMA RowsAreOrdered ==
    ASSUME NEW S \in SUBSET Row
    PROVE  Orders(S, ByRank) /\ Orders(S, ByTime)
<1>1. \A r \in S : r \in Row /\ r \in Nat /\ Time[r] \in Int
  BY QueriesAssumption
<1>2. \A r, s \in S : <<r, s>> \in ByRank <=> r < s
  BY <1>1 DEF ByRank
<1>3. \A r, s \in S : <<r, s>> \in ByTime <=>
          Time[r] > Time[s] \/ (Time[r] = Time[s] /\ r < s)
  BY <1>1 DEF ByTime
<1>4. Orders(S, ByRank)
  BY <1>1, <1>2 DEF Orders
<1>5. Orders(S, ByTime)
  <2>1. \A r \in S : <<r, r>> \notin ByTime
    BY <1>1, <1>3
  <2>2. \A r, s \in S : r # s => <<r, s>> \in ByTime \/ <<s, r>> \in ByTime
    BY <1>1, <1>3
  <2>3. \A r, s, t \in S :
            <<r, s>> \in ByTime /\ <<s, t>> \in ByTime => <<r, t>> \in ByTime
    BY <1>1, <1>3
  <2>4. QED
    BY <2>1, <2>2, <2>3 DEF Orders
<1>6. QED
  BY <1>4, <1>5

(* The first rows of an order are all, or n of those ahead of every other. *)
LEMMA FirstInOrder ==
    ASSUME NEW S \in SUBSET Row, NEW ahead, Orders(S, ahead), NEW n \in Nat
    PROVE  LET s == First(InOrder(S, ahead), n)
           IN /\ s \in Seq(S)
              /\ Len(s) = (IF n <= Cardinality(S) THEN n ELSE Cardinality(S))
              /\ \A i, j \in 1 .. Len(s) : i < j => <<s[i], s[j]>> \in ahead
              /\ \A r \in S :
                     \/ \E i \in 1 .. Len(s) : s[i] = r
                     \/ Len(s) = n /\ \A i \in 1 .. n : <<s[i], r>> \in ahead
<1> DEFINE q == InOrder(S, ahead)
           s == First(q, n)
           c == Cardinality(S)
<1>1. /\ c \in Nat /\ q \in Seq(S) /\ Len(q) = c
      /\ \A r \in S : \E i \in 1 .. c : q[i] = r
      /\ \A i, j \in 1 .. c : i < j => <<q[i], q[j]>> \in ahead
  BY RowsAreFinite, InOrderLists
<1>2. /\ s \in Seq(S) /\ Len(s) \in Nat
      /\ Len(s) = (IF n <= c THEN n ELSE c)
      /\ \A i \in 1 .. Len(s) : i \in 1 .. c /\ s[i] = q[i]
  BY <1>1, FirstOf
<1> HIDE DEF q, s, c
<1>3. \A i, j \in 1 .. Len(s) : i < j => <<s[i], s[j]>> \in ahead
  BY <1>1, <1>2
<1>4. ASSUME NEW r \in S
      PROVE  \/ \E i \in 1 .. Len(s) : s[i] = r
             \/ Len(s) = n /\ \A i \in 1 .. n : <<s[i], r>> \in ahead
  <2>1. PICK k \in 1 .. c : q[k] = r
    BY <1>1
  <2>2. CASE k <= Len(s)
    BY <1>1, <1>2, <2>1, <2>2
  <2>3. CASE ~(k <= Len(s))
    <3>1. Len(s) = n
      BY <1>1, <1>2, <2>3
    <3>2. \A i \in 1 .. n : i \in 1 .. c /\ i < k /\ s[i] = q[i]
      BY <1>1, <1>2, <2>3, <3>1
    <3>3. QED
      BY <1>1, <2>1, <3>1, <3>2
  <2>4. QED
    BY <2>2, <2>3
<1>5. QED
  BY <1>2, <1>3, <1>4 DEF s, q, c

LEMMA FirstOfFirst ==
    ASSUME NEW S, NEW s \in Seq(S), NEW l \in Nat, NEW m \in Nat, l <= m
    PROVE  First(First(s, m), l) = First(s, l)
<1> DEFINE t == First(s, m)
           u == First(t, l)
           v == First(s, l)
<1>1. /\ t \in Seq(S) /\ Len(t) \in Nat /\ Len(t) = (IF m <= Len(s) THEN m ELSE Len(s))
      /\ \A i \in 1 .. Len(t) : i \in 1 .. Len(s) /\ t[i] = s[i]
  BY FirstOf
<1>2. /\ v \in Seq(S) /\ Len(v) \in Nat /\ Len(v) = (IF l <= Len(s) THEN l ELSE Len(s))
      /\ \A i \in 1 .. Len(v) : i \in 1 .. Len(s) /\ v[i] = s[i]
  BY FirstOf
<1>3. /\ u \in Seq(S) /\ Len(u) \in Nat /\ Len(u) = (IF l <= Len(t) THEN l ELSE Len(t))
      /\ \A i \in 1 .. Len(u) : i \in 1 .. Len(t) /\ u[i] = t[i]
  BY <1>1, FirstOf
<1>4. Len(s) \in Nat
  BY LenProperties
<1> HIDE DEF t, u, v
<1>5. Len(u) = Len(v)
  BY <1>1, <1>2, <1>3, <1>4
<1>6. \A i \in 1 .. Len(u) : u[i] = v[i]
  BY <1>1, <1>2, <1>3, <1>5
<1>7. u = v
  BY <1>2, <1>3, <1>5, <1>6, SeqEqual
<1>8. QED
  BY <1>7 DEF t, u, v

--------------------------------------------------------------------------------
(* Sessions: one edit stands for each                                      *)

LatestOf(rows) == {r \in rows : \A s \in rows : Session[s] = Session[r] => ~Newer(s, r)}

LEMMA ASessionHasALatest ==
    ASSUME NEW rows \in SUBSET Row, NEW r \in rows
    PROVE  \E s \in LatestOf(rows) : Session[s] = Session[r] /\ ~Newer(r, s)
<1> DEFINE S == {s \in rows : Session[s] = Session[r]}
           ahead == {p \in Row \X Row : Newer(p[1], p[2])}
           q == InOrder(S, ahead)
<1>1. S \in SUBSET Row /\ IsFiniteSet(S) /\ r \in S /\ S # {}
  BY RowsAreFinite, FS_Subset
<1>2. \A s \in S : s \in Row /\ s \in Nat /\ Time[s] \in Int
  BY <1>1, QueriesAssumption
<1>3. \A s, t \in S : <<s, t>> \in ahead <=>
          Time[s] > Time[t] \/ (Time[s] = Time[t] /\ s > t)
  BY <1>2 DEF Newer
<1> HIDE DEF ahead
<1>4. Orders(S, ahead)
  <2> HIDE DEF S
  <2>1. \A s \in S : <<s, s>> \notin ahead
    BY <1>2, <1>3
  <2>2. \A s, t \in S : s # t => <<s, t>> \in ahead \/ <<t, s>> \in ahead
    BY <1>2, <1>3
  <2>3. \A s, t, u \in S : <<s, t>> \in ahead /\ <<t, u>> \in ahead => <<s, u>> \in ahead
    BY <1>2, <1>3
  <2>4. QED
    BY <2>1, <2>2, <2>3 DEF Orders
<1>5. /\ Cardinality(S) \in Nat
      /\ \A t \in S : \E i \in 1 .. Cardinality(S) : q[i] = t
      /\ \A i \in 1 .. Cardinality(S) : q[i] \in S
      /\ \A i, j \in 1 .. Cardinality(S) : i < j => <<q[i], q[j]>> \in ahead
  <2> HIDE DEF S
  <2>1. QED
    BY <1>1, <1>4, InOrderLists
<1> HIDE DEF q
<1>6. 1 \in 1 .. Cardinality(S)
  BY <1>1, <1>5
<1>7. q[1] \in S
  BY <1>5, <1>6
<1>8. \A t \in S : t = q[1] \/ <<q[1], t>> \in ahead
  <2> TAKE t \in S
  <2>1. PICK i \in 1 .. Cardinality(S) : q[i] = t
    BY <1>5
  <2>2. i = 1 \/ 1 < i
    BY <1>5
  <2>3. QED
    BY <1>5, <1>6, <2>1, <2>2
<1>9. \A t \in S : ~Newer(t, q[1])
  <2> TAKE t \in S
  <2>1. t = q[1] \/ Time[q[1]] > Time[t] \/ (Time[q[1]] = Time[t] /\ q[1] > t)
    BY <1>3, <1>7, <1>8
  <2>2. /\ Time[t] \in Int /\ Time[q[1]] \in Int
        /\ t \in Nat /\ q[1] \in Nat
    BY <1>2, <1>7
  <2> HIDE DEF S
  <2>3. QED
    BY <2>1, <2>2 DEF Newer
<1>10. q[1] \in LatestOf(rows)
  BY <1>7, <1>9 DEF LatestOf
<1>11. Session[q[1]] = Session[r] /\ ~Newer(r, q[1])
  BY <1>1, <1>7, <1>9
<1>12. QED
  BY <1>10, <1>11

LEMMA OneLatestEach ==
    ASSUME NEW rows \in SUBSET Row
    PROVE  /\ LatestOf(rows) \in SUBSET rows /\ IsFiniteSet(LatestOf(rows))
           /\ Cardinality(LatestOf(rows)) = Cardinality(SessionsOf(rows))
<1> DEFINE last == LatestOf(rows)
           f == [r \in last |-> Session[r]]
<1>1. last \in SUBSET rows /\ IsFiniteSet(last)
  BY RowsAreFinite, FS_Subset DEF LatestOf
<1>2. f \in [last -> SessionsOf(rows)]
  BY <1>1 DEF SessionsOf
<1>3. \A r, s \in last : Session[r] = Session[s] => r = s
  <2> TAKE r, s \in last
  <2>1. r \in Nat /\ s \in Nat /\ Time[r] \in Int /\ Time[s] \in Int
    BY <1>1, QueriesAssumption
  <2>2. Session[r] = Session[s] => ~Newer(r, s) /\ ~Newer(s, r)
    BY DEF LatestOf
  <2>3. QED
    BY <2>1, <2>2 DEF Newer
<1>4. f \in Injection(last, SessionsOf(rows))
  BY <1>2, <1>3 DEF Injection, IsInjective
<1>5. \A t \in SessionsOf(rows) : \E r \in last : f[r] = t
  BY ASessionHasALatest DEF SessionsOf
<1>6. ExistsBijection(last, SessionsOf(rows))
  BY <1>2, <1>4, <1>5 DEF ExistsBijection, Bijection, Surjection
<1> HIDE DEF f
<1>7. Cardinality(SessionsOf(rows)) = Cardinality(last)
  BY <1>1, <1>6, FS_Bijection
<1>8. QED
  BY <1>1, <1>7

LEMMA RecentSessionsReads ==
    ASSUME NEW rows \in SUBSET Row, NEW limit \in Nat, NEW s \in RecentSessions(rows, limit)
    PROVE  LET c == Cardinality(SessionsOf(rows))
           IN /\ s \in Seq(rows) /\ c \in Nat /\ Len(s) = (IF limit <= c THEN limit ELSE c)
              /\ \A r \in rows :
                     \/ \E i \in 1 .. Len(s) : Session[s[i]] = Session[r] /\ ~Newer(r, s[i])
                     \/ Len(s) = limit /\ \A i \in 1 .. limit : Time[s[i]] >= Time[r]
<1> DEFINE last == LatestOf(rows)
           c == Cardinality(SessionsOf(rows))
<1>1. last \in SUBSET rows /\ IsFiniteSet(last) /\ Cardinality(last) = c /\ c \in Nat
  BY OneLatestEach, FS_CardinalityType
<1>2. PICK q \in SetToSeqs(last) :
          /\ \A i, j \in DOMAIN q : i < j => Time[q[i]] >= Time[q[j]]
          /\ s = First(q, limit)
  BY DEF RecentSessions, LatestOf
<1> HIDE DEF last
<1>3. q \in [1 .. c -> last] /\ \A i, j \in 1 .. c : i # j => q[i] # q[j]
  BY <1>1, <1>2 DEF SetToSeqs
<1> HIDE DEF c
<1>4. q \in Seq(rows) /\ Len(q) = c /\ DOMAIN q = 1 .. c
  <2>1. \A i \in 1 .. c : q[i] \in rows
    BY <1>1, <1>3
  <2>2. q \in [1 .. c -> rows]
    BY <1>3, <2>1
  <2>3. q \in Seq(rows)
    BY <1>1, <2>2
  <2>4. QED
    BY <1>1, <2>2, <2>3, LenProperties
<1>5. q \in Surjection(1 .. c, last)
  <2>1. q \in Injection(1 .. c, last)
    BY <1>3 DEF Injection, IsInjective
  <2>2. Cardinality(1 .. c) = c
    <3>1. Cardinality(1 .. c) = IF 1 > c THEN 0 ELSE c - 1 + 1
      BY <1>1, FS_Interval
    <3>2. QED
      BY <1>1, <3>1
  <2>3. QED
    BY <1>1, <2>1, <2>2, FS_Injection
<1>6. \A r \in last : \E i \in 1 .. c : q[i] = r
  BY <1>5 DEF Surjection
<1>7. /\ s \in Seq(rows) /\ Len(s) \in Nat /\ Len(s) = (IF limit <= c THEN limit ELSE c)
      /\ \A i \in 1 .. Len(s) : i \in 1 .. c /\ s[i] = q[i]
  BY <1>2, <1>4, FirstOf
<1>8. ASSUME NEW r \in rows
      PROVE  \/ \E i \in 1 .. Len(s) : Session[s[i]] = Session[r] /\ ~Newer(r, s[i])
             \/ Len(s) = limit /\ \A i \in 1 .. limit : Time[s[i]] >= Time[r]
  <2>1. PICK t \in last : Session[t] = Session[r] /\ ~Newer(r, t)
    BY ASessionHasALatest DEF last
  <2>2. PICK k \in 1 .. c : q[k] = t
    BY <1>6
  <2>3. CASE k <= Len(s)
    BY <1>1, <1>7, <2>1, <2>2, <2>3
  <2>4. CASE ~(k <= Len(s))
    <3>1. Len(s) = limit
      BY <1>1, <1>7, <2>4
    <3>2. \A i \in 1 .. limit : i \in 1 .. c /\ i < k /\ s[i] = q[i] /\ s[i] \in rows
      BY <1>1, <1>3, <1>7, <2>4, <3>1
    <3>3. Time[t] >= Time[r] /\ Time[r] \in Int /\ Time[t] \in Int
      BY <1>1, <2>1, QueriesAssumption DEF Newer
    <3>4. \A i \in 1 .. limit : Time[s[i]] >= Time[t] /\ Time[s[i]] \in Int
      BY <1>2, <1>4, <2>2, <3>2, QueriesAssumption
    <3>5. \A i \in 1 .. limit : Time[s[i]] >= Time[r]
      BY <3>3, <3>4
    <3>6. QED
      BY <3>1, <3>5
  <2>5. QED
    BY <2>3, <2>4
<1>9. QED
  BY <1>1, <1>7, <1>8 DEF c

Searching == {"count", "retry", "select"}
Explaining == {"advise", "diagnose", "newest"}
Measuring == {"measure", "emit", "book", "done"}

Tools == {"recent_sessions", "recent_commits", "find_session", "find_commit", "find_memory",
          "find_design_doc", "find_code"}

Asked(req) ==
    /\ req.tool \in Tools /\ req.limit \in Limits
    /\ req.recent <=> req.tool \in {"recent_sessions", "recent_commits"}

Deepest(req) == Max({Limit(req.limit), DeepScanDepth})

LEMMA LimitsAreNumbers ==
    ASSUME NEW req, Asked(req)
    PROVE  /\ Limit(req.limit) \in Nat \ {0} /\ Deepest(req) \in Nat
           /\ Limit(req.limit) <= Deepest(req)
<1>1. Limit(req.limit) \in Nat \ {0} /\ DeepScanDepth \in Nat
  BY LimitIsPositive, QueriesAssumption DEF Asked
<1> DEFINE l == Limit(req.limit)
<1> HIDE DEF l
<1>2. Max({l, DeepScanDepth}) = IF l >= DeepScanDepth THEN l ELSE DeepScanDepth
  BY <1>1, MaxOfTwo DEF l
<1>3. QED
  BY <1>1, <1>2 DEF Deepest, l

(* What a find tool reads                                                  *)
LEMMA BestReads ==
    ASSUME NEW rows \in SUBSET Row, NEW n \in Nat, NEW s \in Best(rows, n)
    PROVE  /\ s \in Seq(rows)
           /\ Len(s) = (IF n <= Cardinality(rows) THEN n ELSE Cardinality(rows))
           /\ \A i, j \in 1 .. Len(s) : i < j => s[i] < s[j]
           /\ \A r \in rows : \/ \E i \in 1 .. Len(s) : s[i] = r
                              \/ Len(s) = n /\ \A i \in 1 .. n : s[i] < r
<1>1. s = First(InOrder(rows, ByRank), n)
  BY DEF Best
<1>2. \A p, q : <<p, q>> \in ByRank => p < q
  BY DEF ByRank
<1>3. Orders(rows, ByRank)
  BY RowsAreOrdered
<1>4. /\ s \in Seq(rows)
      /\ Len(s) = (IF n <= Cardinality(rows) THEN n ELSE Cardinality(rows))
      /\ \A i, j \in 1 .. Len(s) : i < j => <<s[i], s[j]>> \in ByRank
      /\ \A r \in rows : \/ \E i \in 1 .. Len(s) : s[i] = r
                         \/ Len(s) = n /\ \A i \in 1 .. n : <<s[i], r>> \in ByRank
  <2> DEFINE t == First(InOrder(rows, ByRank), n)
  <2>1. /\ t \in Seq(rows)
        /\ Len(t) = (IF n <= Cardinality(rows) THEN n ELSE Cardinality(rows))
        /\ \A i, j \in 1 .. Len(t) : i < j => <<t[i], t[j]>> \in ByRank
        /\ \A r \in rows : \/ \E i \in 1 .. Len(t) : t[i] = r
                           \/ Len(t) = n /\ \A i \in 1 .. n : <<t[i], r>> \in ByRank
    BY <1>3, FirstInOrder
  <2>2. s = t
    BY <1>1
  <2> HIDE DEF t
  <2>3. QED
    BY <2>1, <2>2
<1>5. QED
  BY <1>2, <1>4

(* The rows that are read, the ones shown of them, and the ones left out   *)
LEMMA SelectedReads ==
    ASSUME NEW req, Asked(req), NEW rows \in SUBSET Row, NEW sel \in Selected(req, rows)
    PROVE  LET limit == Limit(req.limit)
               s == First(sel, limit)
           IN /\ sel \in Seq(rows)
              /\ Len(s) = Min({Counted(req, rows), limit})
              /\ \A r \in rows :
                     \/ \E i \in DOMAIN s : Stands(req, s[i], r)
                     \/ FullOfBetter(req, s, limit, r)
              /\ Deep(req) =>
                     \A r \in rows : \/ \E i \in 1 .. Len(sel) : sel[i] = r
                                     \/ FullOfBetter(req, sel, Deepest(req), r)
<1> DEFINE limit == Limit(req.limit)
           s == First(sel, limit)
           c == Cardinality(rows)
<1>1. limit \in Nat /\ Deepest(req) \in Nat /\ limit <= Deepest(req)
  BY LimitsAreNumbers
<1>2. c \in Nat
  BY RowsAreFinite
<1> HIDE DEF limit
<1>3. CASE req.tool = "recent_sessions"
  <2> DEFINE d == Cardinality(SessionsOf(rows))
  <2>1. sel \in RecentSessions(rows, limit)
    BY <1>3 DEF Selected, limit
  <2>2. sel \in Seq(rows) /\ d \in Nat /\ Len(sel) = IF limit <= d THEN limit ELSE d
    BY <1>1, <2>1, RecentSessionsReads
  <2>3. \A r \in rows :
           \/ \E i \in 1 .. Len(sel) : Session[sel[i]] = Session[r] /\ ~Newer(r, sel[i])
           \/ Len(sel) = limit /\ \A i \in 1 .. limit : Time[sel[i]] >= Time[r]
    BY <1>1, <2>1, RecentSessionsReads
  <2>4. Counted(req, rows) = d
    BY <1>3 DEF Counted
  <2> HIDE DEF d
  <2>5. s \in Seq(rows) /\ Len(s) = Len(sel) /\ DOMAIN s = 1 .. Len(sel) /\ \A i \in 1 .. Len(sel) : s[i] = sel[i]
    BY <1>1, <2>2, FirstOf
  <2>6. Len(s) = Min({Counted(req, rows), limit})
    <3>1. Min({d, limit}) = IF d <= limit THEN d ELSE limit
      BY <1>1, <2>2, MinOfTwo
    <3>2. QED
      BY <1>1, <2>2, <2>4, <2>5, <3>1
  <2>7. \A r \in rows : \/ \E i \in DOMAIN s : Stands(req, s[i], r)
                        \/ FullOfBetter(req, s, limit, r)
    <3>1. req.recent
      BY <1>3 DEF Asked
    <3> HIDE DEF s
    <3>2. QED
      BY <1>3, <2>2, <2>3, <2>5, <3>1 DEF Stands, FullOfBetter, Better
  <2>8. ~Deep(req)
    BY <1>3 DEF Deep
  <2>9. QED
    BY <2>2, <2>6, <2>7, <2>8 DEF limit
<1>4. ASSUME req.tool # "recent_sessions",
             sel \in Seq(rows), NEW n \in Nat, limit <= n,
             Len(sel) = IF n <= c THEN n ELSE c,
             NEW q, q \in Seq(rows), sel = First(q, n),
             Len(First(q, limit)) = IF limit <= c THEN limit ELSE c,
             \A r \in rows : \/ \E i \in 1 .. Len(First(q, limit)) : First(q, limit)[i] = r
                             \/ /\ Len(First(q, limit)) = limit
                                /\ \A i \in 1 .. limit : Better(req, First(q, limit)[i], r)
      PROVE  /\ Len(s) = Min({Counted(req, rows), limit})
             /\ \A r \in rows : \/ \E i \in DOMAIN s : Stands(req, s[i], r)
                                \/ FullOfBetter(req, s, limit, r)
  <2>1. s = First(q, limit)
    BY <1>1, <1>4, FirstOfFirst
  <2> HIDE DEF s
  <2>2. s \in Seq(rows) /\ DOMAIN s = 1 .. Len(s)
    BY <1>1, <1>4, <2>1, FirstOf
  <2>3. Counted(req, rows) = c
    BY <1>4 DEF Counted
  <2> HIDE DEF c
  <2>4. Len(s) = Min({Counted(req, rows), limit})
    <3>1. Min({c, limit}) = IF c <= limit THEN c ELSE limit
      BY <1>1, <1>2, MinOfTwo
    <3>2. QED
      BY <1>1, <1>2, <1>4, <2>1, <2>3, <3>1
  <2>5. \A r \in rows : \/ \E i \in DOMAIN s : Stands(req, s[i], r)
                        \/ FullOfBetter(req, s, limit, r)
    BY <1>4, <2>1, <2>2 DEF Stands, FullOfBetter
  <2>6. QED
    BY <2>4, <2>5
<1>5. CASE req.tool = "recent_commits"
  <2> DEFINE q == InOrder(rows, ByTime)
             n == limit
  <2>1. sel = First(q, n) /\ req.recent /\ ~Deep(req)
    BY <1>5 DEF Selected, RecentCommits, limit, Asked, Deep
  <2>2. /\ sel \in Seq(rows) /\ Len(sel) = (IF limit <= c THEN limit ELSE c)
        /\ \A r \in rows :
               \/ \E i \in 1 .. Len(sel) : sel[i] = r
               \/ Len(sel) = limit /\ \A i \in 1 .. limit : <<sel[i], r>> \in ByTime
    <3>1. Orders(rows, ByTime) /\ sel = First(InOrder(rows, ByTime), limit)
      BY <2>1, RowsAreOrdered
    <3> DEFINE t == First(InOrder(rows, ByTime), limit)
    <3>2. /\ t \in Seq(rows) /\ Len(t) = (IF limit <= c THEN limit ELSE c)
          /\ \A r \in rows :
                 \/ \E i \in 1 .. Len(t) : t[i] = r
                 \/ Len(t) = limit /\ \A i \in 1 .. limit : <<t[i], r>> \in ByTime
      BY <1>1, <3>1, FirstInOrder
    <3> HIDE DEF t, c, q
    <3>3. QED
      BY <3>1, <3>2 DEF t
  <2>3. \A p, r : <<p, r>> \in ByTime => Time[p] >= Time[r]
    <3> TAKE p, r
    <3> HAVE <<p, r>> \in ByTime
    <3>1. p \in Row /\ r \in Row /\ (Time[p] > Time[r] \/ Time[p] = Time[r])
      BY DEF ByTime
    <3>2. Time[p] \in Int /\ Time[r] \in Int
      BY <3>1, QueriesAssumption
    <3>3. QED
      BY <3>1, <3>2
  <2>4. q \in Seq(rows)
    BY RowsAreFinite, RowsAreOrdered, InOrderLists
  <2> HIDE DEF q
  <2>5. \A r \in rows : \/ \E i \in 1 .. Len(sel) : sel[i] = r
                        \/ /\ Len(sel) = limit
                           /\ \A i \in 1 .. limit : Better(req, sel[i], r)
    BY <2>1, <2>2, <2>3 DEF Better
  <2>6. limit <= limit
    BY <1>1
  <2> HIDE DEF s, c
  <2>7. /\ Len(s) = Min({Counted(req, rows), limit})
        /\ \A r \in rows : \/ \E i \in DOMAIN s : Stands(req, s[i], r)
                           \/ FullOfBetter(req, s, limit, r)
    BY <1>1, <1>4, <1>5, <2>1, <2>2, <2>4, <2>5, <2>6
  <2>8. QED
    BY <2>1, <2>2, <2>7 DEF limit, s, c
<1>6. CASE req.tool \notin {"recent_sessions", "recent_commits"}
  <2> DEFINE q == InOrder(rows, ByRank)
             n == IF Deep(req) THEN Deepest(req) ELSE limit
  <2>1. sel \in Best(rows, n) /\ sel = First(q, n) /\ ~req.recent
    <3>1. CASE req.tool \in {"find_session", "find_commit", "find_memory"}
      BY <3>1 DEF Selected, FindSession, FindCommit, FindMemory, Best, limit, Asked, Deep
    <3>2. CASE req.tool \in {"find_design_doc", "find_code"}
      BY <3>2 DEF Selected, FindDesignDoc, FindCode, Best, limit, Asked, Deep, Deepest
    <3>3. QED
      BY <1>6, <3>1, <3>2 DEF Asked, Tools
  <2>2. n \in Nat /\ limit <= n
    BY <1>1
  <2> HIDE DEF n
  <2>3. /\ sel \in Seq(rows) /\ Len(sel) = (IF n <= c THEN n ELSE c)
        /\ \A r \in rows : \/ \E i \in 1 .. Len(sel) : sel[i] = r
                           \/ Len(sel) = n /\ \A i \in 1 .. n : sel[i] < r
    BY <2>1, <2>2, BestReads
  <2>4. First(q, limit) \in Best(rows, limit)
    BY DEF Best
  <2>5. /\ Len(First(q, limit)) = (IF limit <= c THEN limit ELSE c)
        /\ \A r \in rows :
               \/ \E i \in 1 .. Len(First(q, limit)) : First(q, limit)[i] = r
               \/ Len(First(q, limit)) = limit /\ \A i \in 1 .. limit : First(q, limit)[i] < r
    <3> DEFINE t == First(q, limit)
    <3> HIDE DEF t
    <3>1. t \in Best(rows, limit)
      BY <2>4 DEF t
    <3>2. /\ Len(t) = (IF limit <= c THEN limit ELSE c)
          /\ \A r \in rows : \/ \E i \in 1 .. Len(t) : t[i] = r
                             \/ Len(t) = limit /\ \A i \in 1 .. limit : t[i] < r
      BY <1>1, <3>1, BestReads
    <3>3. QED
      BY <3>2 DEF t
  <2>6. q \in Seq(rows)
    BY RowsAreFinite, RowsAreOrdered, InOrderLists
  <2> HIDE DEF q, s, c
  <2>7. \A r \in rows :
            \/ \E i \in 1 .. Len(First(q, limit)) : First(q, limit)[i] = r
            \/ /\ Len(First(q, limit)) = limit
               /\ \A i \in 1 .. limit : Better(req, First(q, limit)[i], r)
    BY <2>1, <2>5 DEF Better
  <2>8. /\ Len(s) = Min({Counted(req, rows), limit})
        /\ \A r \in rows : \/ \E i \in DOMAIN s : Stands(req, s[i], r)
                           \/ FullOfBetter(req, s, limit, r)
    BY <1>4, <1>6, <2>1, <2>2, <2>3, <2>5, <2>6, <2>7
  <2>9. Deep(req) => \A r \in rows : \/ \E i \in 1 .. Len(sel) : sel[i] = r
                                     \/ FullOfBetter(req, sel, Deepest(req), r)
    BY <2>1, <2>3 DEF n, FullOfBetter, Better
  <2>10. QED
    BY <2>3, <2>8, <2>9 DEF limit, s
<1>7. QED
  BY <1>3, <1>5, <1>6

--------------------------------------------------------------------------------
(* The pointers                                                            *)

(* Naturals by their size                                                  *)
LEMMA NaturalsAreOrdered ==
    ASSUME NEW S \in SUBSET Nat
    PROVE  Orders(S, {p \in S \X S : p[1] < p[2]})
<1> DEFINE less == {p \in S \X S : p[1] < p[2]}
<1>1. \A r, s \in S : <<r, s>> \in less <=> r < s
  OBVIOUS
<1> HIDE DEF less
<1>2. Orders(S, less)
  BY <1>1 DEF Orders
<1>3. QED
  BY <1>2 DEF less

LEMMA HasALeast ==
    ASSUME NEW S \in SUBSET Nat, S # {}
    PROVE  \E m \in S : \A x \in S : m <= x
<1>1. PICK m \in S : \A x \in S : <<x, m>> \notin OpToRel(<, Nat)
  BY WFMin, NatLessThanWellFounded, Zenon
<1>2. \A x \in S : ~(x < m)
  BY <1>1 DEF OpToRel
<1>3. QED
  BY <1>2

PlacesOf(req, rows, file) == {i \in DOMAIN rows : File(req, rows[i]) = file}

(* One pointer for each file below, at its first row, with all its rows    *)
LEMMA AlsoMatchedPoints ==
    ASSUME NEW req, NEW shown, NEW tail \in Seq(Row)
    PROVE  LET also == AlsoMatched(req, shown, tail)
           IN /\ \A i \in DOMAIN tail : File(req, tail[i]) \notin shown =>
                     \E k \in DOMAIN also :
                         /\ File(req, also[k].row) = File(req, tail[i])
                         /\ also[k].matches = Cardinality(PlacesOf(req, tail, File(req, tail[i])))
                         /\ \E b \in PlacesOf(req, tail, File(req, tail[i])) :
                                /\ also[k].row = tail[b]
                                /\ \A j \in PlacesOf(req, tail, File(req, tail[i])) : b <= j
              /\ \A k, m \in DOMAIN also :
                     k # m => File(req, also[k].row) # File(req, also[m].row)
              /\ \A k \in DOMAIN also : File(req, also[k].row) \notin shown
              /\ also \in Seq([row : Row, matches : Nat])
<1> DEFINE further == {i \in DOMAIN tail : File(req, tail[i]) \notin shown}
           Of(i) == {j \in further : File(req, tail[j]) = File(req, tail[i])}
           first == {i \in further : \A j \in Of(i) : i <= j}
           less == {p \in first \X first : p[1] < p[2]}
           best == InOrder(first, less)
           n == Cardinality(first)
           also == AlsoMatched(req, shown, tail)
<1>1. Len(tail) \in Nat /\ DOMAIN tail = 1 .. Len(tail) /\ tail \in [1 .. Len(tail) -> Row]
  BY LenProperties
<1>2. IsFiniteSet(DOMAIN tail) /\ DOMAIN tail \subseteq Nat
  BY <1>1, FS_Interval
<1>3. first \in SUBSET DOMAIN tail /\ IsFiniteSet(first) /\ first \in SUBSET Nat
  <2>1. first \in SUBSET DOMAIN tail
    OBVIOUS
  <2> HIDE DEF first
  <2>2. QED
    BY <1>2, <2>1, FS_Subset
<1>4. ASSUME NEW i \in further
      PROVE  Of(i) = PlacesOf(req, tail, File(req, tail[i])) /\ i \in Of(i) /\ Of(i) \in SUBSET Nat
  BY <1>2 DEF PlacesOf
<1>5. /\ n \in Nat /\ DOMAIN best = 1 .. n
      /\ \A r \in first : \E i \in 1 .. n : best[i] = r
      /\ \A i \in 1 .. n : best[i] \in first
      /\ \A i, j \in 1 .. n : i < j => <<best[i], best[j]>> \in less
  <2> HIDE DEF first
  <2>1. Orders(first, less)
    BY <1>3, NaturalsAreOrdered
  <2> HIDE DEF less
  <2>2. QED
    BY <1>3, <2>1, InOrderLists
<1>6. also = [k \in DOMAIN best |-> [row |-> tail[best[k]], matches |-> Cardinality(Of(best[k]))]]
  BY DEF AlsoMatched
<1> HIDE DEF best, n, also
<1>7. DOMAIN also = 1 .. n
  BY <1>5, <1>6
<1>8. \A k \in 1 .. n : also[k].row = tail[best[k]] /\ also[k].matches = Cardinality(Of(best[k]))
  BY <1>5, <1>6
<1>9. ASSUME NEW i \in further
      PROVE  \E k \in 1 .. n :
                 /\ File(req, also[k].row) = File(req, tail[i])
                 /\ also[k].matches = Cardinality(PlacesOf(req, tail, File(req, tail[i])))
                 /\ \E b \in PlacesOf(req, tail, File(req, tail[i])) :
                        /\ also[k].row = tail[b]
                        /\ \A j \in PlacesOf(req, tail, File(req, tail[i])) : b <= j
  <2>1. PICK b \in Of(i) : \A j \in Of(i) : b <= j
    BY <1>4, HasALeast
  <2>2. b \in further /\ File(req, tail[b]) = File(req, tail[i])
    OBVIOUS
  <2>3. Of(b) = Of(i)
    BY <2>2
  <2>4. b \in first
    BY <2>1, <2>2, <2>3
  <2>5. PICK k \in 1 .. n : best[k] = b
    BY <1>5, <2>4
  <2>6. also[k].row = tail[b] /\ also[k].matches = Cardinality(Of(i))
    BY <1>8, <2>3, <2>5
  <2>7. b \in PlacesOf(req, tail, File(req, tail[i]))
    BY <1>4
  <2>8. \A j \in PlacesOf(req, tail, File(req, tail[i])) : b <= j
    BY <1>4, <2>1
  <2>9. Cardinality(Of(i)) = Cardinality(PlacesOf(req, tail, File(req, tail[i])))
    BY <1>4
  <2> HIDE DEF Of, further, first
  <2>10. QED
    BY <2>2, <2>6, <2>7, <2>8, <2>9
<1>10. ASSUME NEW k \in 1 .. n, NEW m \in 1 .. n, k # m
       PROVE  File(req, also[k].row) # File(req, also[m].row)
  <2>1. best[k] \in first /\ best[m] \in first
    BY <1>5
  <2>2. best[k] # best[m]
    <3>1. k < m \/ m < k
      BY <1>5, <1>10
    <3>2. <<best[k], best[m]>> \in less \/ <<best[m], best[k]>> \in less
      BY <1>5, <3>1
    <3>3. best[k] \in Nat /\ best[m] \in Nat
      BY <1>3, <2>1
    <3>4. best[k] < best[m] \/ best[m] < best[k]
      BY <3>2
    <3>5. QED
      BY <3>3, <3>4
  <2>3. SUFFICES ASSUME File(req, tail[best[k]]) = File(req, tail[best[m]]) PROVE FALSE
    BY <1>8
  <2>4. best[m] \in Of(best[k]) /\ best[k] \in Of(best[m])
    BY <2>1, <2>3
  <2>5. best[k] <= best[m] /\ best[m] <= best[k]
    BY <2>1, <2>4
  <2>6. best[k] \in Nat /\ best[m] \in Nat
    BY <1>3, <2>1
  <2>7. QED
    BY <2>2, <2>5, <2>6
<1>11. \A k \in 1 .. n : File(req, also[k].row) \notin shown
  <2>1. \A k \in 1 .. n : best[k] \in further
    BY <1>5
  <2>2. QED
    BY <1>8, <2>1
<1>12. also \in Seq([row : Row, matches : Nat])
  <2>1. \A k \in 1 .. n : [row |-> tail[best[k]], matches |-> Cardinality(Of(best[k]))]
                              \in [row : Row, matches : Nat]
    <3> TAKE k \in 1 .. n
    <3>1. best[k] \in DOMAIN tail
      BY <1>3, <1>5
    <3>2. tail[best[k]] \in Row
      BY <1>1, <3>1
    <3> DEFINE O == Of(best[k])
    <3>3. O \in SUBSET DOMAIN tail
      OBVIOUS
    <3> HIDE DEF O
    <3>4. Cardinality(O) \in Nat
      BY <1>2, <3>3, FS_Subset, FS_CardinalityType
    <3>5. QED
      BY <3>2, <3>4 DEF O
  <2> DEFINE e(k) == [row |-> tail[best[k]], matches |-> Cardinality(Of(best[k]))]
  <2>2. also = [k \in 1 .. n |-> e(k)] /\ \A k \in 1 .. n : e(k) \in [row : Row, matches : Nat]
    BY <1>5, <1>6, <2>1
  <2> HIDE DEF e
  <2>3. also \in [1 .. n -> [row : Row, matches : Nat]]
    BY <2>2
  <2> DEFINE X == [row : Row, matches : Nat]
  <2>4. n \in Nat /\ also \in [1 .. n -> X]
    BY <1>5, <2>3
  <2> HIDE DEF X
  <2>5. also \in Seq(X)
    BY <2>4
  <2>6. QED
    BY <2>5 DEF X
<1>13. QED
  BY <1>7, <1>9, <1>10, <1>11, <1>12 DEF also

LEMMA ShownRows ==
    ASSUME NEW req, Asked(req), NEW rows \in Seq(Row)
    PROVE  LET h == HeadLength(req, rows)
               n == Len(rows)
               tail == TailOf(req, rows)
           IN /\ h \in Nat /\ n \in Nat /\ h <= n /\ DOMAIN rows = 1 .. n
              /\ h = Len(First(rows, Limit(req.limit)))
              /\ tail \in Seq(Row) /\ DOMAIN tail = 1 .. n - h
              /\ \A i \in 1 .. n - h : tail[i] = rows[h + i]
<1> DEFINE h == HeadLength(req, rows)
           n == Len(rows)
           tail == TailOf(req, rows)
           limit == Limit(req.limit)
<1>1. limit \in Nat \ {0}
  BY LimitsAreNumbers
<1>2. n \in Nat /\ DOMAIN rows = 1 .. n /\ \A i \in 1 .. n : rows[i] \in Row
  BY LenProperties, ElementOfSeq
<1> HIDE DEF limit
<1>3. h = (IF limit <= n THEN limit ELSE n)
  BY <1>1, <1>2, MinOfTwo DEF HeadLength, limit
<1>4. h = Len(First(rows, limit))
  BY <1>1, <1>3, FirstOf
<1> HIDE DEF h, n
<1>5. h \in Nat /\ h <= n
  BY <1>1, <1>2, <1>3
<1>6. tail = SubSeq(rows, h + 1, n)
  BY DEF TailOf, h, n
<1> HIDE DEF tail
<1>7. /\ SubSeq(rows, h + 1, n) \in Seq(Row)
      /\ Len(SubSeq(rows, h + 1, n)) = (IF h + 1 <= n THEN n - (h + 1) + 1 ELSE 0)
      /\ \A i \in 1 .. n - (h + 1) + 1 : SubSeq(rows, h + 1, n)[i] = rows[h + 1 + i - 1]
  <2>1. h + 1 \in Int /\ n \in Int /\ \A i \in h + 1 .. n : rows[i] \in Row
    BY <1>2, <1>5
  <2>2. QED
    BY <2>1, SubSeqProperties
<1>8. tail \in Seq(Row) /\ Len(tail) = n - h
  BY <1>2, <1>5, <1>6, <1>7
<1>9. DOMAIN tail = 1 .. n - h
  BY <1>8, LenProperties
<1>10. \A i \in 1 .. n - h : tail[i] = rows[h + i]
  <2>1. \A i \in 1 .. n - h : i \in 1 .. n - (h + 1) + 1 /\ h + 1 + i - 1 = h + i
    BY <1>2, <1>5
  <2>2. QED
    BY <1>6, <1>7, <2>1
<1>11. QED
  BY <1>2, <1>4, <1>5, <1>8, <1>9, <1>10 DEF h, n, tail, limit

(* A row that is read has its file shown, or in the one pointer to it.     *)
LEMMA NothingReadIsHidden ==
    ASSUME NEW req, Asked(req), Deep(req), NEW rows \in Seq(Row)
    PROVE  LET also == Also(req, rows)
               shown == ShownFiles(req, rows)
           IN /\ \A i \in DOMAIN rows : File(req, rows[i]) \notin shown =>
                     \E k \in DOMAIN also :
                         /\ File(req, also[k].row) = File(req, rows[i])
                         /\ also[k].matches = Cardinality(PlacesOf(req, rows, File(req, rows[i])))
                         /\ \E b \in PlacesOf(req, rows, File(req, rows[i])) :
                                /\ also[k].row = rows[b]
                                /\ \A j \in PlacesOf(req, rows, File(req, rows[i])) : b <= j
              /\ \A k, m \in DOMAIN also :
                     k # m => File(req, also[k].row) # File(req, also[m].row)
              /\ \A k \in DOMAIN also : File(req, also[k].row) \notin shown
              /\ also \in Seq([row : Row, matches : Nat])
<1> DEFINE h == HeadLength(req, rows)
           n == Len(rows)
           tail == TailOf(req, rows)
           shown == ShownFiles(req, rows)
           also == Also(req, rows)
<1>1. /\ h \in Nat /\ n \in Nat /\ h <= n /\ DOMAIN rows = 1 .. n
      /\ tail \in Seq(Row) /\ DOMAIN tail = 1 .. n - h
      /\ \A i \in 1 .. n - h : tail[i] = rows[h + i]
  BY ShownRows
<1>2. also = AlsoMatched(req, shown, tail)
  BY DEF Also
<1>3. \A i \in 1 .. h : File(req, rows[i]) \in shown
  BY DEF ShownFiles
<1> HIDE DEF h, n, tail, shown, also
<1>4. /\ \A i \in DOMAIN tail : File(req, tail[i]) \notin shown =>
             \E k \in DOMAIN also :
                 /\ File(req, also[k].row) = File(req, tail[i])
                 /\ also[k].matches = Cardinality(PlacesOf(req, tail, File(req, tail[i])))
                 /\ \E b \in PlacesOf(req, tail, File(req, tail[i])) :
                        /\ also[k].row = tail[b]
                        /\ \A j \in PlacesOf(req, tail, File(req, tail[i])) : b <= j
      /\ \A k, m \in DOMAIN also : k # m => File(req, also[k].row) # File(req, also[m].row)
      /\ \A k \in DOMAIN also : File(req, also[k].row) \notin shown
      /\ also \in Seq([row : Row, matches : Nat])
  <2> DEFINE a == AlsoMatched(req, shown, tail)
  <2>1. /\ \A i \in DOMAIN tail : File(req, tail[i]) \notin shown =>
               \E k \in DOMAIN a :
                   /\ File(req, a[k].row) = File(req, tail[i])
                   /\ a[k].matches = Cardinality(PlacesOf(req, tail, File(req, tail[i])))
                   /\ \E b \in PlacesOf(req, tail, File(req, tail[i])) :
                          /\ a[k].row = tail[b]
                          /\ \A j \in PlacesOf(req, tail, File(req, tail[i])) : b <= j
        /\ \A k, m \in DOMAIN a : k # m => File(req, a[k].row) # File(req, a[m].row)
        /\ \A k \in DOMAIN a : File(req, a[k].row) \notin shown
        /\ a \in Seq([row : Row, matches : Nat])
    BY <1>1, AlsoMatchedPoints
  <2> HIDE DEF a
  <2>2. also = a
    BY <1>2 DEF a
  <2>3. QED
    BY <2>1, <2>2
<1>5. ASSUME NEW i \in DOMAIN rows, File(req, rows[i]) \notin shown
      PROVE  \E k \in DOMAIN also :
                 /\ File(req, also[k].row) = File(req, rows[i])
                 /\ also[k].matches = Cardinality(PlacesOf(req, rows, File(req, rows[i])))
                 /\ \E b \in PlacesOf(req, rows, File(req, rows[i])) :
                        /\ also[k].row = rows[b]
                        /\ \A j \in PlacesOf(req, rows, File(req, rows[i])) : b <= j
  <2> DEFINE file == File(req, rows[i])
             R == PlacesOf(req, rows, file)
             T == PlacesOf(req, tail, file)
  <2>1. \A j \in R : j \in 1 .. n /\ File(req, rows[j]) = file /\ j - h \in 1 .. n - h
                         /\ h + (j - h) = j
    <3> TAKE j \in R
    <3>1. j \in 1 .. n /\ File(req, rows[j]) = file
      BY <1>1 DEF PlacesOf
    <3>2. j \notin 1 .. h
      BY <1>3, <1>5, <3>1
    <3> HIDE DEF R, file
    <3>3. QED
      BY <1>1, <3>1, <3>2
  <2>2. i - h \in DOMAIN tail /\ tail[i - h] = rows[i]
    <3>1. i \in R
      BY DEF PlacesOf
    <3>2. QED
      BY <1>1, <2>1, <3>1
  <2>3. \A j \in T : j \in 1 .. n - h /\ h + j \in R
    BY <1>1 DEF PlacesOf
  <2>4. \A j \in R : j - h \in T
    BY <1>1, <2>1 DEF PlacesOf
  <2>5. PICK k \in DOMAIN also :
            /\ File(req, also[k].row) = file
            /\ also[k].matches = Cardinality(T)
            /\ \E b \in T : also[k].row = tail[b] /\ \A j \in T : b <= j
    BY <1>4, <1>5, <2>2
  <2> HIDE DEF R, T, file
  <2>6. Cardinality(T) = Cardinality(R)
    <3> DEFINE f == [j \in T |-> h + j]
    <3>1. f \in [T -> R] /\ \A j \in T : f[j] = h + j
      BY <2>3
    <3> HIDE DEF f
    <3>2. \A a, b \in T : f[a] = f[b] => a = b
      BY <1>1, <2>3, <3>1
    <3>3. \A t \in R : \E s \in T : f[s] = t
      <4> TAKE t \in R
      <4>1. t - h \in T /\ h + (t - h) = t
        BY <2>1, <2>4
      <4>2. QED
        BY <3>1, <4>1
    <3>4. DOMAIN f = T
      BY <3>1
    <3>5. ExistsBijection(T, R)
      BY <3>1, <3>2, <3>3, <3>4 DEF ExistsBijection, Bijection, Injection, Surjection, IsInjective
    <3>6. IsFiniteSet(T)
      <4>1. T \in SUBSET (1 .. n - h)
        BY <2>3
      <4>2. IsFiniteSet(1 .. n - h)
        BY <1>1, FS_Interval
      <4>3. QED
        BY <4>1, <4>2, FS_Subset
    <3>7. QED
      BY <3>5, <3>6, FS_Bijection
  <2>7. \E b \in R : also[k].row = rows[b] /\ \A j \in R : b <= j
    <3>1. PICK b \in T : also[k].row = tail[b] /\ \A j \in T : b <= j
      BY <2>5
    <3>2. h + b \in R /\ tail[b] = rows[h + b]
      BY <1>1, <2>3
    <3>3. \A j \in R : h + b <= j
      BY <1>1, <2>1, <2>3, <2>4, <3>1
    <3>4. QED
      BY <3>1, <3>2, <3>3
  <2>8. QED
    BY <2>5, <2>6, <2>7 DEF R, file
<1>6. QED
  BY <1>4, <1>5 DEF also, shown

--------------------------------------------------------------------------------
(* The bodies                                                              *)

BodyAfter(spent, r) == IF spent >= BodyBudget THEN 0 ELSE Summarize(Snippet[r], BodyLimit)

(* What a sum is before each row                                           *)
SumsUp(rows, f, m) ==
    f = [i \in 0 .. m |-> IF i = 0 THEN 0 ELSE f[i - 1] + BodyAfter(f[i - 1], rows[i])]

LEMMA ASumExists ==
    ASSUME NEW rows, NEW n \in Nat
    PROVE  \E f : SumsUp(rows, f, n)
<1> DEFINE S == {m \in Nat : ~ \E f : SumsUp(rows, f, m)}
<1>1. SUFFICES ASSUME S # {} PROVE FALSE
  OBVIOUS
<1>2. PICK m \in S : \A x \in S : m <= x
  <2>1. S \in SUBSET Nat
    OBVIOUS
  <2> HIDE DEF S
  <2>2. QED
    BY <1>1, <2>1, HasALeast
<1>3. m \in Nat /\ ~ \E f : SumsUp(rows, f, m)
  OBVIOUS
<1>4. CASE m = 0
  <2> DEFINE f == [i \in 0 .. 0 |-> 0]
  <2>1. f = [i \in 0 .. 0 |-> IF i = 0 THEN 0 ELSE f[i - 1] + BodyAfter(f[i - 1], rows[i])]
    OBVIOUS
  <2>2. QED
    BY <1>3, <1>4, <2>1 DEF SumsUp
<1>5. CASE m # 0
  <2>1. m - 1 \in Nat /\ ~(m <= m - 1)
    BY <1>3, <1>5
  <2>2. PICK g : SumsUp(rows, g, m - 1)
    BY <1>2, <2>1
  <2>3. g = [i \in 0 .. m - 1 |-> IF i = 0 THEN 0 ELSE g[i - 1] + BodyAfter(g[i - 1], rows[i])]
    BY <2>2 DEF SumsUp
  <2> DEFINE f == [i \in 0 .. m |->
                      IF i = m THEN g[m - 1] + BodyAfter(g[m - 1], rows[m]) ELSE g[i]]
             e(i) == IF i = 0 THEN 0 ELSE f[i - 1] + BodyAfter(f[i - 1], rows[i])
  <2>4. ASSUME NEW i \in 0 .. m PROVE f[i] = e(i)
    <3>1. CASE i = m
      <4>1. f[i] = g[m - 1] + BodyAfter(g[m - 1], rows[m])
        BY <3>1
      <4>2. f[m - 1] = g[m - 1] /\ i # 0
        BY <1>3, <1>5, <3>1
      <4>3. QED
        BY <3>1, <4>1, <4>2
    <3>2. CASE i # m
      <4>1. i \in 0 .. m - 1 /\ f[i] = g[i]
        BY <1>3, <3>2
      <4>2. g[i] = IF i = 0 THEN 0 ELSE g[i - 1] + BodyAfter(g[i - 1], rows[i])
        BY <2>3, <4>1
      <4>3. i # 0 => f[i - 1] = g[i - 1]
        BY <1>3, <3>2
      <4>4. QED
        BY <4>1, <4>2, <4>3
    <3>3. QED
      BY <3>1, <3>2
  <2>5. f = [i \in 0 .. m |-> f[i]]
    OBVIOUS
  <2> HIDE DEF f
  <2>6. f = [i \in 0 .. m |-> e(i)]
    <3> HIDE DEF e
    <3>1. QED
      BY <2>4, <2>5
  <2>7. SumsUp(rows, f, m)
    BY <2>6 DEF SumsUp
  <2>8. QED
    BY <1>3, <2>7
<1>6. QED
  BY <1>4, <1>5

LEMMA SpentSumsUp ==
    ASSUME NEW rows \in Seq(Row)
    PROVE  SumsUp(rows, Spent(rows), Len(rows))
<1>1. Len(rows) \in Nat
  BY LenProperties
<1>2. \E f : SumsUp(rows, f, Len(rows))
  BY <1>1, ASumExists
<1>3. Spent(rows) = CHOOSE f : SumsUp(rows, f, Len(rows))
  BY DEF Spent, SumsUp, BodyAfter
<1>4. QED
  BY <1>2, <1>3

(* What is spent is over the budget by less than a body.                   *)
LEMMA SpentIsBounded ==
    ASSUME NEW rows \in Seq(Row), NEW i \in 0 .. Len(rows)
    PROVE  Spent(rows)[i] \in Nat /\ Spent(rows)[i] <= BodyBudget + BodyLimit
<1> DEFINE n == Len(rows)
           f == Spent(rows)
           Fine(j) == f[j] \in Nat /\ f[j] <= BodyBudget + BodyLimit
           S == {j \in 0 .. n : ~Fine(j)}
<1>1. n \in Nat /\ \A j \in 1 .. n : rows[j] \in Row
  BY LenProperties, ElementOfSeq
<1>2. f = [j \in 0 .. n |-> IF j = 0 THEN 0 ELSE f[j - 1] + BodyAfter(f[j - 1], rows[j])]
  BY SpentSumsUp DEF SumsUp
<1>3. BodyBudget \in Nat /\ BodyLimit \in Nat /\ \A r \in Row : Snippet[r] \in Nat
  BY QueriesAssumption
<1> HIDE DEF n, f
<1>4. SUFFICES ASSUME S # {} PROVE FALSE
  BY DEF n, f
<1>5. PICK m \in S : \A x \in S : m <= x
  <2>1. S \in SUBSET Nat
    BY <1>1
  <2> HIDE DEF S
  <2>2. QED
    BY <1>4, <2>1, HasALeast
<1>6. m \in 0 .. n /\ ~Fine(m)
  OBVIOUS
<1>7. f[m] = IF m = 0 THEN 0 ELSE f[m - 1] + BodyAfter(f[m - 1], rows[m])
  BY <1>2, <1>6
<1>8. CASE m = 0
  BY <1>3, <1>6, <1>7, <1>8
<1>9. CASE m # 0
  <2>1. m - 1 \in 0 .. n /\ ~(m <= m - 1) /\ m \in 1 .. n
    BY <1>1, <1>6, <1>9
  <2>2. Fine(m - 1)
    BY <1>5, <2>1
  <2>3. Snippet[rows[m]] \in Nat
    BY <1>1, <1>3, <2>1
  <2> DEFINE a == f[m - 1]
             b == Snippet[rows[m]]
  <2>4. f[m] = a + (IF a >= BodyBudget THEN 0 ELSE IF b <= BodyLimit THEN b ELSE BodyLimit + 1)
    BY <1>7, <1>9 DEF BodyAfter, Summarize
  <2>5. a \in Nat /\ a <= BodyBudget + BodyLimit /\ b \in Nat
    BY <2>2, <2>3
  <2> HIDE DEF a, b
  <2>6. Fine(m)
    BY <1>3, <2>4, <2>5
  <2>7. QED
    BY <1>6, <2>6
<1>10. QED
  BY <1>8, <1>9

(* Every row has a body or an excerpt.                                     *)
LEMMA EveryRowHasText ==
    ASSUME NEW rows \in Seq(Row), NEW i \in DOMAIN Bodies(rows)
    PROVE  Bodies(rows)[i].body > 0 \/ Bodies(rows)[i].excerpt > 0
<1> DEFINE f == Spent(rows)
           b == f[i] - f[i - 1]
           s == Snippet[rows[i]]
<1>1. i \in 1 .. Len(rows) /\ Len(rows) \in Nat /\ rows[i] \in Row
  BY LenProperties, ElementOfSeq DEF Bodies
<1>2. /\ Bodies(rows)[i].body = b
      /\ Bodies(rows)[i].excerpt = IF b = 0 THEN Summarize(s, SummaryLimit) ELSE 0
  BY DEF Bodies
<1>3. f = [j \in 0 .. Len(rows) |-> IF j = 0 THEN 0 ELSE f[j - 1] + BodyAfter(f[j - 1], rows[j])]
  BY SpentSumsUp DEF SumsUp
<1>4. i \in 0 .. Len(rows) /\ i - 1 \in 0 .. Len(rows) /\ i # 0
  BY <1>1
<1>5. f[i] \in Nat /\ f[i - 1] \in Nat
  BY <1>4, SpentIsBounded
<1> HIDE DEF f
<1>6. f[i] = f[i - 1] + BodyAfter(f[i - 1], rows[i])
  BY <1>3, <1>4
<1>7. s \in Nat \ {0} /\ BodyLimit \in Nat /\ SummaryLimit \in Nat
  BY <1>1, QueriesAssumption
<1>8. BodyAfter(f[i - 1], rows[i]) \in Nat
  BY <1>7 DEF BodyAfter, Summarize
<1> HIDE DEF s
<1>9. b \in Nat
  BY <1>5, <1>6, <1>8
<1>10. Summarize(s, SummaryLimit) > 0
  BY <1>7 DEF Summarize
<1> HIDE DEF b
<1>11. QED
  BY <1>2, <1>9, <1>10

--------------------------------------------------------------------------------
(* What a call may be                                                      *)

Stages == {"idle"} \union Searching \union Explaining \union Measuring

AnAnswer(a) ==
    /\ DOMAIN a = {"total", "wide", "rows", "terms", "reach", "empty", "through"}
    /\ a.wide \in BOOLEAN /\ a.total \in Nat /\ a.rows \in Seq(Row)

QueryTyped ==
    /\ index \in SUBSET Row /\ stayed \in SUBSET index
    /\ commits \in Nat /\ call.commits \in Nat /\ call.commits <= commits
    /\ DOMAIN call = {"at", "req", "ok", "answer", "lost", "commits", "op", "line", "booked"}
    /\ AnAnswer(call.answer)
    /\ call.at \in Stages
    /\ call.ok \in BOOLEAN /\ call.booked \in BOOLEAN
    /\ call.at = "idle" => call = Idle
    /\ call.at # "idle" => Asked(call.req)

LEMMA NoAnswerIsOne == AnAnswer(NoAnswer)
<1>1. <<>> \in Seq(Row)
  BY EmptySeq
<1>2. QED
  BY <1>1 DEF AnAnswer, NoAnswer

LEMMA MatchingRows ==
    ASSUME NEW rows \in SUBSET Row, NEW req, NEW wide
    PROVE  Matching(rows, req, wide) \in SUBSET Row /\ Matching(rows, req, wide) \in SUBSET rows
BY DEF Matching

LEMMA CountedIsANumber ==
    ASSUME NEW rows \in SUBSET Row, NEW req
    PROVE  Counted(req, rows) \in Nat /\ (Counted(req, rows) = 0 <=> rows = {})
<1>1. IsFiniteSet(rows) /\ Cardinality(rows) \in Nat
  BY RowsAreFinite
<1>2. Cardinality(rows) = 0 <=> rows = {}
  BY <1>1, FS_EmptySet
<1>3. LatestOf(rows) \in SUBSET rows /\ IsFiniteSet(LatestOf(rows))
      /\ Cardinality(LatestOf(rows)) = Cardinality(SessionsOf(rows))
  BY OneLatestEach
<1>4. Cardinality(LatestOf(rows)) \in Nat
      /\ (Cardinality(LatestOf(rows)) = 0 <=> LatestOf(rows) = {})
  BY <1>3, FS_CardinalityType, FS_EmptySet
<1>5. LatestOf(rows) = {} <=> rows = {}
  BY <1>3, ASessionHasALatest
<1>6. QED
  BY <1>1, <1>2, <1>3, <1>4, <1>5 DEF Counted

LEMMA SelectedAnswer ==
    ASSUME QueryTyped, call.at # "idle", NEW wide,
           NEW sel \in Selected(call.req, Matching(index, call.req, wide))
    PROVE  sel \in Seq(Row)
<1>1. Asked(call.req) /\ Matching(index, call.req, wide) \in SUBSET Row
  BY MatchingRows DEF QueryTyped
<1>2. sel \in Seq(Matching(index, call.req, wide))
  BY <1>1, SelectedReads
<1>3. QED
  BY <1>1, <1>2, SeqMonotonic

LEMMA QueryTypedInit == QueryInit => QueryTyped
<1> SUFFICES ASSUME QueryInit PROVE QueryTyped
  OBVIOUS
<1>1. AnAnswer(NoAnswer)
  BY NoAnswerIsOne
<1>2. QED
  BY <1>1 DEF QueryInit, QueryTyped, Idle, Stages

LEMMA GoTyped ==
    ASSUME QueryTyped, call.at # "idle", NEW at \in Stages \ {"idle"}, NEW answer,
           AnAnswer(answer), Go(at, answer)
    PROVE  QueryTyped'
BY DEF QueryTyped, Go

LEMMA FailsTyped ==
    ASSUME QueryTyped, call.at # "idle", NEW next, Fails(next),
           NEW at \in Stages \ {"idle"}, next = Error \/ next = [call EXCEPT !.at = at]
    PROVE  QueryTyped'
<1>1. CASE next = Error
  BY <1>1, NoAnswerIsOne DEF QueryTyped, Fails, Error, Stages, Measuring
<1>2. CASE next = [call EXCEPT !.at = at]
  BY <1>2 DEF QueryTyped, Fails, Stages
<1>3. QED
  BY <1>1, <1>2

LEMMA BeginTyped ==
    ASSUME QueryTyped, NEW req, Asked(req), Begin(req)
    PROVE  QueryTyped'
<1>1. AnAnswer(NoAnswer)
  BY NoAnswerIsOne
<1>2. call' = [Idle EXCEPT !.at = "count", !.req = req, !.commits = commits]
      /\ stayed' = index /\ index' = index /\ commits' = commits
  BY DEF Begin
<1>3. QED
  BY <1>1, <1>2 DEF QueryTyped, Idle, Stages, Searching

(* A call begins as one of the tools.                                      *)
Begins ==
    \/ CallRecentSessions \/ CallRecentCommits \/ CallFindSession \/ CallFindCommit
    \/ CallFindMemory \/ CallFindDesignDoc \/ CallFindCode

LEMMA ACallIsAsked ==
    ASSUME QueryTyped, Begins
    PROVE  \E req : Asked(req) /\ Begin(req) /\ call.at = "idle"
<1>1. ASSUME NEW tool \in {"recent_sessions", "recent_commits"}, NEW f, NEW p, NEW l \in Limits
      PROVE  Asked(Recent(tool, f, p, l))
  BY DEF Asked, Recent, Tools
<1>2. ASSUME NEW tool \in Tools \ {"recent_sessions", "recent_commits"},
             NEW q, NEW p, NEW l \in Limits
      PROVE  Asked(Find(tool, q, p, l))
  BY DEF Asked, Find
<1>3. CASE CallRecentSessions
  BY <1>1, <1>3 DEF CallRecentSessions
<1>4. CASE CallRecentCommits
  BY <1>1, <1>4 DEF CallRecentCommits
<1>5. CASE CallFindSession
  BY <1>2, <1>5 DEF CallFindSession, Tools
<1>6. CASE CallFindCommit
  BY <1>2, <1>6 DEF CallFindCommit, Tools
<1>7. CASE CallFindMemory
  BY <1>2, <1>7 DEF CallFindMemory, Tools
<1>8. CASE CallFindDesignDoc
  BY <1>2, <1>8 DEF CallFindDesignDoc, Tools
<1>9. CASE CallFindCode
  BY <1>2, <1>9 DEF CallFindCode, Tools
<1>10. QED
  BY <1>3, <1>4, <1>5, <1>6, <1>7, <1>8, <1>9 DEF Begins

LEMMA QueryTypedStep == QueryTyped /\ [QueryNext]_queryVars => QueryTyped'
<1> SUFFICES ASSUME QueryTyped, [QueryNext]_queryVars PROVE QueryTyped'
  OBVIOUS
<1>1. CASE Begins
  BY <1>1, ACallIsAsked, BeginTyped
<1>2. CASE Commit
  BY <1>2 DEF Commit, QueryTyped
<1>3. CASE Refuse
  BY <1>3, NoAnswerIsOne DEF Refuse, Error, QueryTyped, Stages, Measuring
<1>4. CASE Count
  <2> DEFINE total == Counted(call.req, Matching(index, call.req, FALSE))
             at == IF Broadens(call.req, total) THEN "retry" ELSE "select"
  <2>1. call.at # "idle" /\ AnAnswer(call.answer)
    BY <1>4 DEF Count, QueryTyped
  <2>2. total \in Nat
    BY MatchingRows, CountedIsANumber DEF QueryTyped
  <2> HIDE DEF total
  <2>3. AnAnswer([call.answer EXCEPT !.total = total])
    BY <2>1, <2>2 DEF AnAnswer
  <2>4. at \in Stages \ {"idle"} /\ "select" \in Stages \ {"idle"}
    BY DEF Stages, Searching
  <2>5. Go(at, [call.answer EXCEPT !.total = total]) \/ Fails(Error)
    BY <1>4 DEF Count, total
  <2> HIDE DEF at
  <2>6. QED
    BY <2>1, <2>3, <2>4, <2>5, GoTyped, FailsTyped
<1>5. CASE Retry
  <2> DEFINE total == Cardinality(Matching(index, call.req, TRUE))
             answer == IF total = 0 THEN call.answer
                       ELSE [call.answer EXCEPT !.total = total, !.wide = TRUE]
  <2>1. call.at # "idle" /\ AnAnswer(call.answer)
    BY <1>5 DEF Retry, QueryTyped
  <2>2. total \in Nat
    BY MatchingRows, RowsAreFinite DEF QueryTyped
  <2> HIDE DEF total
  <2>3. AnAnswer(answer)
    BY <2>1, <2>2 DEF AnAnswer
  <2>4. "select" \in Stages \ {"idle"}
    BY DEF Stages, Searching
  <2>5. Go("select", answer) \/ Fails(Error)
    BY <1>5 DEF Retry, total
  <2> HIDE DEF answer
  <2>6. QED
    BY <2>1, <2>3, <2>4, <2>5, GoTyped, FailsTyped
<1>6. CASE Select
  <2> DEFINE at == IF Advised(call.req) THEN "advise" ELSE "diagnose"
  <2>1. call.at # "idle" /\ AnAnswer(call.answer)
    BY <1>6 DEF Select, QueryTyped
  <2>2. at \in Stages \ {"idle"}
    BY DEF Stages, Explaining
  <2>3. CASE Fails(Error)
    BY <2>1, <2>2, <2>3, FailsTyped
  <2>4. ASSUME NEW rows \in Selected(call.req, Matching(index, call.req, call.answer.wide)),
               Go(at, [call.answer EXCEPT !.rows = rows, !.reach = call.answer.total])
        PROVE  QueryTyped'
    <3>1. rows \in Seq(Row)
      BY <2>1, SelectedAnswer
    <3>2. AnAnswer([call.answer EXCEPT !.rows = rows, !.reach = call.answer.total])
      BY <2>1, <3>1 DEF AnAnswer
    <3> HIDE DEF at
    <3>3. QED
      BY <2>1, <2>2, <2>4, <3>2, GoTyped
  <2>5. QED
    BY <1>6, <2>3, <2>4 DEF Select
<1>7. CASE Advise
  <2>1. call.at # "idle" /\ AnAnswer(call.answer) /\ "diagnose" \in Stages \ {"idle"}
    BY <1>7 DEF Advise, QueryTyped, Stages, Explaining
  <2>2. \A terms, reach : AnAnswer([call.answer EXCEPT !.terms = terms, !.reach = reach])
    BY <2>1 DEF AnAnswer
  <2>3. \/ \E answer : AnAnswer(answer) /\ Go("diagnose", answer)
        \/ Fails([call EXCEPT !.at = "diagnose"])
    BY <1>7, <2>1, <2>2 DEF Advise
  <2>4. QED
    BY <2>1, <2>3, GoTyped, FailsTyped
<1>8. CASE Diagnose
  <2>1. call.at # "idle" /\ AnAnswer(call.answer) /\ {"measure", "newest"} \subseteq Stages \ {"idle"}
    BY <1>8 DEF Diagnose, QueryTyped, Stages, Explaining, Measuring
  <2>2. \A empty : AnAnswer([call.answer EXCEPT !.empty = empty])
    BY <2>1 DEF AnAnswer
  <2>3. \/ \E answer, at : at \in {"measure", "newest"} /\ AnAnswer(answer) /\ Go(at, answer)
        \/ Fails([call EXCEPT !.at = "measure"])
    BY <1>8, <2>1, <2>2 DEF Diagnose
  <2>4. QED
    BY <2>1, <2>3, GoTyped, FailsTyped
<1>9. CASE Newest
  <2>1. call.at # "idle" /\ AnAnswer(call.answer) /\ "measure" \in Stages \ {"idle"}
    BY <1>9 DEF Newest, QueryTyped, Stages, Measuring
  <2>2. \A through : AnAnswer([call.answer EXCEPT !.through = through])
    BY <2>1 DEF AnAnswer
  <2>3. \/ \E answer : AnAnswer(answer) /\ Go("measure", answer)
        \/ Fails([call EXCEPT !.at = "measure"])
    BY <1>9, <2>1, <2>2 DEF Newest
  <2>4. QED
    BY <2>1, <2>3, GoTyped, FailsTyped
<1>10. CASE Measure
  <2>1. call.at # "idle" /\ "emit" \in Stages \ {"idle"}
    BY <1>10 DEF Measure, Stages, Measuring
  <2>2. CASE Fails([call EXCEPT !.at = "emit"])
    BY <2>1, <2>2, FailsTyped
  <2>3. QED
    BY <1>10, <2>1, <2>2 DEF Measure, QueryTyped
<1>11. CASE Emit
  <2>1. call.at # "idle" /\ AfterEmit(call) \in Stages \ {"idle"}
    BY <1>11 DEF Emit, Stages, Measuring, AfterEmit
  <2>2. CASE Fails([call EXCEPT !.at = AfterEmit(call)])
    BY <2>1, <2>2, FailsTyped
  <2>3. QED
    BY <1>11, <2>1, <2>2 DEF Emit, QueryTyped
<1>12. CASE Book
  <2>1. call.at # "idle" /\ "done" \in Stages \ {"idle"}
    BY <1>12 DEF Book, Stages, Measuring
  <2>2. CASE Fails([call EXCEPT !.at = "done"])
    BY <2>1, <2>2, FailsTyped
  <2>3. QED
    BY <1>12, <2>1, <2>2 DEF Book, QueryTyped
<1>13. CASE UNCHANGED queryVars
  BY <1>13 DEF queryVars, QueryTyped
<1>14. QED
  BY <1>1, <1>2, <1>3, <1>4, <1>5, <1>6, <1>7, <1>8, <1>9, <1>10, <1>11, <1>12, <1>13
     DEF QueryNext, Step, Begins

--------------------------------------------------------------------------------
(* What a step leaves as it was                                            *)

Rest == <<call.req, call.commits, call.op, call.line, call.booked>>
Outside == <<index, stayed, commits>>

LEMMA GoSets ==
    ASSUME QueryTyped, NEW at, NEW answer, Go(at, answer)
    PROVE  /\ call'.at = at /\ call'.answer = answer
           /\ call'.ok = call.ok /\ call'.lost = call.lost /\ UNCHANGED <<Rest, Outside>>
BY DEF QueryTyped, Go, Rest, Outside

LEMMA FailsSets ==
    ASSUME QueryTyped, NEW at, Fails([call EXCEPT !.at = at])
    PROVE  /\ call'.at = at /\ call'.answer = call.answer
           /\ call'.ok = call.ok /\ call'.lost = call.lost \union {call.at}
           /\ UNCHANGED <<Rest, Outside>>
BY DEF QueryTyped, Fails, Rest, Outside

LEMMA FailsErrorSets ==
    ASSUME QueryTyped, Fails(Error)
    PROVE  /\ call'.at = "measure" /\ call'.answer = NoAnswer
           /\ call'.ok = FALSE /\ call'.lost = call.lost \union {call.at}
           /\ UNCHANGED <<Rest, Outside>>
BY DEF QueryTyped, Fails, Error, Rest, Outside

LEMMA BeginSets ==
    ASSUME QueryTyped, NEW req, Begin(req)
    PROVE  /\ call'.at = "count" /\ call'.answer = NoAnswer /\ call'.req = req
           /\ call'.ok = TRUE /\ call'.lost = {} /\ call'.commits = commits
           /\ call'.op = Nothing /\ call'.line = Nothing /\ call'.booked = FALSE
           /\ stayed' = index /\ UNCHANGED <<index, commits>>
BY DEF QueryTyped, Begin, Idle

LEMMA RefuseSets ==
    ASSUME QueryTyped, Refuse
    PROVE  /\ call'.at = "measure" /\ call'.answer = NoAnswer
           /\ call'.ok = FALSE /\ call'.lost = call.lost
           /\ UNCHANGED <<Rest, Outside>>
BY DEF QueryTyped, Refuse, Error, Rest, Outside

(* The steps of a call that has not failed, by where they go and what they *)
(* say                                                                     *)
Says(at, to, answer) ==
    /\ call.at = at /\ call'.at = to /\ call'.answer = answer
    /\ call'.ok = call.ok /\ call'.lost = call.lost /\ UNCHANGED <<Rest, Outside>>

Errs(at) ==
    /\ call.at = at /\ call'.at = "measure" /\ call'.answer = NoAnswer
    /\ call'.ok = FALSE /\ call'.lost = call.lost \union {call.at}
    /\ UNCHANGED <<Rest, Outside>>

Misses(at, to) ==
    /\ call.at = at /\ call'.at = to /\ call'.answer = call.answer
    /\ call'.ok = call.ok /\ call'.lost = call.lost \union {call.at}
    /\ UNCHANGED <<Rest, Outside>>

CountOfCall == Counted(call.req, Matching(index, call.req, FALSE))
RetryOfCall == Cardinality(Matching(index, call.req, TRUE))

LEMMA CountSays ==
    ASSUME QueryTyped, Count
    PROVE  /\ ~Refused(call.req)
           /\ \/ Says("count", IF Broadens(call.req, CountOfCall) THEN "retry" ELSE "select",
                      [call.answer EXCEPT !.total = CountOfCall])
              \/ Errs("count")
BY GoSets, FailsErrorSets DEF Count, Says, Errs, CountOfCall

LEMMA RetrySays ==
    ASSUME QueryTyped, Retry
    PROVE  \/ Says("retry", "select", IF RetryOfCall = 0 THEN call.answer
                       ELSE [call.answer EXCEPT !.total = RetryOfCall, !.wide = TRUE])
           \/ Errs("retry")
BY GoSets, FailsErrorSets DEF Retry, Says, Errs, RetryOfCall

LEMMA SelectSays ==
    ASSUME QueryTyped, Select
    PROVE  \/ \E rows \in Selected(call.req, Matching(index, call.req, call.answer.wide)) :
                 Says("select", IF Advised(call.req) THEN "advise" ELSE "diagnose",
                      [call.answer EXCEPT !.rows = rows, !.reach = call.answer.total])
           \/ Errs("select")
BY GoSets, FailsErrorSets DEF Select, Says, Errs

LEMMA AdviseSays ==
    ASSUME QueryTyped, Advise
    PROVE  \/ \E terms, reach :
                 Says("advise", "diagnose", [call.answer EXCEPT !.terms = terms, !.reach = reach])
           \/ Says("advise", "diagnose", call.answer)
           \/ Misses("advise", "diagnose")
BY GoSets, FailsSets DEF Advise, Says, Misses

LEMMA DiagnoseSays ==
    ASSUME QueryTyped, Diagnose
    PROVE  \/ call.answer.total # 0 /\ Says("diagnose", "measure", call.answer)
           \/ /\ call.answer.total = 0
              /\ Says("diagnose", IF index = {} THEN "measure" ELSE "newest",
                      [call.answer EXCEPT !.empty = (index = {})])
           \/ call.answer.total = 0 /\ Misses("diagnose", "measure")
BY GoSets, FailsSets DEF Diagnose, Says, Misses

LEMMA NewestSays ==
    ASSUME QueryTyped, Newest
    PROVE  \/ Says("newest", "measure",
                   [call.answer EXCEPT !.through =
                       IF index = {} THEN Nothing ELSE Max({Time[r] : r \in index})])
           \/ Misses("newest", "measure")
BY GoSets, FailsSets DEF Newest, Says, Misses

LEMMA MeasureSays ==
    ASSUME QueryTyped, Measure
    PROVE  \/ /\ call.at = "measure" /\ call'.at = "emit"
              /\ call'.op = (IF call.ok THEN "ok" ELSE "error")
              /\ UNCHANGED <<call.answer, call.ok, call.lost, call.req, call.commits,
                             call.line, call.booked, Outside>>
           \/ Misses("measure", "emit")
<1>1. CASE Fails([call EXCEPT !.at = "emit"])
  BY <1>1, FailsSets DEF Measure, Misses
<1>2. CASE /\ call' = [call EXCEPT !.at = "emit", !.op = IF call.ok THEN "ok" ELSE "error"]
           /\ UNCHANGED <<index, stayed, commits, faults>>
  BY <1>2 DEF Measure, QueryTyped, Outside
<1>3. QED
  BY <1>1, <1>2 DEF Measure

LEMMA EmitSays ==
    ASSUME QueryTyped, Emit
    PROVE  \/ /\ call.at = "emit" /\ call'.at = AfterEmit(call)
              /\ call'.line = (IF call.ok THEN Emitted(call) ELSE EmittedError)
              /\ UNCHANGED <<call.answer, call.ok, call.lost, call.req, call.commits,
                             call.op, call.booked, Outside>>
           \/ Misses("emit", AfterEmit(call))
<1>1. CASE Fails([call EXCEPT !.at = AfterEmit(call)])
  BY <1>1, FailsSets DEF Emit, Misses
<1>2. CASE /\ call' = [call EXCEPT !.at = AfterEmit(call),
                                   !.line = IF call.ok THEN Emitted(call) ELSE EmittedError]
           /\ UNCHANGED <<index, stayed, commits, faults>>
  BY <1>2 DEF Emit, QueryTyped, Outside
<1>3. QED
  BY <1>1, <1>2 DEF Emit

LEMMA BookSays ==
    ASSUME QueryTyped, Book
    PROVE  \/ /\ call.at = "book" /\ call'.at = "done" /\ call'.booked = TRUE
              /\ UNCHANGED <<call.answer, call.ok, call.lost, call.req, call.commits,
                             call.op, call.line, Outside>>
           \/ Misses("book", "done")
<1>1. CASE Fails([call EXCEPT !.at = "done"])
  BY <1>1, FailsSets DEF Book, Misses
<1>2. CASE /\ call' = [call EXCEPT !.at = "done", !.booked = TRUE]
           /\ UNCHANGED <<index, stayed, commits, faults>>
  BY <1>2 DEF Book, QueryTyped, Outside
<1>3. QED
  BY <1>1, <1>2 DEF Book

--------------------------------------------------------------------------------
(* The measurements                                                        *)

(* A step that searches or explains is of a call that has not failed; one  *)
(* that measures says of the call what is so.                              *)
Measured ==
    /\ call.at \in Searching \union Explaining =>
           /\ call.ok /\ call.lost \intersect Searching = {}
           /\ call.op = Nothing /\ call.line = Nothing /\ ~call.booked
    /\ call.at \in {"retry", "select"} \union Explaining => ~Refused(call.req)
    /\ call.at \in Measuring =>
           /\ call.ok <=> ~Refused(call.req) /\ call.lost \intersect Searching = {}
           /\ ~call.ok => call.answer = NoAnswer
           /\ call.op # Nothing => (call.op = "ok" <=> call.ok)
           /\ call.line # Nothing =>
                  /\ call.line.outcome = "ok" <=> call.ok
                  /\ call.line.returned = Len(Shown)
           /\ call.booked => call.ok /\ (call.line # Nothing \/ "emit" \in call.lost)
    /\ call.at = "measure" => call.op = Nothing
    /\ call.at \in {"measure", "emit"} => call.line = Nothing /\ ~call.booked
    /\ call.at = "book" => call.ok /\ (call.line # Nothing \/ "emit" \in call.lost)

LEMMA MeasuredInit == QueryInit => Measured
BY DEF QueryInit, Idle, Measured, Searching, Explaining, Measuring

(* A line counts what is shown.                                            *)
LEMMA LineCounts ==
    ASSUME QueryTyped, call.at = "emit", Measured
    PROVE  LET line == IF call.ok THEN Emitted(call) ELSE EmittedError
           IN /\ line.outcome = "ok" <=> call.ok
              /\ line.returned = Len(Shown)
              /\ call.ok => line # Nothing
<1>1. Asked(call.req) /\ call.answer.rows \in Seq(Row)
  BY DEF QueryTyped, AnAnswer
<1>2. CASE call.ok
  <2>1. /\ Emitted(call).outcome = "ok"
        /\ Emitted(call).returned = HeadLength(call.req, call.answer.rows)
    BY DEF Emitted
  <2>2. /\ HeadLength(call.req, call.answer.rows) \in Nat
        /\ HeadLength(call.req, call.answer.rows) = Len(Shown)
    BY <1>1, ShownRows DEF Shown
  <2>3. call.answer.total \in Nat /\ call.answer.wide \in BOOLEAN
    BY DEF QueryTyped, AnAnswer
  <2>4. Emitted(call) \in [outcome : {"ok", "error"}, returned : Nat, fts : Nat,
                           broadened : BOOLEAN \union {Nothing}]
    BY <2>2, <2>3 DEF Emitted
  <2>5. Emitted(call) # Nothing
    BY <2>4, QueriesAssumption
  <2>6. QED
    BY <1>2, <2>1, <2>2, <2>5
<1>3. CASE ~call.ok
  <2>1. call.answer.rows = <<>>
    BY <1>3 DEF Measured, Measuring, NoAnswer
  <2>2. Len(Shown) = 0
    <3>1. Limit(call.req.limit) \in Nat \ {0}
      BY <1>1, LimitsAreNumbers
    <3>2. Len(<<>>) = 0 /\ <<>> \in Seq(Row)
      BY EmptySeq
    <3>3. Len(First(<<>>, Limit(call.req.limit))) = IF Limit(call.req.limit) <= 0 THEN Limit(call.req.limit) ELSE 0
      BY <3>1, <3>2, FirstOf
    <3>4. QED
      BY <2>1, <3>1, <3>3 DEF Shown
  <2>3. QED
    BY <1>3, <2>2 DEF EmittedError
<1>4. QED
  BY <1>2, <1>3

LEMMA MeasuredStep == QueryTyped /\ Measured /\ [QueryNext]_queryVars => Measured'
<1> SUFFICES ASSUME QueryTyped, Measured, [QueryNext]_queryVars PROVE Measured'
  OBVIOUS
<1> USE DEF Searching, Explaining, Measuring
<1>1. CASE Begins
  <2>1. PICK req : Begin(req)
    BY <1>1, ACallIsAsked
  <2>2. QED
    BY <2>1, BeginSets DEF Measured
<1>2. CASE Commit
  BY <1>2 DEF Commit, Measured, Shown
<1>3. CASE Refuse
  <2>1. call.at = "count" /\ Refused(call.req)
    BY <1>3 DEF Refuse
  <2>2. QED
    BY <1>3, <2>1, RefuseSets DEF Measured, Rest
<1>4. CASE Count
  BY <1>4, CountSays DEF Says, Errs, Measured, Rest
<1>5. CASE Retry
  BY <1>5, RetrySays DEF Says, Errs, Measured, Rest
<1>6. CASE Select
  BY <1>6, SelectSays DEF Says, Errs, Measured, Rest
<1>7. CASE Advise
  BY <1>7, AdviseSays DEF Says, Misses, Measured, Rest
<1>8. CASE Diagnose
  BY <1>8, DiagnoseSays DEF Says, Misses, Measured, Rest
<1>9. CASE Newest
  BY <1>9, NewestSays DEF Says, Misses, Measured, Rest
<1>10. CASE Measure
  BY <1>10, MeasureSays DEF Misses, Measured, Rest, Shown
<1>11. CASE Emit
  <2>1. CASE Misses("emit", AfterEmit(call))
    BY <2>1 DEF Misses, Measured, Rest, Shown, AfterEmit
  <2>2. CASE /\ call.at = "emit" /\ call'.at = AfterEmit(call)
             /\ call'.line = (IF call.ok THEN Emitted(call) ELSE EmittedError)
             /\ UNCHANGED <<call.answer, call.ok, call.lost, call.req, call.commits,
                            call.op, call.booked, Outside>>
    <3>1. /\ call'.line.outcome = "ok" <=> call.ok
          /\ call'.line.returned = Len(Shown)
          /\ call.ok => call'.line # Nothing
      BY <2>2, LineCounts
    <3>2. Shown' = Shown
      BY <2>2 DEF Shown
    <3>3. QED
      BY <2>2, <3>1, <3>2 DEF Measured, AfterEmit
  <2>3. QED
    BY <1>11, <2>1, <2>2, EmitSays
<1>12. CASE Book
  BY <1>12, BookSays DEF Misses, Measured, Rest, Shown
<1>13. CASE UNCHANGED queryVars
  BY <1>13 DEF queryVars, Measured, Shown
<1>14. QED
  BY <1>1, <1>2, <1>3, <1>4, <1>5, <1>6, <1>7, <1>8, <1>9, <1>10, <1>11, <1>12, <1>13
     DEF QueryNext, Step, Begins

--------------------------------------------------------------------------------
(* A call that nothing disturbs                                            *)

Unsaid(a) == a.total = 0 /\ a.wide = FALSE /\ a.empty = Nothing /\ a.through = Nothing

(* What an answer says before it has rows                                  *)
Begun ==
    /\ call.at \in {"count", "retry"} => Unsaid(call.answer)
    /\ call.at = "retry" => ~call.req.recent
    /\ call.at \in {"select", "advise", "diagnose"} =>
           call.answer.empty = Nothing /\ call.answer.through = Nothing
    /\ call.answer.wide => ~call.req.recent

LEMMA BegunInit == QueryInit => Begun
BY DEF QueryInit, Idle, NoAnswer, Begun, Unsaid

LEMMA BegunStep == QueryTyped /\ Begun /\ [QueryNext]_queryVars => Begun'
<1> SUFFICES ASSUME QueryTyped, Begun, [QueryNext]_queryVars PROVE Begun'
  OBVIOUS
<1>0. /\ DOMAIN call.answer = {"total", "wide", "rows", "terms", "reach", "empty", "through"}
      /\ Unsaid(NoAnswer) /\ NoAnswer.wide = FALSE
  BY DEF QueryTyped, AnAnswer, NoAnswer, Unsaid
<1>1. CASE Begins
  <2>1. PICK req : Begin(req)
    BY <1>1, ACallIsAsked
  <2>2. QED
    BY <1>0, <2>1, BeginSets DEF Begun
<1>2. CASE Commit
  BY <1>2 DEF Commit, Begun
<1>3. CASE Refuse
  BY <1>0, <1>3, RefuseSets DEF Begun
<1>4. CASE Count
  <2>1. CASE Errs("count")
    BY <1>0, <2>1 DEF Errs, Begun
  <2>2. CASE Says("count", IF Broadens(call.req, CountOfCall) THEN "retry" ELSE "select",
                  [call.answer EXCEPT !.total = CountOfCall])
    <3>1. /\ Unsaid(call.answer) /\ call'.answer = [call.answer EXCEPT !.total = CountOfCall]
          /\ call'.req = call.req
      BY <2>2 DEF Says, Begun, Rest
    <3>2. CASE Broadens(call.req, CountOfCall)
      <4>1. CountOfCall = 0 /\ ~call.req.recent
        BY <3>2 DEF Broadens
      <4>2. Unsaid(call'.answer) /\ call'.at = "retry"
        BY <1>0, <2>2, <3>1, <3>2, <4>1 DEF Says, Unsaid
      <4>3. QED
        BY <1>0, <3>1, <4>1, <4>2 DEF Begun, Unsaid
    <3>3. CASE ~Broadens(call.req, CountOfCall)
      BY <1>0, <2>2, <3>1, <3>3 DEF Says, Begun, Unsaid
    <3>4. QED
      BY <3>2, <3>3
  <2>3. QED
    BY <1>4, <2>1, <2>2, CountSays
<1>5. CASE Retry
  BY <1>0, <1>5, RetrySays DEF Says, Errs, Begun, Rest, Unsaid
<1>6. CASE Select
  BY <1>0, <1>6, SelectSays DEF Says, Errs, Begun, Rest
<1>7. CASE Advise
  BY <1>0, <1>7, AdviseSays DEF Says, Misses, Begun, Rest
<1>8. CASE Diagnose
  BY <1>0, <1>8, DiagnoseSays DEF Says, Misses, Begun, Rest
<1>9. CASE Newest
  BY <1>0, <1>9, NewestSays DEF Says, Misses, Begun, Rest
<1>10. CASE Measure
  BY <1>10, MeasureSays DEF Misses, Begun, Rest
<1>11. CASE Emit
  BY <1>11, EmitSays DEF Misses, Begun, Rest, AfterEmit
<1>12. CASE Book
  BY <1>12, BookSays DEF Misses, Begun, Rest
<1>13. CASE UNCHANGED queryVars
  BY <1>13 DEF queryVars, Begun
<1>14. QED
  BY <1>1, <1>2, <1>3, <1>4, <1>5, <1>6, <1>7, <1>8, <1>9, <1>10, <1>11, <1>12, <1>13
     DEF QueryNext, Step, Begins

(* While nothing is committed and nothing fails, what was counted is there.*)
Quiet ==
    call.commits = commits /\ call.lost = {} =>
        /\ call.at = "retry" => Matching(index, call.req, FALSE) = {}
        /\ call.at \in {"select"} \union Explaining \union Measuring /\ call.ok =>
               call.answer.total = Counted(call.req, Matching(index, call.req, call.answer.wide))
        /\ call.at \in Explaining \union Measuring /\ call.ok =>
               Len(Shown) = Min({call.answer.total, Limit(call.req.limit)})
        /\ call.at = "newest" =>
               /\ call.answer.total = 0 /\ index # {}
               /\ call.answer.empty = FALSE /\ call.answer.through = Nothing
        /\ call.at \in Measuring /\ call.ok =>
               /\ call.answer.total = 0 <=> call.answer.empty # Nothing
               /\ call.answer.empty = TRUE <=> index = {}
               /\ call.answer.empty = FALSE <=> call.answer.through # Nothing

LEMMA ALatestTime ==
    ASSUME NEW S \in SUBSET Row, S # {}
    PROVE  Max({Time[r] : r \in S}) \in Int
<1> DEFINE q == InOrder(S, ByTime)
           T == {Time[r] : r \in S}
<1>1. /\ Cardinality(S) \in Nat /\ IsFiniteSet(S)
      /\ \A r \in S : \E i \in 1 .. Cardinality(S) : q[i] = r
      /\ \A i \in 1 .. Cardinality(S) : q[i] \in S
      /\ \A i, j \in 1 .. Cardinality(S) : i < j => <<q[i], q[j]>> \in ByTime
  <2>1. IsFiniteSet(S) /\ Cardinality(S) \in Nat /\ Orders(S, ByTime)
    BY RowsAreFinite, RowsAreOrdered
  <2>2. QED
    BY <2>1, InOrderLists
<1> HIDE DEF q
<1>2. 1 \in 1 .. Cardinality(S)
  BY <1>1
<1>3. \A r \in S : Time[q[1]] >= Time[r] /\ Time[r] \in Int
  <2> TAKE r \in S
  <2>1. PICK i \in 1 .. Cardinality(S) : q[i] = r
    BY <1>1
  <2>2. i = 1 \/ <<q[1], q[i]>> \in ByTime
    BY <1>1, <1>2
  <2>3. Time[r] \in Int /\ Time[q[1]] \in Int
    BY <1>1, <1>2, QueriesAssumption
  <2>4. i = 1 \/ Time[q[1]] > Time[r] \/ Time[q[1]] = Time[r]
    BY <2>1, <2>2 DEF ByTime
  <2>5. QED
    BY <2>1, <2>3, <2>4
<1>4. \E m \in T : \A y \in T : m >= y
  BY <1>1, <1>2, <1>3
<1>5. Max(T) \in T
  <2> HIDE DEF T
  <2>1. QED
    BY <1>4 DEF Max
<1>6. QED
  BY <1>3, <1>5

LEMMA QuietInit == QueryInit => Quiet
BY DEF QueryInit, Idle, Quiet, Explaining, Measuring

(* The conjuncts of Quiet that a step keeps when it changes no rows        *)
LEMMA QuietSelect ==
    ASSUME QueryTyped, Begun, Measured, Quiet, Select
    PROVE  Quiet'
<1> USE DEF Explaining, Measuring
<1>1. CASE Errs("select")
  BY <1>1 DEF Errs, Quiet
<1>2. ASSUME NEW rows \in Selected(call.req, Matching(index, call.req, call.answer.wide)),
             Says("select", IF Advised(call.req) THEN "advise" ELSE "diagnose",
                  [call.answer EXCEPT !.rows = rows, !.reach = call.answer.total])
      PROVE  Quiet'
  <2> DEFINE M == Matching(index, call.req, call.answer.wide)
  <2>1. SUFFICES ASSUME call.commits = commits, call.lost = {} PROVE Quiet'
    BY <1>2 DEF Quiet, Says, Rest, Outside
  <2>2. Asked(call.req) /\ M \in SUBSET Row
    BY <1>2, MatchingRows DEF QueryTyped, Says
  <2>3. call.ok /\ call.at = "select"
    BY <1>2 DEF Says, Measured, Searching
  <2>4. call.answer.total = Counted(call.req, M)
    BY <2>1, <2>3 DEF Quiet
  <2>5. Len(First(rows, Limit(call.req.limit))) = Min({Counted(call.req, M), Limit(call.req.limit)})
    BY <1>2, <2>2, SelectedReads
  <2>6. /\ call'.at \in {"advise", "diagnose"} /\ call'.req = call.req
        /\ call'.answer.rows = rows /\ call'.answer.total = call.answer.total
        /\ call'.answer.wide = call.answer.wide /\ index' = index
    BY <1>2 DEF Says, Rest, Outside, QueryTyped, AnAnswer
  <2>7. Len(Shown)' = Min({call.answer.total, Limit(call.req.limit)})
    BY <2>4, <2>5, <2>6 DEF Shown
  <2>8. (call.answer.total = Counted(call.req, Matching(index, call.req, call.answer.wide)))'
    BY <2>4, <2>6
  <2>9. QED
    BY <2>6, <2>7, <2>8 DEF Quiet
<1>3. QED
  BY <1>1, <1>2, SelectSays

LEMMA QuietStep ==
    QueryTyped /\ Measured /\ Begun /\ Quiet /\ [QueryNext]_queryVars => Quiet'
<1> SUFFICES ASSUME QueryTyped, Measured, Begun, Quiet, [QueryNext]_queryVars PROVE Quiet'
  OBVIOUS
<1> USE DEF Explaining, Measuring
<1>0. /\ DOMAIN call.answer = {"total", "wide", "rows", "terms", "reach", "empty", "through"}
      /\ NoAnswer.wide = FALSE /\ NoAnswer.total = 0
      /\ DOMAIN NoAnswer = DOMAIN call.answer
  BY DEF QueryTyped, AnAnswer, NoAnswer
<1>1. CASE Begins
  <2>1. PICK req : Begin(req)
    BY <1>1, ACallIsAsked
  <2>2. QED
    BY <2>1, BeginSets DEF Quiet
<1>2. CASE Commit
  <2>1. call'.commits # commits'
    BY <1>2 DEF Commit, QueryTyped
  <2>2. QED
    BY <2>1 DEF Quiet
<1>3. CASE Refuse
  BY <1>3, RefuseSets DEF Quiet
<1>4. CASE Count
  <2>1. CASE Errs("count")
    BY <2>1 DEF Errs, Quiet
  <2>2. CASE Says("count", IF Broadens(call.req, CountOfCall) THEN "retry" ELSE "select",
                  [call.answer EXCEPT !.total = CountOfCall])
    <3>1. /\ call'.answer.total = CountOfCall /\ call'.answer.wide = FALSE
          /\ call'.req = call.req /\ index' = index
      BY <1>0, <2>2 DEF Says, Begun, Rest, Outside, Unsaid
    <3>2. CASE Broadens(call.req, CountOfCall)
      <4>1. CountOfCall = 0 /\ call'.at = "retry"
        BY <2>2, <3>2 DEF Broadens, Says
      <4>2. Matching(index, call.req, FALSE) = {}
        BY <4>1, MatchingRows, CountedIsANumber DEF CountOfCall, QueryTyped
      <4>3. QED
        BY <3>1, <4>1, <4>2 DEF Quiet
    <3>3. CASE ~Broadens(call.req, CountOfCall)
      <4>1. call'.at = "select"
        BY <2>2, <3>3 DEF Says
      <4>2. QED
        BY <3>1, <4>1 DEF Quiet, CountOfCall
    <3>4. QED
      BY <3>2, <3>3
  <2>3. QED
    BY <1>4, <2>1, <2>2, CountSays
<1>5. CASE Retry
  <2>1. CASE Errs("retry")
    BY <2>1 DEF Errs, Quiet
  <2>2. CASE Says("retry", "select", IF RetryOfCall = 0 THEN call.answer
                       ELSE [call.answer EXCEPT !.total = RetryOfCall, !.wide = TRUE])
    <3>1. /\ call'.at = "select" /\ call'.req = call.req /\ index' = index
          /\ Unsaid(call.answer)
      BY <2>2 DEF Says, Begun, Rest, Outside
    <3>2. CASE RetryOfCall = 0
      <4>1. call'.answer.total = 0 /\ call'.answer.wide = FALSE
        BY <1>0, <2>2, <3>1, <3>2 DEF Says, Unsaid
      <4>2. call.commits = commits /\ call.lost = {} => Matching(index, call.req, FALSE) = {}
        BY <2>2 DEF Quiet, Says
      <4>3. Counted(call.req, {}) = 0
        BY CountedIsANumber
      <4>4. call'.commits = call.commits /\ commits' = commits /\ call'.lost = call.lost
        BY <2>2 DEF Says, Rest, Outside
      <4>5. QED
        BY <3>1, <4>1, <4>2, <4>3, <4>4 DEF Quiet
    <3>3. CASE RetryOfCall # 0
      <4>1. call'.answer.total = RetryOfCall /\ call'.answer.wide = TRUE
        BY <1>0, <2>2, <3>1, <3>3 DEF Says
      <4>2. call.req.tool # "recent_sessions"
        BY <2>2 DEF Says, Begun, QueryTyped, Asked
      <4>3. RetryOfCall = Counted(call.req, Matching(index, call.req, TRUE))
        BY <4>2 DEF RetryOfCall, Counted
      <4>4. QED
        BY <3>1, <4>1, <4>3 DEF Quiet
    <3>4. QED
      BY <3>2, <3>3
  <2>3. QED
    BY <1>5, <2>1, <2>2, RetrySays
<1>6. CASE Select
  BY <1>6, QuietSelect
<1>7. CASE Advise
  BY <1>0, <1>7, AdviseSays DEF Says, Misses, Quiet, Rest, Outside, Shown
<1>8. CASE Diagnose
  <2>1. CASE Misses("diagnose", "measure")
    BY <2>1 DEF Misses, Quiet
  <2>2. CASE call.answer.total # 0 /\ Says("diagnose", "measure", call.answer)
    <3>1. ASSUME call.commits = commits, call.lost = {}
          PROVE  index # {}
      <4>1. call.answer.total = Counted(call.req, Matching(index, call.req, call.answer.wide))
        BY <2>2, <3>1 DEF Says, Quiet, Measured
      <4>2. QED
        BY <2>2, <4>1, MatchingRows, CountedIsANumber DEF QueryTyped
    <3>2. call.answer.empty = Nothing /\ call.answer.through = Nothing
          /\ Nothing \notin {TRUE, FALSE}
      BY <2>2, QueriesAssumption DEF Says, Begun
    <3>3. QED
      BY <2>2, <3>1, <3>2 DEF Says, Quiet, Rest, Outside, Shown
  <2>3. CASE /\ call.answer.total = 0
             /\ Says("diagnose", IF index = {} THEN "measure" ELSE "newest",
                     [call.answer EXCEPT !.empty = (index = {})])
    <3>1. call.answer.through = Nothing /\ Nothing \notin {TRUE, FALSE}
      BY <2>3, QueriesAssumption DEF Says, Begun
    <3>2. /\ call'.answer.through = Nothing /\ call'.answer.total = 0
          /\ call'.answer.empty = (index = {})
          /\ call'.answer.rows = call.answer.rows /\ call'.answer.wide = call.answer.wide
          /\ call.ok
      BY <1>0, <2>3, <3>1 DEF Says, Measured
    <3>3. Shown' = Shown
      BY <2>3, <3>2 DEF Says, Shown, Rest
    <3>4. /\ index' = index /\ commits' = commits /\ call'.commits = call.commits
          /\ call'.lost = call.lost /\ call'.ok = call.ok /\ call'.req = call.req
          /\ call.at = "diagnose" /\ call'.at = IF index = {} THEN "measure" ELSE "newest"
      BY <2>3 DEF Says, Rest, Outside
    <3>5. SUFFICES ASSUME call.commits = commits, call.lost = {} PROVE Quiet'
      BY <3>4 DEF Quiet
    <3>6. /\ call.answer.total = Counted(call.req, Matching(index, call.req, call.answer.wide))
          /\ Len(Shown) = Min({call.answer.total, Limit(call.req.limit)})
      BY <3>2, <3>4, <3>5 DEF Quiet
    <3>7. /\ call'.answer.total = Counted(call'.req, Matching(index', call'.req, call'.answer.wide))
          /\ Len(Shown') = Min({call'.answer.total, Limit(call'.req.limit)})
      BY <2>3, <3>2, <3>3, <3>4, <3>6
    <3>8. CASE index = {}
      <4>1. call'.at = "measure" /\ call'.answer.empty = TRUE /\ index' = {}
        BY <3>2, <3>4, <3>8
      <4>2. QED
        BY <3>1, <3>2, <3>7, <4>1 DEF Quiet
    <3>9. CASE index # {}
      <4>1. call'.at = "newest" /\ call'.answer.empty = FALSE /\ index' # {}
        BY <3>2, <3>4, <3>9
      <4>2. QED
        BY <3>1, <3>2, <3>7, <4>1 DEF Quiet
    <3>10. QED
      BY <3>8, <3>9
  <2>4. QED
    BY <1>8, <2>1, <2>2, <2>3, DiagnoseSays
<1>9. CASE Newest
  <2>1. CASE Misses("newest", "measure")
    BY <2>1 DEF Misses, Quiet
  <2> DEFINE time == IF index = {} THEN Nothing ELSE Max({Time[r] : r \in index})
  <2>2. CASE Says("newest", "measure", [call.answer EXCEPT !.through = time])
    <3>1. ASSUME index # {} PROVE time # Nothing
      BY <3>1, ALatestTime, QueriesAssumption DEF QueryTyped
    <3> HIDE DEF time
    <3>2. Nothing \notin {TRUE, FALSE}
      BY QueriesAssumption
    <3>3. /\ call'.answer.through = time
          /\ call'.answer.total = call.answer.total /\ call'.answer.empty = call.answer.empty
          /\ call'.answer.rows = call.answer.rows /\ call'.answer.wide = call.answer.wide
      BY <1>0, <2>2 DEF Says
    <3>4. Shown' = Shown
      BY <2>2, <3>3 DEF Says, Shown, Rest
    <3>5. QED
      BY <2>2, <3>1, <3>2, <3>3, <3>4 DEF Says, Quiet, Rest, Outside
  <2>3. QED
    BY <1>9, <2>1, <2>2, NewestSays
<1>10. CASE Measure
  BY <1>10, MeasureSays DEF Misses, Quiet, Rest, Outside, Shown
<1>11. CASE Emit
  BY <1>11, EmitSays DEF Misses, Quiet, Rest, Outside, Shown, AfterEmit
<1>12. CASE Book
  BY <1>12, BookSays DEF Misses, Quiet, Rest, Outside, Shown
<1>13. CASE UNCHANGED queryVars
  BY <1>13 DEF queryVars, Quiet, Shown
<1>14. QED
  BY <1>1, <1>2, <1>3, <1>4, <1>5, <1>6, <1>7, <1>8, <1>9, <1>10, <1>11, <1>12, <1>13
     DEF QueryNext, Step, Begins

--------------------------------------------------------------------------------
(* The rows that were there all the time                                   *)

(* A row that has been there, and is asked for, is in what was read, or    *)
(* better ones are.                                                        *)
AccountedFor(req, rows, r) ==
    LET limit == Limit(req.limit) IN
    /\ \/ \E i \in DOMAIN First(rows, limit) : Stands(req, First(rows, limit)[i], r)
       \/ FullOfBetter(req, First(rows, limit), limit, r)
    /\ Deep(req) =>
         \/ File(req, r) \in ShownFiles(req, rows) \union Pointed(req, rows)
         \/ FullOfBetter(req, rows, Max({limit, DeepScanDepth}), r)

NoneLost ==
    /\ call.at = "retry" \/ call.answer.wide => Matching(stayed, call.req, FALSE) = {}
    /\ call.at \in Explaining \union Measuring /\ call.ok =>
           \A r \in Matching(stayed, call.req, FALSE) : AccountedFor(call.req, call.answer.rows, r)

LEMMA ReadIsKept ==
    ASSUME NEW req, Asked(req), NEW rows \in SUBSET Row, NEW sel \in Selected(req, rows),
           NEW r \in rows
    PROVE  AccountedFor(req, sel, r)
<1> DEFINE limit == Limit(req.limit)
<1>1. /\ sel \in Seq(rows)
      /\ \/ \E i \in DOMAIN First(sel, limit) : Stands(req, First(sel, limit)[i], r)
         \/ FullOfBetter(req, First(sel, limit), limit, r)
      /\ Deep(req) => \/ \E i \in 1 .. Len(sel) : sel[i] = r
                      \/ FullOfBetter(req, sel, Deepest(req), r)
  BY SelectedReads
<1>2. sel \in Seq(Row) /\ DOMAIN sel = 1 .. Len(sel)
  BY <1>1, SeqMonotonic, LenProperties
<1>3. ASSUME Deep(req), NEW i \in 1 .. Len(sel), sel[i] = r
      PROVE  File(req, r) \in ShownFiles(req, sel) \union Pointed(req, sel)
  <2>1. CASE File(req, sel[i]) \in ShownFiles(req, sel)
    BY <1>3, <2>1
  <2>2. CASE File(req, sel[i]) \notin ShownFiles(req, sel)
    <3>1. PICK k \in DOMAIN Also(req, sel) : File(req, Also(req, sel)[k].row) = File(req, sel[i])
      BY <1>2, <1>3, <2>2, NothingReadIsHidden
    <3>2. Also(req, sel)[k] \in ToSet(Also(req, sel))
      BY DEF ToSet
    <3>3. File(req, Also(req, sel)[k].row) \in Pointed(req, sel)
      BY <3>2 DEF Pointed
    <3>4. QED
      BY <1>3, <3>1, <3>3
  <2>3. QED
    BY <2>1, <2>2
<1> HIDE DEF limit
<1>4. Deep(req) => \/ File(req, r) \in ShownFiles(req, sel) \union Pointed(req, sel)
                   \/ FullOfBetter(req, sel, Deepest(req), r)
  BY <1>1, <1>3
<1>5. QED
  BY <1>1, <1>4 DEF AccountedFor, Deepest, limit

LEMMA NoneLostInit == QueryInit => NoneLost
<1> SUFFICES ASSUME QueryInit PROVE NoneLost
  OBVIOUS
<1>1. call.at = "idle" /\ call.answer.wide = FALSE
  BY DEF QueryInit, Idle, NoAnswer
<1>2. QED
  BY <1>1 DEF NoneLost, Explaining, Measuring

LEMMA NoneLostStep ==
    QueryTyped /\ Measured /\ Begun /\ NoneLost /\ [QueryNext]_queryVars => NoneLost'
<1> SUFFICES ASSUME QueryTyped, Measured, Begun, NoneLost, [QueryNext]_queryVars PROVE NoneLost'
  OBVIOUS
<1> USE DEF Explaining, Measuring
<1>0. /\ DOMAIN call.answer = {"total", "wide", "rows", "terms", "reach", "empty", "through"}
      /\ NoAnswer.wide = FALSE /\ NoAnswer.total = 0
      /\ DOMAIN NoAnswer = DOMAIN call.answer
  BY DEF QueryTyped, AnAnswer, NoAnswer
<1>1. CASE Begins
  <2>1. PICK req : Begin(req)
    BY <1>1, ACallIsAsked
  <2>2. QED
    BY <1>0, <2>1, BeginSets DEF NoneLost
<1>2. CASE Commit
  <2>1. Matching(stayed', call.req, FALSE) \subseteq Matching(stayed, call.req, FALSE)
    BY <1>2 DEF Commit, Matching
  <2>2. call' = call
    BY <1>2 DEF Commit
  <2>3. QED
    BY <2>1, <2>2 DEF NoneLost
<1>3. CASE Refuse
  BY <1>0, <1>3, RefuseSets DEF NoneLost
<1>4. CASE Count
  <2>1. CASE Errs("count")
    BY <1>0, <2>1 DEF Errs, NoneLost
  <2>2. CASE Says("count", IF Broadens(call.req, CountOfCall) THEN "retry" ELSE "select",
                  [call.answer EXCEPT !.total = CountOfCall])
    <3>1. call'.answer.wide = FALSE /\ call'.req = call.req /\ stayed' = stayed
      BY <1>0, <2>2 DEF Says, Begun, Rest, Outside, Unsaid
    <3>2. CASE Broadens(call.req, CountOfCall)
      <4>1. CountOfCall = 0
        BY <3>2 DEF Broadens
      <4>2. Matching(index, call.req, FALSE) = {}
        BY <4>1, MatchingRows, CountedIsANumber DEF CountOfCall, QueryTyped
      <4>3. Matching(stayed, call.req, FALSE) = {}
        BY <4>2 DEF Matching, QueryTyped
      <4>4. call'.at = "retry"
        BY <2>2, <3>2 DEF Says
      <4>5. QED
        BY <3>1, <4>3, <4>4 DEF NoneLost
    <3>3. CASE ~Broadens(call.req, CountOfCall)
      BY <2>2, <3>1, <3>3 DEF Says, NoneLost
    <3>4. QED
      BY <3>2, <3>3
  <2>3. QED
    BY <1>4, <2>1, <2>2, CountSays
<1>5. CASE Retry
  BY <1>0, <1>5, RetrySays DEF Says, Errs, NoneLost, Rest, Outside
<1>6. CASE Select
  <2>1. CASE Errs("select")
    BY <1>0, <2>1 DEF Errs, NoneLost
  <2>2. ASSUME NEW rows \in Selected(call.req, Matching(index, call.req, call.answer.wide)),
               Says("select", IF Advised(call.req) THEN "advise" ELSE "diagnose",
                    [call.answer EXCEPT !.rows = rows, !.reach = call.answer.total])
        PROVE  NoneLost'
    <3>1. Asked(call.req) /\ Matching(index, call.req, call.answer.wide) \in SUBSET Row
      BY <2>2, MatchingRows DEF QueryTyped, Says
    <3>2. /\ call'.req = call.req /\ stayed' = stayed /\ call'.answer.rows = rows
          /\ call'.answer.wide = call.answer.wide /\ call'.at \in {"advise", "diagnose"}
      BY <1>0, <2>2 DEF Says, Rest, Outside
    <3>3. ASSUME NEW r \in Matching(stayed, call.req, FALSE)
          PROVE  AccountedFor(call.req, rows, r)
      <4>1. call.answer.wide = FALSE
        BY <3>3 DEF NoneLost, QueryTyped, AnAnswer
      <4>2. r \in Matching(index, call.req, call.answer.wide)
        BY <3>3, <4>1 DEF Matching, QueryTyped
      <4>3. QED
        BY <3>1, <4>2, ReadIsKept
    <3>4. QED
      BY <3>2, <3>3 DEF NoneLost
  <2>3. QED
    BY <1>6, <2>1, <2>2, SelectSays
<1>7. CASE Advise
  BY <1>0, <1>7, AdviseSays DEF Says, Misses, NoneLost, Rest, Outside
<1>8. CASE Diagnose
  BY <1>0, <1>8, DiagnoseSays DEF Says, Misses, NoneLost, Rest, Outside
<1>9. CASE Newest
  BY <1>0, <1>9, NewestSays DEF Says, Misses, NoneLost, Rest, Outside
<1>10. CASE Measure
  BY <1>10, MeasureSays DEF Misses, NoneLost, Rest, Outside
<1>11. CASE Emit
  BY <1>11, EmitSays DEF Misses, NoneLost, Rest, Outside, AfterEmit
<1>12. CASE Book
  BY <1>12, BookSays DEF Misses, NoneLost, Rest, Outside
<1>13. CASE UNCHANGED queryVars
  BY <1>13 DEF queryVars, NoneLost
<1>14. QED
  BY <1>1, <1>2, <1>3, <1>4, <1>5, <1>6, <1>7, <1>8, <1>9, <1>10, <1>11, <1>12, <1>13
     DEF QueryNext, Step, Begins

--------------------------------------------------------------------------------
(* The invariant, and what follows                                         *)

QueryInv == QueryTyped /\ Measured /\ Begun /\ Quiet /\ NoneLost

LEMMA QueryInvariant == QuerySpec => []QueryInv
<1>1. QueryInit => QueryInv
  BY QueryTypedInit, MeasuredInit, BegunInit, QuietInit, NoneLostInit DEF QueryInv
<1>2. QueryInv /\ [QueryNext]_queryVars => QueryInv'
  BY QueryTypedStep, MeasuredStep, BegunStep, QuietStep, NoneLostStep DEF QueryInv
<1>3. QED
  BY <1>1, <1>2, PTL DEF QuerySpec

(* Advice, diagnosis and measurements fail no call, and what is measured   *)
(* of it is what its caller got (Op::complete, emit_metrics in             *)
(* mcp/server.rs).                                                         *)
THEOREM AdviceFailsNoCall == QuerySpec => []AdviceIsFree
<1>1. QueryInv => AdviceIsFree
  BY DEF QueryInv, Measured, Measuring, Searching, AdviceIsFree, Done
<1>2. QED
  BY <1>1, QueryInvariant, PTL

(* With no commit and no failure in a call its numbers agree with its rows *)
(* and an empty answer says if the corpus is (annotate_empty_result).      *)
THEOREM QuietAnswersAgree == QuerySpec => []QuietAnswer
<1>1. ASSUME QueryInv, Answered, call.commits = commits, call.lost = {}
      PROVE  /\ Len(Shown) = Min({call.answer.total, Limit(call.req.limit)})
             /\ Shown = <<>> <=> call.answer.empty # Nothing
             /\ call.answer.empty = TRUE <=> index = {}
             /\ call.answer.empty = FALSE <=> call.answer.through # Nothing
  <2>1. call.at = "done" /\ call.ok /\ Asked(call.req)
    BY <1>1 DEF Answered, Done, QueryInv, QueryTyped
  <2>2. /\ Len(Shown) = Min({call.answer.total, Limit(call.req.limit)})
        /\ call.answer.total = 0 <=> call.answer.empty # Nothing
        /\ call.answer.empty = TRUE <=> index = {}
        /\ call.answer.empty = FALSE <=> call.answer.through # Nothing
    BY <1>1, <2>1 DEF QueryInv, Quiet, Measuring
  <2>3. call.answer.total \in Nat /\ call.answer.rows \in Seq(Row)
    BY <1>1 DEF QueryInv, QueryTyped, AnAnswer
  <2>4. Limit(call.req.limit) \in Nat \ {0}
    BY <2>1, LimitsAreNumbers
  <2>5. Shown \in Seq(Row)
    BY <2>3, <2>4, FirstOf DEF Shown
  <2>6. Shown = <<>> <=> Len(Shown) = 0
    BY <2>5, EmptySeq
  <2>7. Min({call.answer.total, Limit(call.req.limit)}) = 0 <=> call.answer.total = 0
    BY <2>3, <2>4, MinOfTwo
  <2>8. QED
    BY <2>2, <2>6, <2>7
<1>2. QueryInv => QuietAnswer
  BY <1>1 DEF QuietAnswer
<1>3. QED
  BY <1>2, QueryInvariant, PTL

(* No answer loses a row to a commit in the middle of its call (the        *)
(* statements of mcp/query.rs, each a read of its own).                    *)
THEOREM NoAnswerLosesARow == QuerySpec => []NoHitLost
<1>1. ASSUME QueryInv, Answered, NEW r \in Matching(stayed, call.req, FALSE)
      PROVE  /\ ~call.answer.wide /\ AccountedFor(call.req, call.answer.rows, r)
  BY <1>1 DEF QueryInv, NoneLost, Answered, Done, Measuring
<1>2. QueryInv => NoHitLost
  BY <1>1 DEF NoHitLost, AccountedFor, Shown
<1>3. QED
  BY <1>2, QueryInvariant, PTL

(* Every row that was read is told of once: shown, with a body or an       *)
(* excerpt, or counted in the one pointer to its file (build_also_matched, *)
(* spent_chars in mcp/query.rs).                                           *)
THEOREM NothingReadIsLost == QuerySpec => []NothingHidden
<1>1. ASSUME QueryInv, Answered, Deep(call.req)
      PROVE  NothingHidden
  <2> DEFINE rows == call.answer.rows
             also == Also(call.req, rows)
             shown == ShownFiles(call.req, rows)
  <2>1. Asked(call.req) /\ rows \in Seq(Row)
    BY <1>1 DEF QueryInv, QueryTyped, AnAnswer, Answered, Done
  <2>2. Shown \in Seq(Row) /\ Len(Shown) \in Nat
    BY <2>1, LimitsAreNumbers, FirstOf DEF Shown
  <2>3. Spent(Shown)[Len(Shown)] <= BodyBudget + BodyLimit
    <3>1. Len(Shown) \in 0 .. Len(Shown)
      BY <2>2
    <3>2. QED
      BY <2>2, <3>1, SpentIsBounded
  <2>4. \A i \in DOMAIN Bodies(Shown) :
            Bodies(Shown)[i].body > 0 \/ Bodies(Shown)[i].excerpt > 0
    BY <2>2, EveryRowHasText
  <2> HIDE DEF rows
  <2>5. /\ \A i \in DOMAIN rows : File(call.req, rows[i]) \notin shown =>
               \E k \in DOMAIN also :
                   /\ File(call.req, also[k].row) = File(call.req, rows[i])
                   /\ also[k].matches =
                          Cardinality(PlacesOf(call.req, rows, File(call.req, rows[i])))
                   /\ \E b \in PlacesOf(call.req, rows, File(call.req, rows[i])) :
                          /\ also[k].row = rows[b]
                          /\ \A j \in PlacesOf(call.req, rows, File(call.req, rows[i])) : b <= j
        /\ \A k, m \in DOMAIN also :
               k # m => File(call.req, also[k].row) # File(call.req, also[m].row)
        /\ \A k \in DOMAIN also : File(call.req, also[k].row) \notin shown
    BY <1>1, <2>1, NothingReadIsHidden
  <2>6. QED
    BY <2>3, <2>4, <2>5 DEF NothingHidden, PlacesOf, rows
<1>2. QueryInv => NothingHidden
  BY <1>1 DEF NothingHidden
<1>3. QED
  BY <1>2, QueryInvariant, PTL
================================================================================
