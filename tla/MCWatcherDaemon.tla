---------------------------- MODULE MCWatcherDaemon ----------------------------
(***************************************************************************)
(* WatcherDaemon with a window in which one heartbeat may be lost unseen   *)
(* and a second one not, so that AliveReported has both its cases: in the  *)
(* code 10 s, 60 s and a wait of 5 s, so that with batches of up to 5 s    *)
(* four may be lost.                                                       *)
(***************************************************************************)
EXTENDS WatcherDaemon

ASSUME MaxDispatch + 2 * Heartbeat + Busy <= Window
ASSUME MaxDispatch + 3 * Heartbeat + Busy > Window
================================================================================
