------------------------------ MODULE MCWatchdog ------------------------------
(* Small instances of Watchdog, with ticks of twenty seconds and the default  *)
(* thresholds: 60 s for tails, 120 s for consumers, a watchdog that looks     *)
(* every 15 s (here 40).  An attempt has two statements that time out after   *)
(* 30 s each and two XADDs that are tried twice, for 30 s each: up to 180 s.  *)
EXTENDS Watchdog

\* BACKOFF_BASE_S = 1, BACKOFF_MAX_S = 60.
Backoffs == <<1, 1, 1, 1, 1, 2, 3>>
===============================================================================
