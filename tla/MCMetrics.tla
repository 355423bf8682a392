----------------------------- MODULE MCMetrics -----------------------------
(***************************************************************************)
(* Metrics with the three goroutines of the program.  It can stop for good *)
(* (StuckOnlyByNesting says where), and does when every goroutine has made *)
(* its rounds: the runs do not look for deadlocks.                         *)
(***************************************************************************)
EXTENDS Metrics

=============================================================================
