----------------------------- MODULE MCHandler -----------------------------
(***************************************************************************)
(* Instances of MessageHandler for TLC, one .cfg for each question.  The   *)
(* index starts at 8, so that the keys go from one digit to two.  A        *)
(* process that has ended MaxStarts times stays down, and the behaviour    *)
(* ends: the runs do not look for deadlocks.                               *)
(***************************************************************************)
EXTENDS MessageHandler

=============================================================================
