--------------------------- MODULE MCLevelDBQueue ---------------------------
(***************************************************************************)
(* LevelDBQueue with two goroutines, from a new directory.                 *)
(***************************************************************************)
EXTENDS LevelDBQueue

=============================================================================
