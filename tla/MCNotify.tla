------------------------------ MODULE MCNotify ------------------------------
(***************************************************************************)
(* Instances of Notify for TLC: DingTalk, Feishu, one Bark key and one     *)
(* Harmony user.  A process that has ended MaxStarts times stays down: the *)
(* runs do not look for deadlocks.                                         *)
(***************************************************************************)
EXTENDS Notify

CONSTANTS b1, h1

OneKey == <<b1>>
OneUser == <<h1>>

=============================================================================
