------------------------------ MODULE MCHistory ------------------------------
(***************************************************************************)
(* Instances of HistoryAPI for TLC: a message of a group (groups have      *)
(* negative numbers), and requests about all of the group, about one user  *)
(* of it, and about a chat without records.  Requests are interchangeable. *)
(***************************************************************************)
EXTENDS HistoryAPI, TLC

CONSTANT m1

Chats == m1 :> -2
Dates == m1 :> 0
UserNames == m1 :> "bob"
FirstNames == m1 :> "Bob"

Asked == {[chat |-> -2, user |-> "", start |-> 0, end |-> 3],
          [chat |-> -2, user |-> "bob", start |-> 0, end |-> 3],
          [chat |-> 1, user |-> "", start |-> 0, end |-> 3]}

Symmetry == Permutations(Request)

=============================================================================
