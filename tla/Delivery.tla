------------------------------ MODULE Delivery ------------------------------
(***************************************************************************)
(* What the program promises for a message, without its goroutines, its    *)
(* channel and its queue.  A message arrives once; while it is live it may *)
(* be tried, up to MaxTries times; in the end it is done, given up, or     *)
(* lost, and stays so.  A loss is told apart by what may cause it, as far  *)
(* as the message's own history allows: only a message that was never      *)
(* tried is dropped, only one that failed can meet a queue that refuses    *)
(* it or an index that is written again.                                   *)
(*                                                                         *)
(* MessageHandler implements this module.                                  *)
(***************************************************************************)
EXTENDS Naturals

CONSTANTS
    Message,
    MaxTries        \* retry.max_attempts of the configuration

VARIABLES
    fate,           \* what became of each message
    tries           \* how often it has been tried in vain

Loss == {"dropped", "refused", "overwritten", "killed"}

DeliveryInit ==
    /\ fate = [m \in Message |-> "pending"]
    /\ tries = [m \in Message |-> 0]

\* An update brings the message; one of another chat is ignored.
Arrive(m) ==
    /\ fate[m] = "pending"
    /\ \/ fate' = [fate EXCEPT ![m] = "live"]
       \/ fate' = [fate EXCEPT ![m] = "ignored"]
    /\ UNCHANGED tries

\* The first try is always made, whatever MaxTries is.
FailTry(m) ==
    /\ fate[m] = "live"
    /\ tries[m] = 0 \/ tries[m] < MaxTries
    /\ tries' = [tries EXCEPT ![m] = @ + 1]
    /\ UNCHANGED fate

Finish(m) ==
    /\ fate[m] = "live"
    /\ fate' = [fate EXCEPT ![m] = "done"]
    /\ UNCHANGED tries

\* Only a message that has used up its tries is given up.
GiveUp(m) ==
    /\ fate[m] = "live"
    /\ tries[m] > 0 /\ tries[m] >= MaxTries
    /\ fate' = [fate EXCEPT ![m] = "abandoned"]
    /\ UNCHANGED tries

\* What can happen to m that loses it.
MayLose(m, loss) ==
    \/ loss = "killed"
    \/ loss = "dropped" /\ tries[m] = 0
    \/ loss \in {"refused", "overwritten"} /\ tries[m] > 0

\* The end of the process loses several messages in one step.
Lose ==
    /\ \E S \in SUBSET {m \in Message : fate[m] = "live"} :
           \E loss \in [S -> Loss] :
               /\ \A m \in S : MayLose(m, loss[m])
               /\ fate' = [m \in Message |-> IF m \in S THEN loss[m] ELSE fate[m]]
    /\ UNCHANGED tries

DeliveryNext ==
    \/ \E m \in Message : Arrive(m) \/ FailTry(m) \/ Finish(m) \/ GiveUp(m)
    \/ Lose

DeliverySpec == DeliveryInit /\ [][DeliveryNext]_<<fate, tries>>

=============================================================================
