--------------------------- MODULE MessageHandler ---------------------------
(***************************************************************************)
(* The life of a Telegram message in the program                           *)
(* (internal/handlers/message_handler.go, started and stopped by           *)
(* cmd/tgforward/main.go), from the update that brings it to the send, the *)
(* decision to give it up, or its loss.                                    *)
(*                                                                         *)
(* Three goroutines share the work.  The updater puts the messages of the  *)
(* target chats into msgChan, or drops them when it is full.  The worker   *)
(* takes them from msgChan, sends them, and pushes those that fail into    *)
(* the queue.  On every tick the retry goroutine makes a pass: it reads    *)
(* the size of the queue and pops that many messages, one at a time; it    *)
(* abandons a message that has used up its attempts, and pushes one that   *)
(* fails again back into the queue.  None of them is joined: Stop closes   *)
(* stopChan and the queue, and main returns.                               *)
(*                                                                         *)
(* processMessage (the notifiers, GetChat and the chat history) is one     *)
(* call that returns nil or an error.  A goroutine inside it holds its     *)
(* message; whatever happens meanwhile, happens then.  Messages are told   *)
(* apart by identity: an update delivered twice is two messages.           *)
(***************************************************************************)
EXTENDS Queue, Integers

CONSTANTS
    Target,         \* the messages that come from the configured chats
    ChanCap,        \* capacity of msgChan (100 in the program)
    MaxAttempts,    \* retry.max_attempts of the configuration
    MayCrash,       \* may the process end without Stop?
    MaxStarts       \* bound on the number of times the process is started

ASSUME HandlerAssumption ==
    /\ Target \subseteq Message
    /\ ChanCap \in Nat \ {0}
    /\ MaxAttempts \in Nat
    /\ MayCrash \in BOOLEAN
    /\ MaxStarts \in Nat

VARIABLES
    phase,      \* "down", "run", then Stop: "stop" when stopChan is closed,
                \* "closed" when the queue is, "final" when the storage is
    starts,     \* how often the process has been started
    updater,    \* the updater: where it is, and the message it holds
    msgChan,    \* MessageHandler.msgChan
    worker,     \* the worker: where it is, and the message it holds
    retry,      \* the retry goroutine: where it is, the message it holds, and
                \* how many iterations of the pass are left
    attempts,   \* Message.Attempts, the field stored with the message
    fate,       \* history: what became of each message
    popped      \* history: the messages the retry pass has taken so far

handlerVars ==
    <<phase, starts, updater, msgChan, worker, retry, attempts, fate, popped>>

vars == <<queueVars, handlerVars>>

\* The fates that end a message.  "live" is held somewhere in the program or
\* in its queue; "pending" has not arrived yet.
Settled == {"ignored", "done", "abandoned"}
Lost == {"dropped", "refused", "overwritten", "killed"}
Fate == {"pending", "live"} \cup Settled \cup Lost

Idle == [at |-> "idle", msg |-> NoMsg]
RetryIdle == [at |-> "idle", msg |-> NoMsg, left |-> 0]
Stopped(goroutine) == [goroutine EXCEPT !.at = "stopped"]

HandlerInit ==
    /\ phase = "down"
    /\ starts = 0
    /\ updater = Idle
    /\ msgChan = << >>
    /\ worker = Idle
    /\ retry = RetryIdle
    /\ attempts = [m \in Message |-> 0]
    /\ fate = [m \in Message |-> "pending"]
    /\ popped = {}

Init == QueueInit /\ HandlerInit

HandlerTypeOK ==
    /\ phase \in {"down", "run", "stop", "closed", "final"}
    /\ starts \in 0 .. MaxStarts
    /\ updater \in [at : {"idle", "stopped"}, msg : {NoMsg}]
                  \cup [at : {"send"}, msg : Message]
    /\ msgChan \in Seq(Message)
    /\ Len(msgChan) <= ChanCap
    /\ worker \in [at : {"idle", "stopped"}, msg : {NoMsg}]
                 \cup [at : {"send", "push"}, msg : Message]
    /\ retry \in [at : {"idle", "size", "pop", "stopped"},
                  msg : {NoMsg}, left : Nat]
                \cup [at : {"send", "push"}, msg : Message, left : Nat]
    /\ attempts \in [Message -> Nat]
    /\ fate \in [Message -> Fate]
    /\ popped \subseteq Message

TypeOK == QueueTypeOK /\ HandlerTypeOK

-----------------------------------------------------------------------------

Up == phase # "down"

\* stopChan is closed: a goroutine at its select may return, or take another
\* case of the select that is ready as well.
StopSignalled == phase \in {"stop", "closed", "final"}

\* The message of the orphan that a Put at the index overwrites.
Orphan == {db[k] : k \in DOMAIN db \cap {index}}

\* The fates after a Push of m that wrote to LevelDB: an orphan is overwritten.
FateAfterPut(m) ==
    IF backend = "leveldb"
    THEN [x \in Message |-> IF x \in Orphan \ {m} THEN "overwritten" ELSE fate[x]]
    ELSE fate

-----------------------------------------------------------------------------
(* The updater: processTelegramUpdates *)

\* An update with message m arrives.  Only the target chats are forwarded.
Receive(m) ==
    /\ Up
    /\ updater.at = "idle"
    /\ fate[m] = "pending"
    /\ IF m \in Target
       THEN /\ updater' = [at |-> "send", msg |-> m]
            /\ fate' = [fate EXCEPT ![m] = "live"]
       ELSE /\ fate' = [fate EXCEPT ![m] = "ignored"]
            /\ UNCHANGED updater
    /\ UNCHANGED <<queueVars, phase, starts, msgChan, worker, retry, attempts,
                   popped>>

\* The select that sends to msgChan or, when it is full, takes its default.
Enqueue ==
    /\ Up
    /\ updater.at = "send"
    /\ updater' = Idle
    /\ IF Len(msgChan) < ChanCap
       THEN /\ msgChan' = Append(msgChan, updater.msg)
            /\ UNCHANGED fate
       ELSE /\ fate' = [fate EXCEPT ![updater.msg] = "dropped"]
            /\ UNCHANGED msgChan
    /\ UNCHANGED <<queueVars, phase, starts, worker, retry, attempts, popped>>

UpdaterStop ==
    /\ StopSignalled
    /\ updater.at = "idle"
    /\ updater' = Stopped(updater)
    /\ UNCHANGED <<queueVars, phase, starts, msgChan, worker, retry, attempts,
                   fate, popped>>

-----------------------------------------------------------------------------
(* The worker: processQueueMessages *)

WorkerReceive ==
    /\ Up
    /\ worker.at = "idle"
    /\ msgChan # << >>
    /\ worker' = [at |-> "send", msg |-> Head(msgChan)]
    /\ msgChan' = Tail(msgChan)
    /\ UNCHANGED <<queueVars, phase, starts, updater, retry, attempts, fate,
                   popped>>

\* processMessage returns nil, which takes a chat history that can be written;
\* a notifier that fails does not change the result.
WorkerSent ==
    /\ Up /\ phase # "final"
    /\ worker.at = "send"
    /\ fate' = [fate EXCEPT ![worker.msg] = "done"]
    /\ worker' = Idle
    /\ UNCHANGED <<queueVars, phase, starts, updater, msgChan, retry, attempts,
                   popped>>

WorkerFailed ==
    /\ Up
    /\ worker.at = "send"
    /\ attempts' = [attempts EXCEPT ![worker.msg] = @ + 1]
    /\ worker' = [worker EXCEPT !.at = "push"]
    /\ UNCHANGED <<queueVars, phase, starts, updater, msgChan, retry, fate,
                   popped>>

\* Mutant: the worker pushes again after a Push that failed half-way.
WorkerPushAgain ==
    /\ Up
    /\ worker.at = "push"
    /\ \/ /\ PushOk(worker.msg)
          /\ fate' = FateAfterPut(worker.msg)
          /\ worker' = Idle
       \/ /\ PushTorn(worker.msg)
          /\ fate' = FateAfterPut(worker.msg)
          /\ UNCHANGED worker
       \/ /\ PushRefused
          /\ fate' = [fate EXCEPT ![worker.msg] = "refused"]
          /\ worker' = Idle
    /\ UNCHANGED <<phase, starts, updater, msgChan, retry, attempts, popped>>

\* A Push that fails is logged, and the message forgotten.
WorkerPush ==
    /\ Up
    /\ worker.at = "push"
    /\ \/ PushOk(worker.msg) /\ fate' = FateAfterPut(worker.msg)
       \/ PushTorn(worker.msg) /\ fate' = FateAfterPut(worker.msg)
       \/ PushRefused /\ fate' = [fate EXCEPT ![worker.msg] = "refused"]
    /\ worker' = Idle
    /\ UNCHANGED <<phase, starts, updater, msgChan, retry, attempts, popped>>

WorkerStop ==
    /\ StopSignalled
    /\ worker.at = "idle"
    /\ worker' = Stopped(worker)
    /\ UNCHANGED <<queueVars, phase, starts, updater, msgChan, retry, attempts,
                   fate, popped>>

-----------------------------------------------------------------------------
(* The retry goroutine: retryFailedMessages, processQueuedMessages *)

\* Mutant: the pass starts for two messages or more.
RetryTickForTwo ==
    /\ Up
    /\ retry.at = "idle"
    /\ qstate = "open"
    /\ QueueSize > 1
    /\ retry' = [retry EXCEPT !.at = "size"]
    /\ UNCHANGED <<queueVars, phase, starts, updater, msgChan, worker, attempts,
                   fate, popped>>

\* A tick that finds messages; any other tick changes nothing.
RetryTick ==
    /\ Up
    /\ retry.at = "idle"
    /\ qstate = "open"
    /\ QueueSize > 0
    /\ retry' = [retry EXCEPT !.at = "size"]
    /\ UNCHANGED <<queueVars, phase, starts, updater, msgChan, worker, attempts,
                   fate, popped>>

\* Mutant: the number of iterations is one too many.
RetrySizeOneMore ==
    /\ Up
    /\ retry.at = "size"
    /\ qstate = "open"
    /\ QueueSize > 0
    /\ retry' = [retry EXCEPT !.at = "pop", !.left = QueueSize + 1]
    /\ popped' = {}
    /\ UNCHANGED <<queueVars, phase, starts, updater, msgChan, worker, attempts,
                   fate>>

\* The second look at the size fixes the number of iterations of the pass.
RetrySize ==
    /\ Up
    /\ retry.at = "size"
    /\ qstate = "open"
    /\ QueueSize > 0
    /\ retry' = [retry EXCEPT !.at = "pop", !.left = QueueSize]
    /\ popped' = {}
    /\ UNCHANGED <<queueVars, phase, starts, updater, msgChan, worker, attempts,
                   fate>>

\* Size returns 0 or an error: closed, or the disk.
RetrySizeError ==
    /\ Up
    /\ retry.at = "size"
    /\ PopError
    /\ retry' = RetryIdle
    /\ UNCHANGED <<phase, starts, updater, msgChan, worker, attempts, fate,
                   popped>>

\* The next iteration of the pass, after the last of which it ends.
NextIteration ==
    IF retry.left <= 1
    THEN RetryIdle
    ELSE [at |-> "pop", msg |-> NoMsg, left |-> retry.left - 1]

\* Mutant: the comparison lets one attempt more through.
ExhaustedLate(m) == attempts[m] > MaxAttempts

\* Mutant: the last attempt is not made.
ExhaustedEarly(m) == attempts[m] + 1 >= MaxAttempts

\* Attempts counts every try, the one of the worker included.
Exhausted(m) == attempts[m] >= MaxAttempts

RetryPop(m) ==
    /\ Up
    /\ retry.at = "pop"
    /\ Pop(m)
    /\ popped' = popped \cup {m}
    /\ IF Exhausted(m)
       THEN /\ fate' = [fate EXCEPT ![m] = "abandoned"]
            /\ retry' = NextIteration
       ELSE /\ retry' = [retry EXCEPT !.at = "send", !.msg = m]
            /\ UNCHANGED fate
    /\ UNCHANGED <<phase, starts, updater, msgChan, worker, attempts>>

\* Pop returns an error: the pass breaks off.
RetryPopError ==
    /\ Up
    /\ retry.at = "pop"
    /\ PopError
    /\ retry' = RetryIdle
    /\ UNCHANGED <<phase, starts, updater, msgChan, worker, attempts, fate,
                   popped>>

RetrySent ==
    /\ Up /\ phase # "final"
    /\ retry.at = "send"
    /\ fate' = [fate EXCEPT ![retry.msg] = "done"]
    /\ retry' = NextIteration
    /\ UNCHANGED <<queueVars, phase, starts, updater, msgChan, worker, attempts,
                   popped>>

RetryFailed ==
    /\ Up
    /\ retry.at = "send"
    /\ attempts' = [attempts EXCEPT ![retry.msg] = @ + 1]
    /\ retry' = [retry EXCEPT !.at = "push"]
    /\ UNCHANGED <<queueVars, phase, starts, updater, msgChan, worker, fate,
                   popped>>

RetryPush ==
    /\ Up
    /\ retry.at = "push"
    /\ \/ PushOk(retry.msg) /\ fate' = FateAfterPut(retry.msg)
       \/ PushTorn(retry.msg) /\ fate' = FateAfterPut(retry.msg)
       \/ PushRefused /\ fate' = [fate EXCEPT ![retry.msg] = "refused"]
    /\ retry' = NextIteration
    /\ UNCHANGED <<phase, starts, updater, msgChan, worker, attempts, popped>>

RetryStop ==
    /\ StopSignalled
    /\ retry.at = "idle"
    /\ retry' = Stopped(retry)
    /\ UNCHANGED <<queueVars, phase, starts, updater, msgChan, worker, attempts,
                   fate, popped>>

-----------------------------------------------------------------------------
(* The process: main, Stop *)

\* createQueue, NewMessageHandler and Start.
StartProcess ==
    /\ phase = "down"
    /\ starts < MaxStarts
    /\ Open
    /\ phase' = "run"
    /\ starts' = starts + 1
    /\ UNCHANGED <<updater, msgChan, worker, retry, attempts, fate, popped>>

\* The signal; Stop closes stopChan.
Stop ==
    /\ phase = "run"
    /\ phase' = "stop"
    /\ UNCHANGED <<queueVars, starts, updater, msgChan, worker, retry, attempts,
                   fate, popped>>

\* Stop closes the queue, without waiting for the goroutines.
StopQueue ==
    /\ phase = "stop"
    /\ Close
    /\ phase' = "closed"
    /\ UNCHANGED <<starts, updater, msgChan, worker, retry, attempts, fate,
                   popped>>

\* The deferred Close of the chat history, when Stop has returned.
CloseStorage ==
    /\ phase = "closed"
    /\ phase' = "final"
    /\ UNCHANGED <<queueVars, starts, updater, msgChan, worker, retry, attempts,
                   fate, popped>>

\* The messages held in LevelDB after the step outlive the process; every
\* other live message is gone with it.
Vanish ==
    /\ phase' = "down"
    /\ updater' = Idle
    /\ msgChan' = << >>
    /\ worker' = Idle
    /\ retry' = RetryIdle
    /\ popped' = {}
    /\ fate' = [m \in Message |->
                  IF fate[m] = "live" /\ m \notin Range(db')
                  THEN IF m \in Orphan THEN "overwritten" ELSE "killed"
                  ELSE fate[m]]
    /\ UNCHANGED <<starts, attempts>>

\* main returns: the goroutines end wherever they are.
Exit ==
    /\ phase = "final"
    /\ Die
    /\ Vanish

\* The process is killed, possibly inside a Push.
Crash ==
    /\ MayCrash
    /\ Up
    /\ \/ Die
       \/ worker.at = "push" /\ DieInPush(worker.msg)
       \/ retry.at = "push" /\ DieInPush(retry.msg)
    /\ Vanish

-----------------------------------------------------------------------------

UpdaterNext == (\E m \in Message : Receive(m)) \/ Enqueue \/ UpdaterStop

WorkerNext ==
    WorkerReceive \/ WorkerSent \/ WorkerFailed \/ WorkerPush \/ WorkerStop

RetryNext ==
    \/ RetryTick \/ RetrySize \/ RetrySizeError
    \/ (\E m \in Message : RetryPop(m)) \/ RetryPopError
    \/ RetrySent \/ RetryFailed \/ RetryPush \/ RetryStop

MainNext == StartProcess \/ Stop \/ StopQueue \/ CloseStorage \/ Exit

Next == UpdaterNext \/ WorkerNext \/ RetryNext \/ MainNext \/ Crash

Spec == Init /\ [][Next]_vars

\* The Go scheduler runs every goroutine that can run, and the ticker fires
\* again and again.  That a send returns is an assumption about the peers: the
\* program sets no timeout on GetChat.
Fairness ==
    /\ WF_vars(Enqueue)
    /\ WF_vars(WorkerNext)
    /\ WF_vars(RetryNext)

FairSpec == Spec /\ Fairness

-----------------------------------------------------------------------------
(* Properties *)

\* The messages that the goroutines hold.
InHand == {updater.msg, worker.msg, retry.msg}

Held(m) ==
    m \in Range(db) \cup Range(mem) \cup Range(msgChan) \cup InHand

\* No two of the places that hold messages hold m.
HeldOnce(m) ==
    /\ m \in Range(db) => m \notin Range(mem) \cup Range(msgChan) \cup InHand
    /\ m \in Range(mem) => m \notin Range(msgChan) \cup InHand
    /\ m \in Range(msgChan) => m \notin InHand
    /\ m = updater.msg => m \notin {worker.msg, retry.msg}
    /\ m = worker.msg => m # retry.msg

\* A live message is in exactly one place, and a message whose fate is decided
\* is nowhere: no goroutine forgets a message silently or leaves a copy behind
\* that is sent again, across failed pushes, Stop, crashes and restarts.
OnePlace ==
    /\ IsInjective(db) /\ IsInjective(mem) /\ IsInjective(msgChan)
    /\ \A m \in Message : HeldOnce(m) /\ (Held(m) <=> fate[m] = "live")

\* A message that was processed, abandoned or lost stays so: nothing handles it
\* again, and no restart brings it back.
FateIsFinal ==
    [][\A m \in Message :
          fate[m] \notin {"pending", "live"} => fate'[m] = fate[m]]_vars

\* processMessage is called at most MaxAttempts times for a message, or once
\* if MaxAttempts is 0: the counter stored with the message survives every
\* restart, and no pass forgets to look at it.
AttemptsBounded ==
    \A m \in Message : attempts[m] <= MaxAttempts \/ attempts[m] <= 1

D == INSTANCE Delivery WITH MaxTries <- MaxAttempts, tries <- attempts

\* The goroutines, the queue with its orphans, Stop, crashes and restarts keep
\* the promise of Delivery: no message is tried, given up or lost out of turn.
ImplementsDelivery == D!DeliverySpec

\* The retry goroutine starts to send a message it has taken in this pass before.
TakenAgain ==
    retry.at = "pop" /\ retry'.at = "send" /\ retry'.msg \in popped

\* A retry pass takes a message at most once: a message that fails again waits
\* for another tick, retry.interval later (config.go:96).
OncePerPass == [][~ TakenAgain]_vars

\* So it is with the memory queue, first in, first out, although the worker
\* pushes during the pass and failed messages go back to its end.
OncePerPassInMemory == [][backend = "memory" => ~ TakenAgain]_vars

\* While the process runs, if sends return and once no more messages arrive,
\* every message is settled or lost in the end: the last one in the queue is
\* not left there, and no goroutine waits for another one for ever.  Messages
\* and tries are finite here, so that this says nothing of messages that fail
\* without end: while they do, each pass may pass over a message at 9 for ones
\* at 10 .. 89, 100 .. 899 and so on.
EventuallySettled ==
    \A m \in Message :
        fate[m] = "live" /\ phase = "run" ~> fate[m] # "live" \/ phase # "run"

\* A failed message in the persistent queue is not lost by a restart
\* (README.md:17), also while a retry of it is under way.
PersistedSurvives ==
    [][\A m \in Message :
          backend = "leveldb" /\ retry.msg = m =>
              fate'[m] \notin {"killed", "refused"}]_vars

=============================================================================
