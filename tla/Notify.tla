------------------------------- MODULE Notify -------------------------------
(***************************************************************************)
(* One try to forward a message: processMessage                            *)
(* (internal/handlers/message_handler.go), call by call, with the clients  *)
(* it uses (internal/bot/dingtalk.go, internal/notifier/feishu.go,         *)
(* internal/bot/bark.go, internal/bot/harmony.go).                         *)
(*                                                                         *)
(* A try asks Telegram for the chat, then sends to DingTalk, to Feishu, to *)
(* every Bark key and to every Harmony user, one after the other, and      *)
(* saves the message to the chat history.  A client that fails is logged   *)
(* and the try goes on: only the first and the last call decide whether    *)
(* the message is tried again.  The worker makes the first try, the retry  *)
(* goroutine the others; between them the message waits in the queue,      *)
(* which is a set of messages here.                                        *)
(*                                                                         *)
(* A call is under way until a step ends it, and a call without a timeout  *)
(* may never end.  A request that reports an error may have reached its    *)
(* peer all the same: the answer was late or lost.                         *)
(***************************************************************************)
EXTENDS Naturals, Sequences, Functions

CONSTANTS
    Message, NoMsg,
    Goroutine,      \* the worker and the retry goroutine
    Worker,         \* the worker
    DingTalk,       \* the DingTalk webhook
    Feishu,         \* the Feishu webhook
    BarkKeys,       \* bark.keys, in their order; empty if Bark is disabled
    HarmonyUsers,   \* harmony.user_ids, likewise
    ShortKeys,      \* the Bark keys with fewer than four characters
    DingTalkOn,     \* dingtalk.enabled
    FeishuOn,       \* feishu.enabled
    MaxAttempts,    \* retry.max_attempts
    MaxStarts       \* bound on the number of times the process is started

ASSUME NotifyAssumption ==
    /\ NoMsg \notin Message
    /\ Worker \in Goroutine
    /\ ShortKeys \subseteq Range(BarkKeys)
    /\ BarkKeys \in Seq(Range(BarkKeys)) /\ IsInjective(BarkKeys)
    /\ HarmonyUsers \in Seq(Range(HarmonyUsers)) /\ IsInjective(HarmonyUsers)
    /\ DingTalkOn \in BOOLEAN /\ FeishuOn \in BOOLEAN
    /\ MaxAttempts \in Nat
    /\ MaxStarts \in Nat

VARIABLES
    phase,      \* "down", "run", "closed" (the queue), "final" (the history)
    starts,     \* how often the process has been started
    try,        \* per goroutine: where it is, its message, the calls to make
    asked,      \* history: per goroutine, the peers its try has called
    fate,       \* what became of each message
    attempts,   \* Message.Attempts
    got,        \* history: the peers that requests with the message reached
    unsaved     \* history: has a try sent the message and failed to save it?
                \* (both are kept until the fate of the message is decided)

vars == <<phase, starts, try, asked, fate, attempts, got, unsaved>>

\* The peers a try calls, in the order of processMessage.
Plan ==
    (IF DingTalkOn THEN <<DingTalk>> ELSE << >>)
    \o (IF FeishuOn THEN <<Feishu>> ELSE << >>)
    \o BarkKeys \o HarmonyUsers

Peer == Range(Plan)

Idle == [at |-> "idle", msg |-> NoMsg, todo |-> << >>]

Init ==
    /\ phase = "down"
    /\ starts = 0
    /\ try = [g \in Goroutine |-> Idle]
    /\ asked = [g \in Goroutine |-> {}]
    /\ fate = [m \in Message |-> "new"]
    /\ attempts = [m \in Message |-> 0]
    /\ got = [m \in Message |-> {}]
    /\ unsaved = [m \in Message |-> FALSE]

TypeOK ==
    /\ phase \in {"down", "run", "closed", "final"}
    /\ starts \in 0 .. MaxStarts
    /\ \A g \in Goroutine :
           /\ try[g].at \in {"idle", "chat", "send", "save", "push"}
           /\ try[g].msg \in Message <=> try[g].at # "idle"
           /\ try[g].todo # << >> <=> try[g].at = "send"
           /\ asked[g] \subseteq Peer
    /\ fate \in [Message -> {"new", "held", "queued", "done", "abandoned", "lost"}]
    /\ attempts \in [Message -> Nat]
    /\ got \in [Message -> SUBSET Peer]
    /\ unsaved \in [Message -> BOOLEAN]

Up == phase # "down"

\* The fate of the messages of S is decided: what was known of them is of no
\* use any more.
Settle(S, f) ==
    /\ fate' = [m \in Message |-> IF m \in S THEN f ELSE fate[m]]
    /\ attempts' = [m \in Message |-> IF m \in S THEN 0 ELSE attempts[m]]
    /\ got' = [m \in Message |-> IF m \in S THEN {} ELSE got[m]]
    /\ unsaved' = [m \in Message |-> m \notin S /\ unsaved[m]]

\* processMessage and what follows it are over.
Return(g) ==
    /\ try' = [try EXCEPT ![g] = Idle]
    /\ asked' = [asked EXCEPT ![g] = {}]

-----------------------------------------------------------------------------
(* The beginning and the end of a try *)

\* processMessage is called.
Begin(m) == [at |-> "chat", msg |-> m, todo |-> << >>]

\* The worker takes a message from msgChan.
Receive(m) ==
    /\ Up
    /\ try[Worker].at = "idle"
    /\ fate[m] = "new"
    /\ try' = [try EXCEPT ![Worker] = Begin(m)]
    /\ fate' = [fate EXCEPT ![m] = "held"]
    /\ UNCHANGED <<phase, starts, asked, attempts, got, unsaved>>

\* The retry goroutine pops a message, and gives up one without attempts left.
Pop(g, m) ==
    /\ phase = "run"
    /\ g # Worker
    /\ try[g].at = "idle"
    /\ fate[m] = "queued"
    /\ IF attempts[m] >= MaxAttempts
       THEN /\ Settle({m}, "abandoned")
            /\ UNCHANGED try
       ELSE /\ fate' = [fate EXCEPT ![m] = "held"]
            /\ try' = [try EXCEPT ![g] = Begin(m)]
            /\ UNCHANGED <<attempts, got, unsaved>>
    /\ UNCHANGED <<phase, starts, asked>>

\* processMessage returns an error: one attempt more, and a Push.
Fail(g) ==
    /\ try' = [try EXCEPT ![g] = [@ EXCEPT !.at = "push", !.todo = << >>]]
    /\ attempts' = [attempts EXCEPT ![try[g].msg] = @ + 1]

\* A closed queue refuses the message, and so may a failing disk.
Push(g) ==
    /\ Up
    /\ try[g].at = "push"
    /\ \/ /\ phase = "run"
          /\ fate' = [fate EXCEPT ![try[g].msg] = "queued"]
          /\ UNCHANGED <<attempts, got, unsaved>>
       \/ Settle({try[g].msg}, "lost")
    /\ Return(g)
    /\ UNCHANGED <<phase, starts>>

-----------------------------------------------------------------------------
(* The calls *)

\* Mutant: the end of the calls is not noticed.
ContinueSending(g, todo) ==
    try' = [try EXCEPT ![g] = [@ EXCEPT !.at = "send", !.todo = todo]]

\* Where a try goes on with the calls that are left.
Continue(g, todo) ==
    try' = [try EXCEPT ![g] =
              [@ EXCEPT !.at = IF todo = << >> THEN "save" ELSE "send",
                        !.todo = todo]]

GetChat(g) ==
    /\ Up
    /\ try[g].at = "chat"
    /\ Continue(g, Plan)
    /\ UNCHANGED <<phase, starts, asked, fate, attempts, got, unsaved>>

GetChatError(g) ==
    /\ Up
    /\ try[g].at = "chat"
    /\ Fail(g)
    /\ UNCHANGED <<phase, starts, asked, fate, got, unsaved>>

\* The peer that the try calls now.
Calls(g, peers) == Up /\ try[g].at = "send" /\ Head(try[g].todo) \in peers

\* The request has reached the peer, or it has not.
Request(g) ==
    /\ asked' = [asked EXCEPT ![g] = @ \cup {Head(try[g].todo)}]
    /\ got' \in {got, [got EXCEPT ![try[g].msg] = @ \cup {Head(try[g].todo)}]}

\* SendMessage of the DingTalk client, without a timeout: http.Post uses the
\* default client.  Its error is logged.
SendDingTalk(g) ==
    /\ Calls(g, {DingTalk})
    /\ Request(g)
    /\ Continue(g, Tail(try[g].todo))
    /\ UNCHANGED <<phase, starts, fate, attempts, unsaved>>

\* Mutant: the error of Feishu is returned.
SendFeishuReturnError(g) ==
    /\ Calls(g, {Feishu})
    /\ Request(g)
    /\ \/ Continue(g, Tail(try[g].todo)) /\ UNCHANGED attempts
       \/ Fail(g)
    /\ UNCHANGED <<phase, starts, fate, unsaved>>

\* Send of the Feishu notifier.
SendFeishu(g) ==
    /\ Calls(g, {Feishu})
    /\ Request(g)
    /\ Continue(g, Tail(try[g].todo))
    /\ UNCHANGED <<phase, starts, fate, attempts, unsaved>>

\* Mutant: the first error ends the notifications.
SendBarkBreak(g) ==
    /\ Calls(g, Range(BarkKeys))
    /\ Request(g)
    /\ \/ Continue(g, Tail(try[g].todo))
       \/ Continue(g, << >>)
    /\ UNCHANGED <<phase, starts, fate, attempts, unsaved>>

\* One key of Bark: a failure is logged, and the loop goes on.  With a short
\* key only a failing request gets here, see BarkPanic.
SendBark(g) ==
    /\ Calls(g, Range(BarkKeys))
    /\ Request(g)
    /\ Continue(g, Tail(try[g].todo))
    /\ UNCHANGED <<phase, starts, fate, attempts, unsaved>>

\* One user of Harmony: likewise.
SendHarmony(g) ==
    /\ Calls(g, Range(HarmonyUsers))
    /\ Request(g)
    /\ Continue(g, Tail(try[g].todo))
    /\ UNCHANGED <<phase, starts, fate, attempts, unsaved>>

\* SaveMessage returns nil, and with it processMessage.
Save(g) ==
    /\ Up /\ phase # "final"
    /\ try[g].at = "save"
    /\ Settle({try[g].msg}, "done")
    /\ Return(g)
    /\ UNCHANGED <<phase, starts>>

\* Mutant: a message that cannot be saved is forwarded again at once.
SaveErrorAgain(g) ==
    /\ Up
    /\ try[g].at = "save"
    /\ try' = [try EXCEPT ![g] = [@ EXCEPT !.at = "chat"]]
    /\ unsaved' = [unsaved EXCEPT ![try[g].msg] = TRUE]
    /\ UNCHANGED <<phase, starts, asked, fate, attempts, got>>

\* The history is closed, or the disk fails.
SaveError(g) ==
    /\ Up
    /\ try[g].at = "save"
    /\ unsaved' = [unsaved EXCEPT ![try[g].msg] = TRUE]
    /\ Fail(g)
    /\ UNCHANGED <<phase, starts, asked, fate, got>>

-----------------------------------------------------------------------------
(* The process *)

StartProcess ==
    /\ phase = "down"
    /\ starts < MaxStarts
    /\ phase' = "run"
    /\ starts' = starts + 1
    /\ UNCHANGED <<try, asked, fate, attempts, got, unsaved>>

\* Stop closes the queue, then main's deferred Close the history.
Close ==
    /\ phase \in {"run", "closed"}
    /\ phase' = IF phase = "run" THEN "closed" ELSE "final"
    /\ UNCHANGED <<starts, try, asked, fate, attempts, got, unsaved>>

\* The goroutines end wherever they are; the queue is in LevelDB.
Vanish ==
    /\ phase' = "down"
    /\ try' = [g \in Goroutine |-> Idle]
    /\ asked' = [g \in Goroutine |-> {}]
    /\ Settle({m \in Message : fate[m] = "held"}, "lost")
    /\ UNCHANGED starts

\* main returns, or the process is killed.
End == Up /\ Vanish

\* The log entry after a successful request takes the first four characters
\* of the key; a shorter key makes it panic, and nobody recovers.
BarkPanic(g) ==
    /\ Calls(g, ShortKeys)
    /\ Vanish

-----------------------------------------------------------------------------

\* The calls that a timeout ends, and the steps without a call.
TimedStep(g) == SendFeishu(g) \/ SendBark(g) \/ SendHarmony(g) \/ Save(g)
                \/ SaveError(g) \/ Push(g)

Try(g) ==
    \/ \E m \in Message : Pop(g, m)
    \/ GetChat(g) \/ GetChatError(g)
    \/ SendDingTalk(g)
    \/ TimedStep(g)
    \/ BarkPanic(g)

Next ==
    \/ \E m \in Message : Receive(m)
    \/ \E g \in Goroutine : Try(g)
    \/ StartProcess \/ Close \/ End

Spec == Init /\ [][Next]_vars

\* The clients of Feishu, Bark and Harmony give up after ten seconds.  Nothing
\* is assumed of GetChat and DingTalk, whose clients wait for ever.
Fairness == \A g \in Goroutine : WF_vars(TimedStep(g))

FairSpec == Spec /\ Fairness

-----------------------------------------------------------------------------
(* Properties *)

\* A try that has come to its last call has called every peer of the
\* configuration; one that fails at GetChat has called none.  No failure of
\* one client keeps the message from the ones after it.
AllOrNone ==
    \A g \in Goroutine :
        /\ try[g].at = "save" => asked[g] = Peer
        /\ try[g].at = "push" => asked[g] \in {{}, Peer}

\* A peer is sent a message again only when an earlier try sent it and failed
\* to save it: neither a failing client nor a restart makes duplicates.
Resent(g) ==
    asked'[g] # asked[g] /\ try[g].msg \in Message
    /\ (asked'[g] \ asked[g]) \cap got[try[g].msg] # {}

AgainOnlyIfUnsaved ==
    [][\A g \in Goroutine : Resent(g) => unsaved[try[g].msg]]_vars

\* From Feishu on a try ends, whatever the peers do: only GetChat and DingTalk
\* can hold up a goroutine for ever.
TimedCallsReturn ==
    \A g \in Goroutine :
        try[g].at \in {"save", "push"}
            \/ (try[g].at = "send" /\ Head(try[g].todo) # DingTalk)
        ~> try[g].at = "idle"

\* A message whose forwarding failed goes back to the queue (README.md:112):
\* one that becomes done has reached every peer.
DoneIsDelivered ==
    [][\A m \in Message :
          fate[m] # "done" /\ fate'[m] = "done" => got[m] = Peer]_vars

=============================================================================
