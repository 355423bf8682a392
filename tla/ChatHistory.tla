----------------------------- MODULE ChatHistory -----------------------------
(***************************************************************************)
(* The chat history (internal/storage/chat_history.go) and its two         *)
(* writers in internal/handlers/message_handler.go.                        *)
(*                                                                         *)
(* A record is stored under its chat and its time, and nothing else.  The  *)
(* updater saves a message as soon as its update arrives, under the date   *)
(* that Telegram gives, which is a whole second; processMessage saves it   *)
(* again when it has been sent, under the time at which the updater built  *)
(* it.  An update that Telegram delivers again goes through both again.    *)
(*                                                                         *)
(* Chats and times are int64 in the code; here they are the integers       *)
(* -Half .. Half - 1.  A key holds them as unsigned words.                 *)
(***************************************************************************)
EXTENDS Integers, Sequences, FiniteSets

CONSTANTS
    Message, NoMsg,
    Half,           \* half the number of values of a word: 2^63 in the code
    Second,         \* the number of clock values in a second
    MaxTime,        \* bound on the clock
    ChatOf,         \* message -> chat
    Date,           \* message -> the second in which it was sent
    UserName,       \* message -> user name of its sender, "" if there is none
    FirstName       \* message -> name shown for its sender

Int64 == -Half .. Half - 1

\* The name the updater gives a sender in the message it builds.
Sender(m) == IF UserName[m] # "" THEN "@" \o UserName[m] ELSE FirstName[m]

ASSUME HistoryAssumption ==
    /\ NoMsg \notin Message
    /\ Half \in Nat \ {0} /\ Second \in Nat \ {0}
    /\ MaxTime \in 0 .. Half - 1
    /\ ChatOf \in [Message -> Int64]
    /\ Date \in [Message -> 0 .. MaxTime]
    /\ \A m \in Message : Date[m] % Second = 0
    /\ UserName \in [Message -> STRING] /\ FirstName \in [Message -> STRING]

\* "@" in front of a name makes another one.
ASSUME SenderAssumption ==
    \A m \in Message : /\ Sender(m) \in STRING
                       /\ UserName[m] # "" => Sender(m) # UserName[m]

VARIABLES
    clock,      \* time.Now()
    db,         \* the records by key
    updater,    \* the message that the updater has saved and not built yet
    receipts,   \* messages as the handler has them: the message, CreatedAt
    processed   \* history: the receipts that processMessage has saved

historyVars == <<clock, db, updater, receipts, processed>>

-----------------------------------------------------------------------------
(* Keys and queries *)

\* uint64(n)
Word(n) == IF n < 0 THEN n + 2 * Half ELSE n

\* Mutant: the time first.
makeKeyTimeFirst(chat, time) == <<Word(time), Word(chat)>>

\* Mutant: the time in seconds.
makeKeySeconds(chat, time) == <<Word(chat), Word(time) - (Word(time) % Second)>>

\* Two big-endian words.
makeKey(chat, time) == <<Word(chat), Word(time)>>

\* The order of the bytes of two keys.
Before(k, l) == k[1] < l[1] \/ (k[1] = l[1] /\ k[2] < l[2])

\* The records of the key range of a chat and a half-open interval of time.
QueryMessages(chat, start, end) ==
    {db[k] : k \in {l \in DOMAIN db :
                       /\ ~ Before(l, makeKey(chat, start))
                       /\ Before(l, makeKey(chat, end))}}

QueryMessagesByUser(chat, user, start, end) ==
    {r \in QueryMessages(chat, start, end) : r.from = user}

-----------------------------------------------------------------------------
(* The writers *)

Record == [id : Message, chat : Int64, from : STRING, time : Int64]

\* Mutant: the key has the time of the write.
SaveMessageNow(m, from, time) ==
    LET key == makeKey(ChatOf[m], clock)
        record == [id |-> m, chat |-> ChatOf[m], from |-> from, time |-> time]
    IN  db' = [k \in DOMAIN db \cup {key} |-> IF k = key THEN record ELSE db[k]]

\* A Put: what was stored under the key is replaced.
SaveMessage(m, from, time) ==
    LET key == makeKey(ChatOf[m], time)
        record == [id |-> m, chat |-> ChatOf[m], from |-> from, time |-> time]
    IN  db' = [k \in DOMAIN db \cup {key} |-> IF k = key THEN record ELSE db[k]]

HistoryInit ==
    /\ clock = 0
    /\ db = << >>
    /\ updater = NoMsg
    /\ receipts = {}
    /\ processed = {}

Tick ==
    /\ clock < MaxTime
    /\ clock' = clock + 1
    /\ UNCHANGED <<db, updater, receipts, processed>>

\* Mutant: the record has the time of its arrival.
UpdateNow(m) ==
    /\ updater = NoMsg
    /\ Date[m] <= clock
    /\ SaveMessage(m, UserName[m], clock) \/ UNCHANGED db
    /\ updater' = m
    /\ UNCHANGED <<clock, receipts, processed>>

\* An update arrives, for the first time or again.  That the record cannot
\* be saved is only logged.
Update(m) ==
    /\ updater = NoMsg
    /\ Date[m] <= clock
    /\ SaveMessage(m, UserName[m], Date[m]) \/ UNCHANGED db
    /\ updater' = m
    /\ UNCHANGED <<clock, receipts, processed>>

\* The updater builds the message, with CreatedAt, and sends it to msgChan
\* unless that is full.  The clock has moved on before it builds another.
Build ==
    /\ updater # NoMsg
    /\ clock < MaxTime
    /\ clock' = clock + 1
    /\ receipts' \in {receipts, receipts \cup {[msg |-> updater, at |-> clock]}}
    /\ updater' = NoMsg
    /\ UNCHANGED <<db, processed>>

\* processMessage has sent the message and saves it.  If it cannot, it is
\* called again with the same CreatedAt: the receipt stays.
Process(r) ==
    /\ SaveMessage(r.msg, Sender(r.msg), r.at)
    /\ receipts' = receipts \ {r}
    /\ processed' = processed \cup {r}
    /\ UNCHANGED <<clock, updater>>

\* The handler gives a message up.
Lose(r) ==
    /\ receipts' = receipts \ {r}
    /\ UNCHANGED <<clock, db, updater, processed>>

\* The process ends, and starts again: what it has in memory is gone, and the
\* messages in a persistent queue are kept.
Interrupt ==
    /\ updater' = NoMsg
    /\ receipts' \in SUBSET receipts
    /\ UNCHANGED <<clock, db, processed>>

\* What happens while it runs.
HistoryStep ==
    \/ Tick
    \/ \E m \in Message : Update(m)
    \/ Build
    \/ \E r \in receipts : Process(r) \/ Lose(r)

HistoryNext == HistoryStep \/ Interrupt

HistorySpec == HistoryInit /\ [][HistoryNext]_historyVars

-----------------------------------------------------------------------------
(* Properties *)

Receipt == [msg : Message, at : 0 .. MaxTime]

\* A record is stored under the key of its own chat and time.
HistoryTypeOK ==
    /\ clock \in 0 .. MaxTime
    /\ \A k \in DOMAIN db : /\ db[k] \in Record
                            /\ db[k].time >= 0
                            /\ k = makeKey(db[k].chat, db[k].time)
    /\ updater \in Message \cup {NoMsg}
    /\ receipts \subseteq Receipt
    /\ processed \subseteq Receipt

\* A query returns the records of its chat and interval: neither the sign of
\* the chats nor the bytes of the keys let in or keep out another.  Only for
\* times from 1970 on: an earlier one is a large word.
RangeIsChatAndTime ==
    \A c \in Int64 : \A s, e \in 0 .. Half - 1 :
        QueryMessages(c, s, e) =
            {r \in {db[k] : k \in DOMAIN db} :
                r.chat = c /\ s <= r.time /\ r.time < e}

\* What processMessage has saved is found by every query of the chat that
\* covers CreatedAt, whatever is saved before and after it.  (At a whole
\* second it may be replaced by a record of the updater.)
ProcessedIsFound ==
    \A r \in processed :
        r.at % Second # 0 =>
            [id |-> r.msg, chat |-> ChatOf[r.msg], from |-> Sender(r.msg),
             time |-> r.at] \in QueryMessages(ChatOf[r.msg], r.at, r.at + 1)

\* A query by user name returns a message at most once, although it is stored
\* twice, and twice again when its update is delivered again.
UserQueryOnce ==
    \A m \in Message :
        UserName[m] # "" =>
            Cardinality({r \in QueryMessagesByUser(ChatOf[m], UserName[m], 0, Half - 1) :
                            r.id = m}) <= 1

=============================================================================
