---------------------------- MODULE HistoryProofs ----------------------------
(***************************************************************************)
(* Proofs about ChatHistory and HistoryAPI: what a range of keys is, that  *)
(* what has been saved is found, that a query answers all of it in order,  *)
(* whose rows an export can have, and which temporary files are left.      *)
(***************************************************************************)
EXTENDS HistoryAPI, FiniteSetTheorems, TLAPS

LEMMA AtMostOne ==
    ASSUME NEW S, NEW x, \A y \in S : y = x
    PROVE  Cardinality(S) <= 1
<1>1. CASE S = {}
  BY <1>1, FS_EmptySet
<1>2. CASE S # {}
  <2>1. S = {x}
    BY <1>2
  <2> QED BY <2>1, FS_Singleton
<1> QED BY <1>1, <1>2

USE HistoryAssumption

-----------------------------------------------------------------------------
(* Keys *)

\* A chat is told from another by its word, and the order of the words of
\* times from 1970 on is that of the times.
LEMMA WordFacts ==
    /\ \A c, d \in Int64 : Word(c) = Word(d) => c = d
    /\ \A c \in Int64 : Word(c) \in Int
    /\ \A t \in 0 .. Half - 1 : Word(t) = t
BY DEF Word, Int64

LEMMA TimeIsInt64 == 0 .. Half - 1 \subseteq Int64 /\ 0 .. MaxTime \subseteq 0 .. Half - 1
BY DEF Int64

LEMMA KeysDiffer ==
    ASSUME NEW c \in Int64, NEW d \in Int64, NEW s \in 0 .. Half - 1, NEW t \in 0 .. Half - 1,
           makeKey(c, s) = makeKey(d, t)
    PROVE  c = d /\ s = t
<1>1. Word(c) = Word(d) /\ Word(s) = Word(t)
  BY DEF makeKey
<1> QED BY <1>1, WordFacts

\* A key between those of a chat is of that chat and interval.
LEMMA RangeOfKeys ==
    ASSUME NEW c \in Int64, NEW d \in Int64,
           NEW s \in 0 .. Half - 1, NEW e \in 0 .. Half - 1, NEW t \in 0 .. Half - 1
    PROVE  (~ Before(makeKey(d, t), makeKey(c, s)) /\ Before(makeKey(d, t), makeKey(c, e)))
               <=> (d = c /\ s <= t /\ t < e)
<1>1. Word(s) = s /\ Word(e) = e /\ Word(t) = t
  BY WordFacts
<1>2. Word(c) \in Int /\ Word(d) \in Int /\ (Word(c) = Word(d) <=> c = d)
  BY WordFacts
<1> DEFINE x == Word(c)
           y == Word(d)
<1>3. makeKey(d, t) = <<y, t>> /\ makeKey(c, s) = <<x, s>> /\ makeKey(c, e) = <<x, e>>
  BY <1>1 DEF makeKey
<1> HIDE DEF x, y
<1>4. /\ Before(<<y, t>>, <<x, s>>) <=> y < x \/ (y = x /\ t < s)
      /\ Before(<<y, t>>, <<x, e>>) <=> y < x \/ (y = x /\ t < e)
  BY DEF Before
<1>5. x \in Int /\ y \in Int /\ (x = y <=> c = d)
  BY <1>2 DEF x, y
<1> QED
  BY <1>3, <1>4, <1>5

-----------------------------------------------------------------------------
(* The records *)

Saved(m, from, time) == [id |-> m, chat |-> ChatOf[m], from |-> from, time |-> time]

\* Every receipt has a time of its own, which has passed.
Apart ==
    /\ \A r, q \in receipts \cup processed : r.at = q.at => r = q
    /\ \A r \in receipts \cup processed : r.at < clock

\* What processMessage has saved is still there, unless at a whole second.
Found ==
    \A r \in processed :
        r.at % Second # 0 =>
            /\ makeKey(ChatOf[r.msg], r.at) \in DOMAIN db
            /\ db[makeKey(ChatOf[r.msg], r.at)] = Saved(r.msg, Sender(r.msg), r.at)

\* A record is one of the updater or one of processMessage.
OfWriter ==
    \A k \in DOMAIN db :
        \E m \in Message :
            \/ db[k] = Saved(m, UserName[m], Date[m])
            \/ \E t \in 0 .. MaxTime : db[k] = Saved(m, Sender(m), t)

HistoryInv == HistoryTypeOK /\ Apart /\ Found /\ OfWriter

\* A Put.
LEMMA Put ==
    ASSUME HistoryInv, NEW m \in Message, NEW from \in STRING, NEW t \in 0 .. MaxTime,
           SaveMessage(m, from, t),
           (t = Date[m] /\ from = UserName[m]) \/ from = Sender(m)
    PROVE  LET key == makeKey(ChatOf[m], t)
           IN  /\ DOMAIN db' = DOMAIN db \cup {key}
               /\ db'[key] = Saved(m, from, t)
               /\ \A k \in DOMAIN db \ {key} : db'[k] = db[k]
               /\ \A k \in DOMAIN db' : /\ db'[k] \in Record
                                        /\ db'[k].time >= 0
                                        /\ k = makeKey(db'[k].chat, db'[k].time)
               /\ OfWriter'
<1> DEFINE key == makeKey(ChatOf[m], t)
           new == Saved(m, from, t)
<1>1. db' = [k \in DOMAIN db \cup {key} |-> IF k = key THEN new ELSE db[k]]
  BY DEF SaveMessage, Saved
<1>2. new \in Record /\ new.time = t /\ new.chat = ChatOf[m] /\ t >= 0
  BY TimeIsInt64 DEF Record, Saved
<1>3. key = makeKey(new.chat, new.time)
  BY <1>2
<1> HIDE DEF key, new
<1>4. /\ DOMAIN db' = DOMAIN db \cup {key}
      /\ db'[key] = new
      /\ \A k \in DOMAIN db \ {key} : db'[k] = db[k]
  BY <1>1
<1>5. ASSUME NEW k \in DOMAIN db'
      PROVE  db'[k] \in Record /\ db'[k].time >= 0 /\ k = makeKey(db'[k].chat, db'[k].time)
  <2>1. CASE k = key
    BY <1>2, <1>3, <1>4, <2>1
  <2>2. CASE k # key
    BY <1>4, <2>2 DEF HistoryInv, HistoryTypeOK
  <2> QED BY <2>1, <2>2
<1>6. OfWriter'
  <2> SUFFICES ASSUME NEW k \in DOMAIN db'
               PROVE  \E n \in Message :
                          \/ db'[k] = Saved(n, UserName[n], Date[n])
                          \/ \E u \in 0 .. MaxTime : db'[k] = Saved(n, Sender(n), u)
    BY DEF OfWriter, Saved, Sender
  <2>1. CASE k = key
    BY <1>4, <2>1 DEF new
  <2>2. CASE k # key
    BY <1>4, <2>2 DEF HistoryInv, OfWriter
  <2> QED BY <2>1, <2>2
<1> QED BY <1>4, <1>5, <1>6 DEF key, new

LEMMA InitRecords == HistoryInit => HistoryInv
BY DEF HistoryInit, HistoryInv, HistoryTypeOK, Apart, Found, OfWriter

LEMMA StepRecords ==
    HistoryInv /\ [HistoryNext]_historyVars => HistoryInv'
<1> SUFFICES ASSUME HistoryInv, [HistoryNext]_historyVars PROVE HistoryInv'
  OBVIOUS
<1>1. CASE Tick
  <2>1. Apart'
    BY <1>1 DEF Tick, HistoryInv, HistoryTypeOK, Apart, Receipt
  <2>2. HistoryTypeOK' /\ Found' /\ OfWriter'
    BY <1>1 DEF Tick, HistoryInv, HistoryTypeOK, Found, OfWriter
  <2> QED BY <2>1, <2>2 DEF HistoryInv
<1>2. ASSUME NEW m \in Message, Update(m) PROVE HistoryInv'
  <2>1. updater' = m /\ UNCHANGED <<clock, receipts, processed>>
    BY <1>2 DEF Update
  <2>2. CASE SaveMessage(m, UserName[m], Date[m])
    <3> DEFINE key == makeKey(ChatOf[m], Date[m])
    <3>1. Date[m] \in 0 .. MaxTime /\ Date[m] % Second = 0 /\ ChatOf[m] \in Int64
          /\ UserName[m] \in STRING
      OBVIOUS
    <3>2. /\ DOMAIN db' = DOMAIN db \cup {key}
          /\ \A k \in DOMAIN db \ {key} : db'[k] = db[k]
          /\ \A k \in DOMAIN db' : /\ db'[k] \in Record
                                   /\ db'[k].time >= 0
                                   /\ k = makeKey(db'[k].chat, db'[k].time)
          /\ OfWriter'
      BY <2>2, <3>1, Put
    <3>3. HistoryTypeOK'
      BY <2>1, <3>2 DEF HistoryInv, HistoryTypeOK
    <3>4. Apart'
      BY <2>1 DEF HistoryInv, Apart
    <3>5. ASSUME NEW r \in processed, r.at % Second # 0
          PROVE  makeKey(ChatOf[r.msg], r.at) # key
      <4>1. r.at \in 0 .. Half - 1 /\ ChatOf[r.msg] \in Int64
        BY TimeIsInt64 DEF HistoryInv, HistoryTypeOK, Receipt
      <4>2. Date[m] \in 0 .. Half - 1 /\ r.at # Date[m]
        BY <3>1, <3>5, TimeIsInt64
      <4> QED
        BY <3>1, <4>1, <4>2, KeysDiffer
    <3> HIDE DEF key
    <3>6. Found'
      <4> SUFFICES ASSUME NEW r \in processed, r.at % Second # 0
                   PROVE  /\ makeKey(ChatOf[r.msg], r.at) \in DOMAIN db'
                          /\ db'[makeKey(ChatOf[r.msg], r.at)] = Saved(r.msg, Sender(r.msg), r.at)
        BY <2>1, Zenon DEF Found, makeKey, Word, Sender, Saved
      <4> QED
        BY <3>2, <3>5 DEF HistoryInv, Found
    <3> QED BY <3>2, <3>3, <3>4, <3>6 DEF HistoryInv
  <2>3. CASE UNCHANGED db
    BY <2>1, <2>3 DEF HistoryInv, HistoryTypeOK, Apart, Found, OfWriter
  <2> QED BY <1>2, <2>2, <2>3 DEF Update
<1>3. CASE Build
  <2> DEFINE new == [msg |-> updater, at |-> clock]
  <2>1. /\ updater \in Message /\ clock \in 0 .. MaxTime /\ clock' = clock + 1
        /\ clock' \in 0 .. MaxTime
        /\ receipts' \in {receipts, receipts \cup {new}}
        /\ updater' = NoMsg /\ UNCHANGED <<db, processed>>
    BY <1>3 DEF Build, HistoryInv, HistoryTypeOK
  <2>2. new \in Receipt /\ new.at = clock
    BY <2>1 DEF Receipt
  <2>3. \A r \in receipts \cup processed : r.at < clock /\ r.at \in Int
    BY DEF HistoryInv, HistoryTypeOK, Apart, Receipt
  <2> HIDE DEF new
  <2>4. Apart'
    <3>1. receipts' \cup processed' \subseteq receipts \cup processed \cup {new}
      BY <2>1
    <3>2. \A r \in receipts' \cup processed' : r.at < clock'
      BY <2>1, <2>2, <2>3, <3>1
    <3>3. \A r, q \in receipts \cup processed \cup {new} : r.at = q.at => r = q
      BY <2>1, <2>2, <2>3 DEF HistoryInv, Apart
    <3> QED BY <3>1, <3>2, <3>3 DEF Apart
  <2>5. HistoryTypeOK'
    BY <2>1, <2>2 DEF HistoryInv, HistoryTypeOK
  <2>6. Found' /\ OfWriter'
    BY <2>1 DEF HistoryInv, Found, OfWriter
  <2> QED BY <2>4, <2>5, <2>6 DEF HistoryInv
<1>4. ASSUME NEW q \in receipts, Process(q) PROVE HistoryInv'
  <2> DEFINE key == makeKey(ChatOf[q.msg], q.at)
  <2>1. /\ q.msg \in Message /\ q.at \in 0 .. MaxTime /\ ChatOf[q.msg] \in Int64
        /\ Sender(q.msg) \in STRING
    BY SenderAssumption DEF HistoryInv, HistoryTypeOK, Receipt
  <2>2. /\ receipts' = receipts \ {q} /\ processed' = processed \cup {q}
        /\ UNCHANGED <<clock, updater>> /\ SaveMessage(q.msg, Sender(q.msg), q.at)
    BY <1>4 DEF Process
  <2>3. /\ DOMAIN db' = DOMAIN db \cup {key}
        /\ db'[key] = Saved(q.msg, Sender(q.msg), q.at)
        /\ \A k \in DOMAIN db \ {key} : db'[k] = db[k]
        /\ \A k \in DOMAIN db' : /\ db'[k] \in Record
                                 /\ db'[k].time >= 0
                                 /\ k = makeKey(db'[k].chat, db'[k].time)
        /\ OfWriter'
    BY <2>1, <2>2, Put
  <2>4. HistoryTypeOK'
    BY <2>2, <2>3 DEF HistoryInv, HistoryTypeOK
  <2>5. Apart'
    BY <2>2 DEF HistoryInv, Apart
  <2>6. ASSUME NEW r \in processed, makeKey(ChatOf[r.msg], r.at) = key
        PROVE  r = q
    <3>1. r.at \in 0 .. Half - 1 /\ ChatOf[r.msg] \in Int64 /\ q.at \in 0 .. Half - 1
      BY <2>1, TimeIsInt64 DEF HistoryInv, HistoryTypeOK, Receipt
    <3>2. r.at = q.at
      BY <2>1, <2>6, <3>1, KeysDiffer
    <3> QED BY <3>2 DEF HistoryInv, Apart
  <2> HIDE DEF key
  <2>7. Found'
    <3> SUFFICES ASSUME NEW r \in processed', r.at % Second # 0
                 PROVE  /\ makeKey(ChatOf[r.msg], r.at) \in DOMAIN db'
                        /\ db'[makeKey(ChatOf[r.msg], r.at)] = Saved(r.msg, Sender(r.msg), r.at)
      BY Zenon DEF Found, makeKey, Word, Sender, Saved
    <3>1. CASE r = q
      BY <2>3, <3>1 DEF key
    <3>2. CASE r # q
      BY <2>2, <2>3, <2>6, <3>2 DEF HistoryInv, Found
    <3> QED BY <3>1, <3>2
  <2> QED BY <2>3, <2>4, <2>5, <2>7 DEF HistoryInv
<1>5. ASSUME NEW q \in receipts, Lose(q) PROVE HistoryInv'
  BY <1>5 DEF Lose, HistoryInv, HistoryTypeOK, Apart, Found, OfWriter
<1>6. CASE Interrupt \/ UNCHANGED historyVars
  BY <1>6 DEF Interrupt, historyVars, HistoryInv, HistoryTypeOK, Apart, Found, OfWriter
<1> QED
  BY <1>1, <1>2, <1>3, <1>4, <1>5, <1>6 DEF HistoryNext, HistoryStep

\* A handler of the API changes no record.
LEMMA HandlersOnlyRead ==
    ASSUME NEW r \in Request, Handler(r)
    PROVE  UNCHANGED historyVars
BY DEF Handler, QueryHandler, QueryByUserHandler, ExportHandler, Reply, Create, Write,
       WriteError, ExportError, ReadFile, RemoveFile

LEMMA NextIsHistory == [Next]_vars => [HistoryNext]_historyVars
BY HandlersOnlyRead, Zenon DEF Next, vars, HistoryNext, Exit

LEMMA RecordsInvariant == Spec => []HistoryInv
<1>1. Init => HistoryInv
  BY InitRecords DEF Init
<1>2. HistoryInv /\ [Next]_vars => HistoryInv'
  BY StepRecords, NextIsHistory
<1> QED BY <1>1, <1>2, PTL DEF Spec

\* Types, and that a record is under the key of its chat and time.
THEOREM HistoryTypes == Spec => []HistoryTypeOK
<1>1. HistoryInv => HistoryTypeOK
  BY DEF HistoryInv
<1> QED BY <1>1, RecordsInvariant, PTL

LEMMA RangeFacts == HistoryInv => RangeIsChatAndTime
<1> SUFFICES ASSUME HistoryInv, NEW c \in Int64, NEW s \in 0 .. Half - 1, NEW e \in 0 .. Half - 1
             PROVE  QueryMessages(c, s, e) =
                        {r \in {db[k] : k \in DOMAIN db} :
                            r.chat = c /\ s <= r.time /\ r.time < e}
  BY DEF RangeIsChatAndTime
<1>1. ASSUME NEW k \in DOMAIN db
      PROVE  (~ Before(k, makeKey(c, s)) /\ Before(k, makeKey(c, e)))
                 <=> (db[k].chat = c /\ s <= db[k].time /\ db[k].time < e)
  <2>1. /\ db[k].chat \in Int64 /\ db[k].time \in 0 .. Half - 1
        /\ k = makeKey(db[k].chat, db[k].time)
    BY DEF HistoryInv, HistoryTypeOK, Record, Int64
  <2> QED BY <2>1, RangeOfKeys
<1> QED BY <1>1, Zenon DEF QueryMessages

\* A range of keys is the records of a chat in an interval of time, for every
\* chat, negative ones included, and every time from 1970 on (makeKey and
\* QueryMessages compare unsigned words).
THEOREM RangesAreRight == Spec => []RangeIsChatAndTime
BY RangeFacts, RecordsInvariant, PTL

\* What processMessage has saved stays in the history (SaveMessage is a Put
\* under a key without the message, so that it may replace another record).
THEOREM SavedIsFound == Spec => []ProcessedIsFound
<1>1. HistoryInv => ProcessedIsFound
  <2> SUFFICES ASSUME HistoryInv, NEW r \in processed, r.at % Second # 0
               PROVE  Saved(r.msg, Sender(r.msg), r.at)
                          \in QueryMessages(ChatOf[r.msg], r.at, r.at + 1)
    BY DEF ProcessedIsFound, Saved
  <2>1. r.at \in 0 .. MaxTime /\ ChatOf[r.msg] \in Int64
    BY DEF HistoryInv, HistoryTypeOK, Receipt
  <2> DEFINE key == makeKey(ChatOf[r.msg], r.at)
  <2>2. key \in DOMAIN db /\ db[key] = Saved(r.msg, Sender(r.msg), r.at)
    BY DEF HistoryInv, Found
  <2>3. r.at \in 0 .. Half - 1 /\ r.at % Second # 0
    BY <2>1, TimeIsInt64
  <2>4. ~ Before(key, makeKey(ChatOf[r.msg], r.at))
    BY <2>1, <2>3 DEF Before, makeKey, Word, Int64
  <2>5. Before(key, makeKey(ChatOf[r.msg], r.at + 1))
    BY <2>1, <2>3 DEF Before, makeKey, Word, Int64
  <2> HIDE DEF key
  <2> QED BY <2>2, <2>4, <2>5 DEF QueryMessages
<1> QED BY <1>1, RecordsInvariant, PTL

\* What a query by user name returns of a message is what the updater saved.
LEMMA OneOfUser ==
    ASSUME HistoryInv, NEW m \in Message, UserName[m] # "",
           NEW r \in QueryMessagesByUser(ChatOf[m], UserName[m], 0, Half - 1), r.id = m
    PROVE  r = Saved(m, UserName[m], Date[m])
<1>1. r.from = UserName[m] /\ r.id = m
  BY DEF QueryMessagesByUser
<1>2. PICK k \in DOMAIN db : r = db[k]
  BY DEF QueryMessagesByUser, QueryMessages
<1>3. PICK n \in Message : \/ r = Saved(n, UserName[n], Date[n])
                          \/ \E t \in 0 .. MaxTime : r = Saved(n, Sender(n), t)
  BY <1>2 DEF HistoryInv, OfWriter
<1>4. \A f, t : Saved(n, f, t).id = n /\ Saved(n, f, t).from = f
  BY DEF Saved
<1>5. n = m
  <2>1. ASSUME NEW f, NEW t, r = Saved(n, f, t) PROVE r.id = n
    BY <2>1 DEF Saved
  <2>2. r.id = n
    BY <1>3, <2>1, Zenon
  <2> QED BY <1>1, <2>2
<1>6. ASSUME NEW t, r = Saved(n, Sender(n), t) PROVE FALSE
  <2>1. r.from = Sender(n)
    BY <1>4, <1>6
  <2>2. Sender(m) # UserName[m]
    BY SenderAssumption
  <2> QED BY <1>1, <1>5, <2>1, <2>2
<1> QED BY <1>3, <1>5, <1>6

HIDE HistoryAssumption

\* A query by user name returns a message once, although two writers save it:
\* the second one stores a name that no query by user name asks for.
THEOREM OncePerUserQuery == Spec => []UserQueryOnce
<1>1. ASSUME HistoryInv, NEW m \in Message, UserName[m] # ""
      PROVE  Cardinality({r \in QueryMessagesByUser(ChatOf[m], UserName[m], 0, Half - 1) :
                             r.id = m}) <= 1
  <2>1. \A r \in {r \in QueryMessagesByUser(ChatOf[m], UserName[m], 0, Half - 1) : r.id = m} :
            r = Saved(m, UserName[m], Date[m])
    BY <1>1, OneOfUser
  <2> QED BY <2>1, AtMostOne
<1>2. HistoryInv => UserQueryOnce
  BY <1>1, Zenon DEF UserQueryOnce
<1> QED BY <1>2, RecordsInvariant, PTL

-----------------------------------------------------------------------------
(* The temporary files *)

Field == {"at", "p", "second", "rows", "fd", "answer", "shared"}

\* Every file has an export that has created it and is going to remove it, or
\* had one.
FilesInv ==
    /\ DOMAIN req = Request /\ req = [r \in Request |-> req[r]]
    /\ \A r \in Request : DOMAIN req[r] = Field
    /\ files = [n \in DOMAIN files |-> files[n]]
    /\ left \subseteq DOMAIN files
    /\ LeftOnlyByFailure

LEMMA InitFiles == Init => FilesInv
<1> SUFFICES ASSUME Init PROVE FilesInv
  OBVIOUS
<1>1. DOMAIN Idle = Field
  BY DEF Idle, Field
<1>2. req = [r \in Request |-> Idle] /\ files = << >> /\ DOMAIN files = {} /\ left = {}
  BY DEF Init
<1>3. files = [n \in DOMAIN files |-> files[n]]
  BY <1>2
<1> HIDE DEF Idle
<1> QED BY <1>1, <1>2, <1>3 DEF FilesInv, LeftOnlyByFailure

\* A step of an export that keeps its file, creates it, has lost it to
\* another, or leaves it.
LEMMA FilesStep ==
    ASSUME FilesInv, NEW r \in Request,
           NEW x, DOMAIN x = Field, req' = [req EXCEPT ![r] = x],
           files' = [n \in DOMAIN files' |-> files'[n]],
           left' \subseteq DOMAIN files',
           \A n \in DOMAIN files' :
               \/ n \in left'
               \/ n \in DOMAIN files \ left /\ ~ (Removes(r) /\ NameOf(r) = n)
               \/ x.at \in {"write", "read", "remove"} /\ n = FileName(x)
    PROVE  FilesInv'
<1>1. req'[r] = x /\ DOMAIN req' = Request /\ req' = [o \in Request |-> req'[o]]
      /\ \A o \in Request \ {r} : req'[o] = req[o]
  BY DEF FilesInv
<1>2. \A o \in Request : DOMAIN req'[o] = Field
  BY <1>1 DEF FilesInv
<1>3. ASSUME NEW n \in DOMAIN files', n \notin left'
      PROVE  \E o \in Request : Removes(o)' /\ NameOf(o)' = n
  <2>1. CASE n \in DOMAIN files \ left /\ ~ (Removes(r) /\ NameOf(r) = n)
    <3>1. PICK o \in Request : Removes(o) /\ NameOf(o) = n
      BY <2>1 DEF FilesInv, LeftOnlyByFailure
    <3>2. req'[o] = req[o]
      BY <1>1, <2>1, <3>1
    <3> QED BY <3>1, <3>2 DEF Removes, NameOf
  <2>2. CASE x.at \in {"write", "read", "remove"} /\ n = FileName(x)
    BY <1>1, <2>2 DEF Removes, NameOf
  <2> QED BY <1>3, <2>1, <2>2
<1> QED BY <1>1, <1>2, <1>3 DEF FilesInv, LeftOnlyByFailure

\* The end of a handler that has no file, or leaves it.
LEMMA EndFiles ==
    ASSUME FilesInv, NEW r \in Request, End(r), UNCHANGED files,
           NEW names, left' = (left \cup names) \cap DOMAIN files,
           ~ (Removes(r) /\ NameOf(r) \in DOMAIN files \ names)
    PROVE  FilesInv'
<1> DEFINE x == Ended
<1>1. DOMAIN x = Field /\ req' = [req EXCEPT ![r] = x]
  BY DEF End, Ended, Idle, Field
<1>2. files' = [n \in DOMAIN files' |-> files'[n]] /\ files' = files
  BY DEF FilesInv
<1> HIDE DEF x
<1> QED BY <1>1, <1>2, FilesStep

LEMMA StepFiles ==
    FilesInv /\ [Next]_vars => FilesInv'
<1> SUFFICES ASSUME FilesInv, [Next]_vars PROVE FilesInv'
  OBVIOUS
<1>1. CASE UNCHANGED apiVars
  BY <1>1, Zenon DEF apiVars, FilesInv, LeftOnlyByFailure, Removes, NameOf, FileName
<1>2. ASSUME NEW r \in Request, NEW p \in Params, QueryHandler(r, p) \/ QueryByUserHandler(r, p)
      PROVE  FilesInv'
  <2>1. req[r].at = "idle" /\ UNCHANGED <<files, left>> /\ ~ Removes(r)
    BY <1>2 DEF QueryHandler, QueryByUserHandler, Removes
  <2>2. ASSUME NEW q, NEW rows, Answer(r, q, rows) PROVE FilesInv'
    <3> DEFINE x == [req[r] EXCEPT !.at = "answer", !.p = q, !.answer = rows]
    <3>1. DOMAIN x = Field
      BY DEF FilesInv
    <3>2. req' = [req EXCEPT ![r] = x]
      BY <2>2 DEF Answer
    <3> HIDE DEF x
    <3> QED BY <2>1, <3>1, <3>2, FilesStep DEF FilesInv
  <2>3. CASE End(r)
    <3>1. left' = (left \cup {}) \cap DOMAIN files
      BY <2>1 DEF FilesInv
    <3> QED BY <2>1, <2>3, <3>1, EndFiles
  <2> QED BY <1>2, <2>2, <2>3 DEF QueryHandler, QueryByUserHandler
<1>4. ASSUME NEW r \in Request, Reply(r) PROVE FilesInv'
  <2>1. left' = (left \cup {}) \cap DOMAIN files /\ UNCHANGED files
    BY <1>4 DEF Reply, FilesInv
  <2> QED BY <1>4, <2>1, EndFiles DEF Reply, Removes
<1>5. ASSUME NEW r \in Request, Create(r) PROVE FilesInv'
  <2>1. PICK f : /\ files' = [n \in DOMAIN files \cup {NameOf(r)} |->
                                IF n = NameOf(r) THEN f ELSE files[n]]
                 /\ req' = [req EXCEPT ![r].at = "write", ![r].fd = f,
                                       ![r].rows = Rows(req[r].p)]
    BY <1>5 DEF Create
  <2> DEFINE x == [req[r] EXCEPT !.at = "write", !.fd = f, !.rows = Rows(req[r].p)]
  <2>2. req' = [req EXCEPT ![r] = x]
    BY <2>1
  <2>3. DOMAIN x = Field /\ x.at = "write" /\ x.p = req[r].p /\ x.second = req[r].second
    BY DEF FilesInv, Field
  <2>4. req[r].at = "create" /\ left' = left
    BY <1>5 DEF Create
  <2>5. files' = [n \in DOMAIN files \cup {NameOf(r)} |-> files'[n]]
        /\ DOMAIN files' = DOMAIN files \cup {NameOf(r)}
    BY <2>1
  <2> HIDE DEF x
  <2>6. FileName(x) = NameOf(r)
    BY <2>3 DEF NameOf, FileName
  <2> QED BY <2>2, <2>3, <2>4, <2>5, <2>6, FilesStep DEF Removes, FilesInv
<1>6. ASSUME NEW r \in Request, req[r].at = "write", Closed(r), UNCHANGED <<files, left>>
      PROVE  FilesInv'
  <2> DEFINE x == [req[r] EXCEPT !.at = "read", !.fd = NoFile]
  <2>2. req' = [req EXCEPT ![r] = x]
    BY <1>6 DEF Closed
  <2>3. DOMAIN x = Field /\ x.at = "read" /\ x.p = req[r].p /\ x.second = req[r].second
    BY DEF FilesInv, Field
  <2>4. files' = [n \in DOMAIN files' |-> files'[n]]
    BY <1>6 DEF FilesInv
  <2> HIDE DEF x
  <2>6. FileName(x) = NameOf(r)
    BY <2>3 DEF NameOf, FileName
  <2> QED BY <1>6, <2>2, <2>3, <2>4, <2>6, FilesStep DEF Removes, FilesInv
<1>7. ASSUME NEW r \in Request, Write(r) PROVE FilesInv'
  BY <1>6, <1>7 DEF Write
<1>8. ASSUME NEW r \in Request, WriteError(r) \/ ExportError(r) PROVE FilesInv'
  <2>1. UNCHANGED files
    BY <1>8 DEF WriteError, ExportError
  <2>2. CASE End(r) /\ \/ Leave({NameOf(r)})
                       \/ Leave({}) /\ req[r].at = "create"
    <3>1. \A names : Leave(names) => left' = (left \cup names) \cap DOMAIN files
      BY <2>1 DEF Leave
    <3> QED BY <2>1, <2>2, <3>1, EndFiles DEF Removes
  <2>3. CASE Closed(r) /\ UNCHANGED left /\ req[r].at = "write"
    BY <2>1, <2>3, <1>6
  <2> QED BY <1>8, <2>2, <2>3 DEF WriteError, ExportError
<1>9. ASSUME NEW r \in Request, ReadFile(r) PROVE FilesInv'
  <2>1. req[r].at = "read" /\ UNCHANGED <<files, left>>
    BY <1>9 DEF ReadFile
  <2>2. CASE End(r) /\ ~ Exists(NameOf(r))
    <3>1. left' = (left \cup {}) \cap DOMAIN files
      BY <2>1 DEF FilesInv
    <3> QED BY <2>1, <2>2, <3>1, EndFiles DEF Exists
  <2>3. CASE req' = [req EXCEPT ![r].at = "remove", ![r].answer = content[files[NameOf(r)]]]
    <3> DEFINE x == [req[r] EXCEPT !.at = "remove", !.answer = content[files[NameOf(r)]]]
    <3>2. req' = [req EXCEPT ![r] = x]
      BY <2>3
    <3>3. DOMAIN x = Field /\ x.at = "remove" /\ x.p = req[r].p /\ x.second = req[r].second
      BY DEF FilesInv, Field
    <3>4. files' = [n \in DOMAIN files' |-> files'[n]]
      BY <2>1 DEF FilesInv
    <3> HIDE DEF x
    <3>6. FileName(x) = NameOf(r)
      BY <3>3 DEF NameOf, FileName
    <3> QED BY <2>1, <3>2, <3>3, <3>4, <3>6, FilesStep DEF Removes, FilesInv
  <2> QED BY <1>9, <2>2, <2>3 DEF ReadFile
<1>10. ASSUME NEW r \in Request, RemoveFile(r) PROVE FilesInv'
  <2> DEFINE x == Ended
  <2>1. DOMAIN x = Field /\ req' = [req EXCEPT ![r] = x]
    BY <1>10 DEF RemoveFile, End, Ended, Idle, Field
  <2>2. files' = [n \in DOMAIN files \ {NameOf(r)} |-> files[n]] /\ left' = left \ {NameOf(r)}
    BY <1>10 DEF RemoveFile
  <2>3. files' = [n \in DOMAIN files' |-> files'[n]] /\ DOMAIN files' = DOMAIN files \ {NameOf(r)}
    BY <2>2
  <2>4. left' \subseteq DOMAIN files'
    BY <2>2, <2>3 DEF FilesInv
  <2> HIDE DEF x
  <2> QED BY <2>1, <2>2, <2>3, <2>4, FilesStep
<1>11. ASSUME NEW r \in Request, NEW p \in Params, ExportHandler(r, p) PROVE FilesInv'
  <2>1. req[r].at = "idle" /\ UNCHANGED <<files, left>>
    BY <1>11 DEF ExportHandler
  <2>2. DOMAIN req' = Request /\ req' = [o \in Request |-> req'[o]]
    BY <1>11 DEF ExportHandler
  <2>3. DOMAIN req'[r] = Field
    BY <1>11 DEF ExportHandler, Idle, Field
  <2>4. \A o \in Request \ {r} : /\ DOMAIN req'[o] = Field
                                 /\ req'[o].at = req[o].at
                                 /\ req'[o].p = req[o].p
                                 /\ req'[o].second = req[o].second
    <3> TAKE o \in Request \ {r}
    <3>1. \E b : req'[o] = [req[o] EXCEPT !.shared = b]
      BY <1>11, Zenon DEF ExportHandler
    <3> QED BY <3>1 DEF FilesInv, Field
  <2>5. ASSUME NEW n \in DOMAIN files', n \notin left'
        PROVE  \E o \in Request : Removes(o)' /\ NameOf(o)' = n
    <3>1. PICK o \in Request : Removes(o) /\ NameOf(o) = n
      BY <2>1, <2>5 DEF FilesInv, LeftOnlyByFailure
    <3>2. o # r
      BY <2>1, <3>1 DEF Removes
    <3> QED BY <2>4, <3>1, <3>2 DEF Removes, NameOf, FileName
  <2> QED BY <2>1, <2>2, <2>3, <2>4, <2>5 DEF FilesInv, LeftOnlyByFailure
<1>12. CASE Exit
  <2>1. /\ req' = [r \in Request |-> IF req[r].at = "idle" THEN Idle ELSE Ended]
        /\ files' = files
        /\ left' = (left \cup {NameOf(r) : r \in {o \in Request : Removes(o)}}) \cap DOMAIN files
    BY <1>12 DEF Exit, Leave
  <2>2. DOMAIN Idle = Field /\ DOMAIN Ended = Field
    BY DEF Idle, Ended, Field
  <2>3. \A r \in Request : DOMAIN req'[r] = Field
    BY <2>1, <2>2
  <2>4. DOMAIN req' = Request /\ req' = [r \in Request |-> req'[r]]
    BY <2>1
  <2>5. \A n \in DOMAIN files' : n \in left'
    BY <2>1 DEF FilesInv, LeftOnlyByFailure
  <2> QED BY <2>1, <2>3, <2>4, <2>5 DEF FilesInv, LeftOnlyByFailure
<1> QED
  BY <1>1, <1>2, <1>4, <1>5, <1>7, <1>8, <1>9, <1>10, <1>11, <1>12 DEF Next, Handler, vars

LEMMA FilesInvariant == Spec => []FilesInv
BY InitFiles, StepFiles, PTL DEF Spec

\* A temporary file without an export that is going to remove it was left by
\* one that failed or that the process did not outlive, however many exports
\* share a name (os.Create, ReadFile and the deferred Remove of ExportHandler,
\* in whatever order).
THEOREM FilesAreRemoved == Spec => []LeftOnlyByFailure
<1>1. FilesInv => LeftOnlyByFailure
  BY DEF FilesInv
<1> QED BY <1>1, FilesInvariant, PTL

-----------------------------------------------------------------------------
(* The rows of an answer *)

\* A finite set of records with different times can be put in their order:
\* a record comes after as many others as are older.
LEMMA OrderOfTimes ==
    ASSUME NEW S, IsFiniteSet(S),
           \A x \in S : x.time \in Int,
           \A x, y \in S : x.time = y.time => x = y
    PROVE  \E s \in [1 .. Cardinality(S) -> S] :
               \A i, j \in DOMAIN s : i < j => s[i].time < s[j].time
<1> DEFINE n == Cardinality(S)
           older(x) == {y \in S : y.time < x.time}
           rank == [x \in S |-> Cardinality(older(x)) + 1]
<1>1. n \in Nat
  BY FS_CardinalityType
<1>2. ASSUME NEW x \in S
      PROVE  IsFiniteSet(older(x)) /\ Cardinality(older(x)) \in 0 .. n - 1
  <2>1. IsFiniteSet(S \ {x}) /\ Cardinality(S \ {x}) = n - 1
    BY FS_RemoveElement
  <2>2. older(x) \in SUBSET (S \ {x})
    OBVIOUS
  <2>3. IsFiniteSet(older(x)) /\ Cardinality(older(x)) <= n - 1
    BY <2>1, <2>2, FS_Subset
  <2>4. Cardinality(older(x)) \in Nat
    BY <2>3, FS_CardinalityType
  <2> QED BY <1>1, <2>3, <2>4
<1>3. ASSUME NEW x \in S, NEW y \in S, x.time < y.time
      PROVE  Cardinality(older(x)) < Cardinality(older(y))
  <2>1. older(x) \cup {x} \in SUBSET older(y) /\ x \notin older(x)
    BY <1>3
  <2>2. Cardinality(older(x) \cup {x}) = Cardinality(older(x)) + 1
    BY <1>2, <2>1, FS_AddElement
  <2>3. Cardinality(older(x) \cup {x}) <= Cardinality(older(y))
    BY <1>2, <2>1, FS_Subset
  <2> HIDE DEF older, n
  <2> QED BY <1>1, <1>2, <2>2, <2>3
<1> HIDE DEF older, n
<1>4. rank \in [S -> 1 .. n] /\ \A x \in S : rank[x] = Cardinality(older(x)) + 1
  BY <1>1, <1>2
<1> HIDE DEF rank
<1>5. \A x, y \in S : x.time < y.time => rank[x] < rank[y]
  BY <1>1, <1>2, <1>3, <1>4
<1>6. rank \in Injection(S, 1 .. n)
  <2>1. \A x, y \in S : rank[x] = rank[y] => x = y
    BY <1>4, <1>5
  <2> QED BY <1>4, <2>1 DEF Injection, IsInjective
<1>7. rank \in Surjection(S, 1 .. n)
  <2>1. IsFiniteSet(1 .. n) /\ Cardinality(1 .. n) = n
    BY <1>1, FS_Interval
  <2> QED BY <1>6, <2>1, FS_Injection DEF n
<1> DEFINE s == [i \in 1 .. n |-> CHOOSE x \in S : rank[x] = i]
<1>8. \A i \in 1 .. n : s[i] \in S /\ rank[s[i]] = i
  BY <1>7 DEF Surjection
<1>9. s \in [1 .. n -> S] /\ DOMAIN s = 1 .. n
  BY <1>8
<1> HIDE DEF s
<1>10. ASSUME NEW i \in 1 .. n, NEW j \in 1 .. n, i < j PROVE s[i].time < s[j].time
  BY <1>1, <1>5, <1>8, <1>10
<1> QED BY <1>9, <1>10 DEF n

Finite == IsFiniteSet(DOMAIN db)

LEMMA StepFinite ==
    Finite /\ [HistoryNext]_historyVars => Finite'
<1> SUFFICES ASSUME Finite, [HistoryNext]_historyVars PROVE Finite'
  OBVIOUS
<1>1. ASSUME NEW m, NEW from, NEW t, SaveMessage(m, from, t) PROVE Finite'
  <2>1. DOMAIN db' = DOMAIN db \cup {makeKey(ChatOf[m], t)}
    BY <1>1 DEF SaveMessage
  <2> QED BY <2>1, FS_AddElement DEF Finite
<1>2. UNCHANGED db \/ \E m, from, t : SaveMessage(m, from, t)
  BY Zenon DEF HistoryNext, HistoryStep, Tick, Update, Build, Process, Lose, Interrupt, historyVars
<1> QED BY <1>1, <1>2 DEF Finite

LEMMA RecordsFinite == Spec => []Finite
<1>1. Init => Finite
  BY FS_EmptySet DEF Init, HistoryInit, Finite
<1>2. Finite /\ [Next]_vars => Finite'
  BY StepFinite, NextIsHistory
<1> QED BY <1>1, <1>2, PTL DEF Spec

\* Whatever the interval, times before 1970 included, the keys between two of
\* a chat are of that chat, and no two of their records have the same time.
LEMMA MatchingFacts ==
    ASSUME HistoryInv, Finite, NEW p, p.chat \in Int64
    PROVE  /\ IsFiniteSet(Matching(p))
           /\ \A x \in Matching(p) : x \in Record /\ x.chat = p.chat /\ x.time \in 0 .. Half - 1
           /\ \A x, y \in Matching(p) : x.time = y.time => x = y
<1> DEFINE all == {db[k] : k \in DOMAIN db}
<1>1. Matching(p) \in SUBSET QueryMessages(p.chat, p.start, p.end)
  BY DEF Matching, QueryMessagesByUser
<1>2. ASSUME NEW x \in Matching(p)
      PROVE  /\ x \in all /\ x \in Record /\ x.chat = p.chat /\ x.time \in 0 .. Half - 1
             /\ makeKey(p.chat, x.time) \in DOMAIN db
             /\ x = db[makeKey(p.chat, x.time)]
  <2>1. PICK k \in DOMAIN db : /\ x = db[k]
                              /\ ~ Before(k, makeKey(p.chat, p.start))
                              /\ Before(k, makeKey(p.chat, p.end))
    BY <1>1 DEF QueryMessages
  <2>2. x \in Record /\ k = makeKey(x.chat, x.time) /\ x.time >= 0
    BY <2>1 DEF HistoryInv, HistoryTypeOK
  <2>3. x.chat \in Int64 /\ x.time \in 0 .. Half - 1
    BY <2>2 DEF Record, Int64
  <2>4. Word(x.chat) = Word(p.chat)
    BY <2>1, <2>2 DEF Before, makeKey
  <2>5. x.chat = p.chat
    BY <2>3, <2>4, WordFacts
  <2> QED BY <2>1, <2>2, <2>3, <2>5
<1>3. IsFiniteSet(all)
  <2> DEFINE f == [k \in DOMAIN db |-> db[k]]
  <2>1. f \in Surjection(DOMAIN db, all)
    BY DEF Surjection
  <2> QED BY <2>1, FS_Surjection DEF Finite
<1>4. IsFiniteSet(Matching(p))
  <2>1. Matching(p) \in SUBSET all
    BY <1>2
  <2> QED BY <1>3, <2>1, FS_Subset
<1> HIDE DEF all
<1>5. \A x, y \in Matching(p) : x.time = y.time => x = y
  BY <1>2
<1> QED BY <1>2, <1>4, <1>5

\* The records of one chat.
RowsOf(c) == Seq({x \in Record : x.chat = c})

\* The keys of two records of a chat are in the order of their times.
LEMMA KeysInOrder ==
    ASSUME NEW x, NEW y, x.chat \in Int64, y.chat = x.chat,
           x.time \in 0 .. Half - 1, y.time \in 0 .. Half - 1
    PROVE  Before(KeyOf(x), KeyOf(y)) <=> x.time < y.time
<1>1. Word(x.time) = x.time /\ Word(y.time) = y.time /\ Word(x.chat) \in Int
  BY WordFacts
<1>2. KeyOf(x) = <<Word(x.chat), x.time>> /\ KeyOf(y) = <<Word(x.chat), y.time>>
  BY <1>1 DEF KeyOf, makeKey
<1> HIDE DEF Word
<1> QED BY <1>1, <1>2 DEF Before

\* The rows are the records that match, the oldest first.
LEMMA RowsFacts ==
    ASSUME HistoryInv, Finite, NEW p, p.chat \in Int64
    PROVE  /\ Rows(p) \in RowsOf(p.chat)
           /\ Range(Rows(p)) = Matching(p)
           /\ \A i, j \in DOMAIN Rows(p) : i < j => Rows(p)[i].time < Rows(p)[j].time
<1> DEFINE S == Matching(p)
           n == Cardinality(S)
<1>1. IsFiniteSet(S) /\ n \in Nat
  BY MatchingFacts, FS_CardinalityType
<1>2. \A x \in S : x \in Record /\ x.chat = p.chat /\ x.time \in 0 .. Half - 1 /\ x.time \in Int
  BY MatchingFacts
<1>3. \A x, y \in S : Before(KeyOf(x), KeyOf(y)) <=> x.time < y.time
  BY <1>2, KeysInOrder
<1>4. \E s \in [1 .. n -> S] : \A i, j \in DOMAIN s : i < j => s[i].time < s[j].time
  BY <1>1, <1>2, MatchingFacts, OrderOfTimes
<1>5. Rows(p) = CHOOSE s \in [1 .. n -> S] :
                    \A i, j \in DOMAIN s : i < j => Before(KeyOf(s[i]), KeyOf(s[j]))
  BY DEF Rows
<1> HIDE DEF S, n
<1>6. \E s \in [1 .. n -> S] : \A i, j \in DOMAIN s : i < j => Before(KeyOf(s[i]), KeyOf(s[j]))
  BY <1>3, <1>4
<1> DEFINE t == Rows(p)
<1>7. /\ t \in [1 .. n -> S]
      /\ \A i, j \in DOMAIN t : i < j => Before(KeyOf(t[i]), KeyOf(t[j]))
  BY <1>5, <1>6
<1> HIDE DEF t
<1>8. \A i, j \in 1 .. n : i < j => t[i].time < t[j].time
  BY <1>3, <1>7
<1>9. t \in Injection(1 .. n, S)
  <2>1. \A i, j \in 1 .. n : t[i] = t[j] => i = j
    <3>1. ASSUME NEW i \in 1 .. n, NEW j \in 1 .. n, i < j PROVE t[i] # t[j]
      <4>1. t[i].time < t[j].time /\ t[i].time \in Int /\ t[j].time \in Int
        BY <1>2, <1>7, <1>8, <3>1
      <4> QED BY <4>1
    <3> QED BY <3>1
  <2> QED BY <1>7, <2>1 DEF Injection, IsInjective
<1>10. Range(t) = S
  <2>1. IsFiniteSet(1 .. n) /\ Cardinality(1 .. n) = n
    BY <1>1, FS_Interval
  <2>2. t \in Surjection(1 .. n, S)
    BY <1>1, <1>9, <2>1, FS_Injection DEF n
  <2> QED BY <1>7, <2>2 DEF Surjection, Range
<1>11. S \in SUBSET {x \in Record : x.chat = p.chat}
  BY <1>2
<1>12. t \in Seq({x \in Record : x.chat = p.chat})
  BY <1>1, <1>7, <1>11
<1> QED BY <1>7, <1>8, <1>10, <1>12 DEF RowsOf, S, t

-----------------------------------------------------------------------------
(* Exports that share a file *)

IsParameter(p) == p.chat \in Int64 /\ p.start \in Int64 /\ p.end \in Int64

LEMMA ParameterFacts ==
    /\ IsParameter(NoParams)
    /\ \A p \in Params :
           /\ IsParameter(p)
           /\ IsParameter([p EXCEPT !.user = ""])
           /\ [p EXCEPT !.user = ""].user = ""
<1>1. 0 \in Int64
  BY HistoryAssumption DEF Int64
<1>2. IsParameter(NoParams)
  BY <1>1 DEF NoParams, IsParameter
<1>3. ASSUME NEW p \in Params
      PROVE  /\ IsParameter(p)
             /\ IsParameter([p EXCEPT !.user = ""])
             /\ [p EXCEPT !.user = ""].user = ""
  BY APIAssumption DEF IsParameter
<1> QED BY <1>2, <1>3

\* Types, and that what a handler has found and answers is of its chat.
Answers ==
    /\ \A r \in Request :
           /\ req[r].at \in {"idle", "create", "write", "read", "remove", "answer", "end"}
           /\ IsParameter(req[r].p)
           /\ req[r].fd \in IF req[r].at = "write" THEN Request ELSE {NoFile}
           /\ req[r].rows \in RowsOf(req[r].p.chat)
           /\ req[r].answer \in RowsOf(req[r].p.chat)
           /\ req[r].at = "idle" => req[r].rows = << >>
    /\ faulty \subseteq Request

\* A file has one name, which all who write to it mean; and an export that
\* has created nothing yet has given its name to no file.
OneName ==
    /\ \A n \in DOMAIN files : files[n] \in Request
    /\ \A m, n \in DOMAIN files : files[m] = files[n] => m = n
    /\ \A r \in Request :
           req[r].at = "write" =>
               /\ \A n \in DOMAIN files : files[n] = req[r].fd => n = NameOf(r)
               /\ \A o \in Request : req[o].fd = req[r].fd => NameOf(o) = NameOf(r)
    /\ \A r \in Request :
           req[r].at \in {"idle", "create"} =>
               /\ \A n \in DOMAIN files : files[n] # r
               /\ \A o \in Request : req[o].fd # r

\* A file holds rows of the chat of its name and of its writers.
OneChat ==
    /\ DOMAIN content = Request /\ content = [f \in Request |-> content[f]]
    /\ \A n \in DOMAIN files : content[files[n]] \in RowsOf(n[1])
    /\ \A r \in Request : req[r].at = "write" => content[req[r].fd] \in RowsOf(req[r].p.chat)

\* Two exports of one name know of each other.
Met ==
    \A r, o \in Request :
        r # o /\ Exporting(r) /\ Exporting(o) /\ NameOf(r) = NameOf(o) =>
            req[r].shared /\ req[o].shared

\* The file of an export that is alone is as the export has left it.
Undisturbed(r) ==
    /\ req[r].at = "write" =>
           /\ Exists(NameOf(r)) /\ files[NameOf(r)] = req[r].fd
           /\ content[req[r].fd] = << >>
    /\ req[r].at = "read" => Exists(NameOf(r)) /\ content[files[NameOf(r)]] = req[r].rows
    /\ req[r].at = "remove" => req[r].answer = req[r].rows

Alone == \A r \in Request \ faulty : ~ req[r].shared => Undisturbed(r)

APIInv == Answers /\ OneName /\ OneChat /\ Met /\ Alone

\* What all the actions of a handler r leave of another one.
Same(o) ==
    /\ req'[o].at = req[o].at /\ req'[o].p = req[o].p /\ req'[o].second = req[o].second
    /\ req'[o].rows = req[o].rows /\ req'[o].fd = req[o].fd
    /\ req'[o].answer = req[o].answer
    /\ req[o].shared => req'[o].shared

LEMMA OthersSame ==
    ASSUME FilesInv, NEW r \in Request, Handler(r)
    PROVE  \A o \in Request \ {r} : Same(o)
<1>1. ASSUME NEW x, req' = [req EXCEPT ![r] = x]
      PROVE  \A o \in Request \ {r} : Same(o)
  <2>1. \A o \in Request \ {r} : req'[o] = req[o]
    BY <1>1 DEF FilesInv
  <2> QED BY <2>1, Zenon DEF Same
<1>2. ASSUME NEW p \in Params, ExportHandler(r, p)
      PROVE  \A o \in Request \ {r} : Same(o)
  <2> TAKE o \in Request \ {r}
  <2>1. \E b : req'[o] = [req[o] EXCEPT !.shared = b] /\ (req[o].shared => b)
    BY <1>2, Zenon DEF ExportHandler
  <2> QED BY <2>1 DEF FilesInv, Field, Same
<1>3. ASSUME NEW p \in Params, QueryHandler(r, p) \/ QueryByUserHandler(r, p)
      PROVE  \E x : req' = [req EXCEPT ![r] = x]
  BY <1>3, Zenon DEF QueryHandler, QueryByUserHandler, Answer, End
<1>4. CASE Reply(r) \/ Create(r) \/ Write(r) \/ ReadFile(r) \/ RemoveFile(r)
           \/ WriteError(r) \/ ExportError(r)
  <2>1. \E x : req' = [req EXCEPT ![r] = x]
    BY <1>4 DEF Reply, Create, Write, ReadFile, RemoveFile, WriteError, ExportError,
                End, Closed
  <2> QED BY <1>1, <2>1
<1> QED BY <1>1, <1>2, <1>3, <1>4 DEF Handler

\* What an action leaves of its own handler.
LEMMA Answering ==
    ASSUME FilesInv, NEW r \in Request, NEW q, NEW rows, Answer(r, q, rows)
    PROVE  /\ req'[r].at = "answer" /\ req'[r].p = q /\ req'[r].answer = rows
           /\ req'[r].rows = req[r].rows /\ req'[r].fd = req[r].fd
BY DEF Answer, FilesInv, Field

LEMMA Ending ==
    ASSUME FilesInv, NEW r \in Request, End(r)
    PROVE  /\ req'[r].at = "end" /\ req'[r].p = NoParams /\ req'[r].answer = << >>
           /\ req'[r].rows = << >> /\ req'[r].fd = NoFile
BY DEF End, Ended, Idle, FilesInv

\* What the end of the process leaves: of a request, whether it was made; of
\* the files, what was on the disk.
LEMMA Exiting ==
    ASSUME Exit
    PROVE  /\ \A r \in Request :
                 /\ req'[r].at = (IF req[r].at = "idle" THEN "idle" ELSE "end")
                 /\ req'[r].p = NoParams /\ req'[r].answer = << >>
                 /\ req'[r].rows = << >> /\ req'[r].fd = NoFile
           /\ UNCHANGED <<files, faulty>> /\ Keep(content)
<1>1. /\ Idle.at = "idle" /\ Idle.p = NoParams /\ Idle.answer = << >>
      /\ Idle.rows = << >> /\ Idle.fd = NoFile
  BY DEF Idle
<1>2. /\ Ended.at = "end" /\ Ended.p = NoParams /\ Ended.answer = << >>
      /\ Ended.rows = << >> /\ Ended.fd = NoFile
  BY DEF Ended, Idle
<1>3. /\ req' = [r \in Request |-> IF req[r].at = "idle" THEN Idle ELSE Ended]
      /\ UNCHANGED <<files, faulty>> /\ Keep(content)
  BY DEF Exit
<1> HIDE DEF Idle, Ended, NoParams
<1>4. ASSUME NEW r \in Request
      PROVE  /\ req'[r].at = (IF req[r].at = "idle" THEN "idle" ELSE "end")
             /\ req'[r].p = NoParams /\ req'[r].answer = << >>
             /\ req'[r].rows = << >> /\ req'[r].fd = NoFile
  BY <1>1, <1>2, <1>3
<1> QED BY <1>3, <1>4

LEMMA Starting ==
    ASSUME FilesInv, NEW r \in Request, NEW p, ExportHandler(r, p)
    PROVE  /\ req'[r].at = "create" /\ req'[r].p = p /\ req'[r].answer = << >>
           /\ req'[r].rows = << >> /\ req'[r].fd = NoFile
           /\ req'[r].second = clock - (clock % Second)
BY DEF ExportHandler, Idle

LEMMA Creating ==
    ASSUME FilesInv, NEW r \in Request, Create(r)
    PROVE  LET f == IF Exists(NameOf(r)) THEN files[NameOf(r)] ELSE r
           IN  /\ req'[r].at = "write" /\ req'[r].p = req[r].p
               /\ req'[r].second = req[r].second /\ req'[r].shared = req[r].shared
               /\ req'[r].answer = req[r].answer
               /\ req'[r].rows = Rows(req[r].p) /\ req'[r].fd = f
<1> DEFINE f == IF Exists(NameOf(r)) THEN files[NameOf(r)] ELSE r
           rows == Rows(req[r].p)
<1>1. req' = [req EXCEPT ![r].at = "write", ![r].fd = f, ![r].rows = rows]
  BY DEF Create
<1> HIDE DEF f, rows
<1>2. /\ req'[r].at = "write" /\ req'[r].p = req[r].p
      /\ req'[r].second = req[r].second /\ req'[r].shared = req[r].shared
      /\ req'[r].answer = req[r].answer
      /\ req'[r].rows = rows /\ req'[r].fd = f
  BY <1>1 DEF FilesInv, Field
<1> QED BY <1>2 DEF f, rows

LEMMA Closing ==
    ASSUME FilesInv, NEW r \in Request, Closed(r)
    PROVE  /\ req'[r].at = "read" /\ req'[r].p = req[r].p
           /\ req'[r].second = req[r].second /\ req'[r].shared = req[r].shared
           /\ req'[r].answer = req[r].answer
           /\ req'[r].rows = req[r].rows /\ req'[r].fd = NoFile
BY DEF Closed, FilesInv, Field

LEMMA Reading ==
    ASSUME FilesInv, NEW r \in Request, ReadFile(r)
    PROVE  IF Exists(NameOf(r))
           THEN /\ req'[r].at = "remove" /\ req'[r].p = req[r].p
                /\ req'[r].second = req[r].second /\ req'[r].shared = req[r].shared
                /\ req'[r].answer = content[files[NameOf(r)]]
                /\ req'[r].rows = req[r].rows /\ req'[r].fd = req[r].fd
           ELSE End(r)
<1> DEFINE found == content[files[NameOf(r)]]
<1>1. CASE Exists(NameOf(r))
  <2>1. req' = [req EXCEPT ![r].at = "remove", ![r].answer = found]
    BY <1>1 DEF ReadFile
  <2> HIDE DEF found
  <2>2. /\ req'[r].at = "remove" /\ req'[r].p = req[r].p
        /\ req'[r].second = req[r].second /\ req'[r].shared = req[r].shared
        /\ req'[r].answer = found
        /\ req'[r].rows = req[r].rows /\ req'[r].fd = req[r].fd
    BY <2>1 DEF FilesInv, Field
  <2> QED BY <1>1, <2>2 DEF found
<1>2. CASE ~ Exists(NameOf(r))
  BY <1>2 DEF ReadFile
<1> QED BY <1>1, <1>2

\* What a write leaves of a file is rows of one chat if what was in it is.
LEMMA OverRows ==
    ASSUME NEW c, NEW rows \in RowsOf(c), NEW old \in RowsOf(c), NEW n \in 0 .. Len(rows)
    PROVE  Over(SubSeq(rows, 1, n), old) \in RowsOf(c)
<1> DEFINE S == {x \in Record : x.chat = c}
           t == SubSeq(rows, 1, n)
<1>1. rows \in Seq(S) /\ old \in Seq(S) /\ RowsOf(c) = Seq(S)
  BY DEF RowsOf
<1> HIDE DEF S
<1>2. t \in Seq(S)
  BY <1>1
<1> HIDE DEF t
<1>3. SubSeq(old, Len(t) + 1, Len(old)) \in Seq(S)
  BY <1>1, <1>2
<1>4. Over(t, old) \in Seq(S)
  BY <1>2, <1>3 DEF Over
<1> QED BY <1>1, <1>4 DEF t

LEMMA OverNothing ==
    ASSUME NEW c, NEW rows \in RowsOf(c)
    PROVE  Over(SubSeq(rows, 1, Len(rows)), << >>) = rows
<1> DEFINE S == {x \in Record : x.chat = c}
<1>1. rows \in Seq(S)
  BY DEF RowsOf
<1> HIDE DEF S
<1>2. SubSeq(rows, 1, Len(rows)) = rows
  BY <1>1
<1>3. SubSeq(<< >>, Len(rows) + 1, 0) = << >>
  BY <1>1
<1>4. rows \o << >> = rows
  BY <1>1
<1> QED BY <1>2, <1>3, <1>4 DEF Over

LEMMA NoRows == \A c : << >> \in RowsOf(c)
BY DEF RowsOf

\* The types, when a handler moves on.
LEMMA AnswersStep ==
    ASSUME Answers, NEW r \in Request, \A o \in Request \ {r} : Same(o),
           req'[r].at \in {"create", "write", "read", "remove", "answer", "end"},
           IsParameter(req'[r].p),
           req'[r].fd \in IF req'[r].at = "write" THEN Request ELSE {NoFile},
           req'[r].rows \in RowsOf(req'[r].p.chat),
           req'[r].answer \in RowsOf(req'[r].p.chat),
           faulty' \in {faulty, faulty \cup {r}}
    PROVE  Answers'
<1>1. faulty' \subseteq Request
  BY DEF Answers
<1>2. ASSUME NEW o \in Request
      PROVE  /\ req'[o].at \in {"idle", "create", "write", "read", "remove", "answer", "end"}
             /\ IsParameter(req'[o].p)
             /\ req'[o].fd \in IF req'[o].at = "write" THEN Request ELSE {NoFile}
             /\ req'[o].rows \in RowsOf(req'[o].p.chat)
             /\ req'[o].answer \in RowsOf(req'[o].p.chat)
             /\ req'[o].at = "idle" => req'[o].rows = << >>
  <2>1. CASE o = r
    BY <2>1
  <2>2. CASE o # r
    BY <2>2 DEF Same, Answers
  <2> QED BY <2>1, <2>2
<1> QED BY <1>1, <1>2, Zenon DEF Answers, RowsOf, Record, Int64, IsParameter

\* The files, when a handler moves on that does not create one: the names may
\* become fewer, and only its own file gets other rows.
LEMMA FilesKept ==
    ASSUME Answers, OneName, OneChat, NEW r \in Request,
           \A o \in Request \ {r} : Same(o),
           \A n \in DOMAIN files' : n \in DOMAIN files /\ files'[n] = files[n],
           req'[r].at # "write", req'[r].fd = NoFile,
           req'[r].at \in {"idle", "create"} => req[r].at \in {"idle", "create"},
           DOMAIN content' = Request /\ content' = [f \in Request |-> content'[f]],
           \A f \in Request :
               \/ content'[f] = << >>
               \/ content'[f] = content[f]
               \/ /\ req[r].at = "write" /\ f = req[r].fd
                  /\ content'[f] \in RowsOf(req[r].p.chat)
    PROVE  OneName' /\ OneChat'
<1>1. NoFile \notin Request
  BY APIAssumption
<1>2. ASSUME NEW o \in Request, req'[o].at = "write"
      PROVE  o # r /\ Same(o) /\ req[o].at = "write" /\ NameOf(o)' = NameOf(o)
  BY <1>2 DEF Same, NameOf, FileName
<1>3. \A o \in Request : req'[o].fd \in {req[o].fd, NoFile}
  BY DEF Same
<1>4. ASSUME NEW o \in Request, req'[o].at \in {"idle", "create"}
      PROVE  req[o].at \in {"idle", "create"}
  BY <1>4 DEF Same
<1>5. OneName'
  <2>1. ASSUME NEW o \in Request, req'[o].at = "write"
        PROVE  /\ \A n \in DOMAIN files' : files'[n] = req'[o].fd => n = NameOf(o)'
               /\ \A q \in Request : req'[q].fd = req'[o].fd => NameOf(q)' = NameOf(o)'
    <3>1. req'[o].fd = req[o].fd /\ req[o].fd \in Request
      BY <1>2, <2>1 DEF Same, Answers
    <3>2. \A n \in DOMAIN files' : files'[n] = req'[o].fd => n = NameOf(o)'
      BY <1>2, <2>1, <3>1 DEF OneName
    <3>3. ASSUME NEW q \in Request, req'[q].fd = req'[o].fd
          PROVE  NameOf(q)' = NameOf(o)'
      <4>1. req[q].fd = req[o].fd /\ q # r
        BY <1>1, <1>3, <3>1, <3>3
      <4>2. NameOf(q)' = NameOf(q)
        BY <4>1 DEF Same, NameOf, FileName
      <4> QED BY <1>2, <2>1, <4>1, <4>2 DEF OneName
    <3> QED BY <3>2, <3>3
  <2>2. ASSUME NEW o \in Request, req'[o].at \in {"idle", "create"}
        PROVE  /\ \A n \in DOMAIN files' : files'[n] # o
               /\ \A q \in Request : req'[q].fd # o
    BY <1>1, <1>3, <1>4, <2>2 DEF OneName
  <2>3. /\ \A n \in DOMAIN files' : files'[n] \in Request
        /\ \A m, n \in DOMAIN files' : files'[m] = files'[n] => m = n
    BY DEF OneName
  <2> QED BY <2>1, <2>2, <2>3, Zenon DEF OneName, NameOf, FileName
<1>6. OneChat'
  <2>1. ASSUME NEW c, NEW f \in Request, content[f] \in RowsOf(c),
               req[r].at = "write" /\ f = req[r].fd => req[r].p.chat = c
        PROVE  content'[f] \in RowsOf(c)
    BY <2>1, NoRows
  <2>2. ASSUME NEW n \in DOMAIN files'
        PROVE  content'[files'[n]] \in RowsOf(n[1])
    <3>1. files'[n] \in Request /\ content[files'[n]] \in RowsOf(n[1])
      BY DEF OneName, OneChat
    <3>2. req[r].at = "write" /\ files'[n] = req[r].fd => req[r].p.chat = n[1]
      BY DEF OneName, NameOf, FileName
    <3> QED BY <2>1, <3>1, <3>2
  <2>3. ASSUME NEW o \in Request, req'[o].at = "write"
        PROVE  content'[req'[o].fd] \in RowsOf(req'[o].p.chat)
    <3>1. /\ req'[o].fd = req[o].fd /\ req'[o].p = req[o].p
          /\ req[o].fd \in Request /\ content[req[o].fd] \in RowsOf(req[o].p.chat)
      BY <1>2, <2>3 DEF Same, Answers, OneChat
    <3>2. req[r].at = "write" /\ req[o].fd = req[r].fd => req[r].p.chat = req[o].p.chat
      <4>1. ASSUME req[r].at = "write", req[o].fd = req[r].fd
            PROVE  NameOf(o) = NameOf(r)
        BY <4>1 DEF OneName
      <4> QED BY <4>1 DEF NameOf, FileName
    <3> QED BY <2>1, <3>1, <3>2
  <2> QED BY <2>2, <2>3, Zenon DEF OneChat, RowsOf, Record, Int64
<1> QED BY <1>5, <1>6

\* Keep empties a file or leaves it.
LEMMA KeepFacts ==
    ASSUME NEW c, Keep(c)
    PROVE  /\ DOMAIN content' = Request /\ content' = [f \in Request |-> content'[f]]
           /\ \A f \in Request : content'[f] \in {c[f], << >>}
           /\ \A n \in DOMAIN files' : files'[n] \in Request => content'[files'[n]] = c[files'[n]]
<1>1. \A n \in DOMAIN files' : files'[n] \in Range(files')
  BY DEF Range
<1> QED BY <1>1 DEF Keep

LEMMA WrittenFacts ==
    ASSUME OneChat, Answers, NEW r \in Request, req[r].at = "write",
           NEW n \in 0 .. Len(req[r].rows)
    PROVE  /\ Written(r, n)[req[r].fd] = Over(SubSeq(req[r].rows, 1, n), content[req[r].fd])
           /\ Written(r, n)[req[r].fd] \in RowsOf(req[r].p.chat)
           /\ \A f \in Request \ {req[r].fd} : Written(r, n)[f] = content[f]
<1>1. req[r].fd \in Request
  BY DEF Answers
<1>2. Written(r, n)[req[r].fd] = Over(SubSeq(req[r].rows, 1, n), content[req[r].fd])
  BY <1>1 DEF Written, OneChat
<1>3. \A f \in Request \ {req[r].fd} : Written(r, n)[f] = content[f]
  BY DEF Written, OneChat
<1>4. req[r].rows \in RowsOf(req[r].p.chat) /\ content[req[r].fd] \in RowsOf(req[r].p.chat)
  BY DEF Answers, OneChat
<1> QED BY <1>2, <1>3, <1>4, OverRows

\* What an action does that leaves the contents of the files alone.
LEMMA Untouched ==
    ASSUME OneChat, UNCHANGED content
    PROVE  /\ DOMAIN content' = Request /\ content' = [f \in Request |-> content'[f]]
           /\ \A f \in Request : content'[f] = content[f]
BY DEF OneChat

LEMMA EndKeeps ==
    ASSUME FilesInv, Answers, OneName, OneChat, NEW r \in Request,
           \A o \in Request \ {r} : Same(o), End(r),
           \A n \in DOMAIN files' : n \in DOMAIN files /\ files'[n] = files[n],
           DOMAIN content' = Request /\ content' = [f \in Request |-> content'[f]],
           \A f \in Request :
               \/ content'[f] = << >>
               \/ content'[f] = content[f]
               \/ /\ req[r].at = "write" /\ f = req[r].fd
                  /\ content'[f] \in RowsOf(req[r].p.chat),
           faulty' \in {faulty, faulty \cup {r}}
    PROVE  Answers' /\ OneName' /\ OneChat'
<1>1. IsParameter(NoParams)
  BY ParameterFacts
<1>2. /\ req'[r].at = "end" /\ req'[r].p = NoParams /\ req'[r].answer = << >>
      /\ req'[r].rows = << >> /\ req'[r].fd = NoFile
  BY Ending
<1>3. Answers'
  BY <1>1, <1>2, NoRows, AnswersStep
<1>4. OneName' /\ OneChat'
  BY <1>2, FilesKept
<1> QED BY <1>3, <1>4

LEMMA CreateKeeps ==
    ASSUME HistoryInv, Finite, FilesInv, Answers, OneName, OneChat, NEW r \in Request,
           Create(r)
    PROVE  Answers' /\ OneName' /\ OneChat'
<1> DEFINE f == IF Exists(NameOf(r)) THEN files[NameOf(r)] ELSE r
<1>1. /\ req[r].at = "create" /\ faulty' = faulty
      /\ files' = [n \in DOMAIN files \cup {NameOf(r)} |-> IF n = NameOf(r) THEN f ELSE files[n]]
      /\ content' = [content EXCEPT ![f] = << >>]
  BY DEF Create
<1>2. /\ req'[r].at = "write" /\ req'[r].p = req[r].p
      /\ req'[r].second = req[r].second
      /\ req'[r].answer = req[r].answer
      /\ req'[r].rows = Rows(req[r].p) /\ req'[r].fd = f
  BY Creating
<1>3. f \in Request
  BY DEF OneName, Exists
<1>4. NameOf(r)' = NameOf(r)
  BY <1>2 DEF NameOf, FileName
<1>5. \A o \in Request \ {r} : Same(o)
  BY OthersSame DEF Handler
<1>6. NoFile \notin Request
  BY APIAssumption
\* Who knows the file of this name means the name; who does not know it
\* finds another file.
<1>7. \A n \in DOMAIN files : files[n] = f <=> (n = NameOf(r) /\ Exists(NameOf(r)))
  BY <1>1 DEF OneName, Exists
<1>8. ASSUME NEW o \in Request \ {r}, req[o].fd = f
      PROVE  NameOf(o) = NameOf(r)
  <2>1. req[o].at = "write"
    BY <1>3, <1>6, <1>8 DEF Answers
  <2>2. Exists(NameOf(r))
    BY <1>1, <1>8 DEF OneName
  <2>3. files[NameOf(r)] = req[o].fd
    BY <1>8, <2>2
  <2> QED BY <2>1, <2>2, <2>3 DEF OneName, Exists
<1> HIDE DEF f
<1>9. /\ DOMAIN files' = DOMAIN files \cup {NameOf(r)} /\ files'[NameOf(r)] = f
      /\ \A n \in DOMAIN files \ {NameOf(r)} : files'[n] = files[n] /\ files[n] # f
  BY <1>1, <1>7
<1>10. Answers'
  <2>1. IsParameter(req'[r].p) /\ req'[r].p.chat \in Int64
    BY <1>2 DEF Answers, IsParameter
  <2>2. req'[r].rows \in RowsOf(req'[r].p.chat)
    BY <1>2, <2>1, RowsFacts
  <2> QED BY <1>1, <1>2, <1>3, <1>5, <2>1, <2>2, AnswersStep DEF Answers
<1>11. OneName'
  <2>1. /\ \A n \in DOMAIN files' : files'[n] \in Request
        /\ \A m, n \in DOMAIN files' : files'[m] = files'[n] => m = n
    BY <1>3, <1>9 DEF OneName
  <2>2. \A o \in Request : NameOf(o)' = NameOf(o)
    BY <1>4, <1>5 DEF Same, NameOf, FileName
  <2>3. \A o \in Request \ {r} : req'[o].fd = req[o].fd /\ req'[o].at = req[o].at
    BY <1>5 DEF Same
  <2>4. ASSUME NEW o \in Request, req'[o].at = "write"
        PROVE  /\ \A n \in DOMAIN files' : files'[n] = req'[o].fd => n = NameOf(o)
               /\ \A q \in Request : req'[q].fd = req'[o].fd => NameOf(q) = NameOf(o)
    <3>1. CASE o = r
      BY <1>2, <1>8, <1>9, <2>3, <3>1
    <3>2. CASE o # r
      <4>1. req[o].at = "write" /\ req'[o].fd = req[o].fd
        BY <2>3, <2>4, <3>2
      <4>2. ASSUME NEW n \in DOMAIN files', files'[n] = req[o].fd PROVE n = NameOf(o)
        BY <1>8, <1>9, <3>2, <4>1, <4>2 DEF OneName
      <4>3. ASSUME NEW q \in Request, req'[q].fd = req[o].fd PROVE NameOf(q) = NameOf(o)
        BY <1>2, <1>8, <2>3, <3>2, <4>1, <4>3 DEF OneName
      <4> QED BY <4>1, <4>2, <4>3
    <3> QED BY <3>1, <3>2
  <2>5. ASSUME NEW o \in Request, req'[o].at \in {"idle", "create"}
        PROVE  /\ \A n \in DOMAIN files' : files'[n] # o
               /\ \A q \in Request : req'[q].fd # o
    <3>1. o # r /\ req[o].at \in {"idle", "create"}
      BY <1>2, <2>3, <2>5
    <3>2. f # o
      BY <3>1 DEF f, OneName, Exists
    <3> QED BY <1>2, <1>9, <2>3, <3>1, <3>2 DEF OneName
  <2>6. ASSUME NEW o \in Request, req'[o].at = "write"
        PROVE  /\ \A n \in DOMAIN files' : files'[n] = req'[o].fd => n = NameOf(o)'
               /\ \A q \in Request : req'[q].fd = req'[o].fd => NameOf(q)' = NameOf(o)'
    BY <2>2, <2>4, <2>6
  <2> HIDE DEF NameOf
  <2> QED BY <2>1, <2>5, <2>6, Zenon DEF OneName, NameOf, FileName
<1>12. OneChat'
  <2>1. /\ content'[f] = << >> /\ \A g \in Request \ {f} : content'[g] = content[g]
        /\ DOMAIN content' = Request /\ content' = [g \in Request |-> content'[g]]
    BY <1>1, <1>3 DEF OneChat
  <2>2. ASSUME NEW n \in DOMAIN files' PROVE content'[files'[n]] \in RowsOf(n[1])
    <3>1. CASE n = NameOf(r)
      BY <1>9, <2>1, <3>1, NoRows
    <3>2. CASE n # NameOf(r)
      <4>1. n \in DOMAIN files /\ files'[n] = files[n] /\ files[n] \in Request \ {f}
        BY <1>9, <3>2 DEF OneName
      <4> QED BY <2>1, <4>1 DEF OneChat
    <3> QED BY <3>1, <3>2
  <2>3. ASSUME NEW o \in Request, req'[o].at = "write"
        PROVE  content'[req'[o].fd] \in RowsOf(req'[o].p.chat)
    <3>1. CASE req'[o].fd = f
      BY <2>1, <3>1, NoRows
    <3>2. CASE req'[o].fd # f
      <4>1. o # r
        BY <1>2, <3>2
      <4>2. /\ req[o].at = "write" /\ req'[o].fd = req[o].fd /\ req'[o].p = req[o].p
            /\ req[o].fd \in Request
        BY <1>5, <2>3, <4>1 DEF Same, Answers
      <4> QED BY <2>1, <3>2, <4>2 DEF OneChat
    <3> QED BY <3>1, <3>2
  <2> QED BY <2>1, <2>2, <2>3, Zenon DEF OneChat, RowsOf, Record, Int64
<1> QED BY <1>10, <1>11, <1>12

\* A write, whole or not, keeps the file to its chat.
LEMMA WriteKeeps ==
    ASSUME FilesInv, Answers, OneName, OneChat, NEW r \in Request,
           \A o \in Request \ {r} : Same(o),
           req[r].at = "write", Closed(r) \/ End(r), UNCHANGED files,
           NEW n \in 0 .. Len(req[r].rows), Keep(Written(r, n)),
           faulty' \in {faulty, faulty \cup {r}}
    PROVE  Answers' /\ OneName' /\ OneChat'
<1>1. /\ DOMAIN content' = Request /\ content' = [f \in Request |-> content'[f]]
      /\ \A f \in Request : content'[f] \in {Written(r, n)[f], << >>}
  BY KeepFacts
<1>2. \A f \in Request :
          \/ content'[f] = << >>
          \/ content'[f] = content[f]
          \/ f = req[r].fd /\ content'[f] \in RowsOf(req[r].p.chat)
  BY <1>1, WrittenFacts
<1>3. \A m \in DOMAIN files' : m \in DOMAIN files /\ files'[m] = files[m]
  OBVIOUS
<1>4. CASE End(r)
  BY <1>1, <1>2, <1>3, <1>4, EndKeeps
<1>5. CASE Closed(r)
  <2>1. /\ req'[r].at = "read" /\ req'[r].p = req[r].p
        /\ req'[r].answer = req[r].answer
        /\ req'[r].rows = req[r].rows /\ req'[r].fd = NoFile
    BY <1>5, Closing
  <2>2. Answers'
    BY <2>1, AnswersStep DEF Answers
  <2>3. OneName' /\ OneChat'
    BY <1>1, <1>2, <1>3, <2>1, FilesKept
  <2> QED BY <2>2, <2>3
<1> QED BY <1>4, <1>5

\* The end of the process, too.
LEMMA ExitKeeps ==
    ASSUME Answers, OneName, OneChat, Exit
    PROVE  Answers' /\ OneName' /\ OneChat'
<1>1. /\ DOMAIN content' = Request /\ content' = [f \in Request |-> content'[f]]
      /\ \A f \in Request : content'[f] \in {content[f], << >>}
      /\ files' = files /\ faulty' = faulty
  BY Exiting, KeepFacts
<1>2. ASSUME NEW r \in Request
      PROVE  /\ req'[r].at \in {"idle", "end"}
             /\ req'[r].at = "idle" => req[r].at = "idle"
             /\ req'[r].p = NoParams /\ req'[r].answer = << >>
             /\ req'[r].rows = << >> /\ req'[r].fd = NoFile
  BY Exiting
<1>3. NoFile \notin Request
  BY APIAssumption
<1>4. Answers'
  <2>1. IsParameter(NoParams)
    BY ParameterFacts
  <2>2. ASSUME NEW r \in Request
        PROVE  /\ req'[r].at \in {"idle", "create", "write", "read", "remove", "answer", "end"}
               /\ IsParameter(req'[r].p)
               /\ req'[r].fd \in IF req'[r].at = "write" THEN Request ELSE {NoFile}
               /\ req'[r].rows \in RowsOf(req'[r].p.chat)
               /\ req'[r].answer \in RowsOf(req'[r].p.chat)
               /\ req'[r].at = "idle" => req'[r].rows = << >>
    BY <1>2, <2>1, NoRows
  <2>3. faulty' \subseteq Request
    BY <1>1 DEF Answers
  <2> QED BY <2>2, <2>3, Zenon DEF Answers, RowsOf, Record, Int64, IsParameter
<1>5. OneName'
  <2>1. \A r \in Request : req'[r].at # "write"
    BY <1>2
  <2>2. ASSUME NEW r \in Request, req'[r].at \in {"idle", "create"}
        PROVE  /\ \A n \in DOMAIN files' : files'[n] # r
               /\ \A o \in Request : req'[o].fd # r
    BY <1>1, <1>2, <1>3, <2>2 DEF OneName
  <2>3. /\ \A n \in DOMAIN files' : files'[n] \in Request
        /\ \A m, n \in DOMAIN files' : files'[m] = files'[n] => m = n
    BY <1>1 DEF OneName
  <2> QED BY <2>1, <2>2, <2>3, Zenon DEF OneName, NameOf, FileName
<1>6. OneChat'
  <2>1. \A n \in DOMAIN files' : content'[files'[n]] \in RowsOf(n[1])
    BY <1>1, NoRows DEF OneName, OneChat
  <2>2. \A r \in Request : req'[r].at # "write"
    BY <1>2
  <2> QED BY <1>1, <2>1, <2>2, Zenon DEF OneChat, RowsOf, Record, Int64
<1> QED BY <1>4, <1>5, <1>6

\* Each step keeps answers and files to their chats.
LEMMA StepKeeps ==
    ASSUME HistoryInv, Finite, FilesInv, Answers, OneName, OneChat, [Next]_vars
    PROVE  Answers' /\ OneName' /\ OneChat'
<1>1. CASE UNCHANGED apiVars
  <2>1. req' = req /\ files' = files /\ content' = content /\ faulty' = faulty
    BY <1>1 DEF apiVars
  <2>2. Answers'
    BY <2>1, Zenon DEF Answers, RowsOf, Record, Int64, IsParameter
  <2>3. OneName'
    BY <2>1, Zenon DEF OneName, NameOf, FileName
  <2>4. OneChat'
    BY <2>1, Zenon DEF OneChat, RowsOf, Record, Int64
  <2> QED BY <2>2, <2>3, <2>4
<1>2. ASSUME NEW r \in Request, Handler(r)
      PROVE  Answers' /\ OneName' /\ OneChat'
  <2>1. \A o \in Request \ {r} : Same(o)
    BY <1>2, OthersSame
  <2>2. ASSUME UNCHANGED <<files, content>>, End(r), faulty' \in {faulty, faulty \cup {r}}
        PROVE  Answers' /\ OneName' /\ OneChat'
    <3>1. /\ DOMAIN content' = Request /\ content' = [f \in Request |-> content'[f]]
          /\ \A f \in Request : content'[f] = content[f]
      BY <2>2, Untouched
    <3>2. \A n \in DOMAIN files' : n \in DOMAIN files /\ files'[n] = files[n]
      BY <2>2
    <3> QED BY <2>1, <2>2, <3>1, <3>2, EndKeeps
  <2>3. ASSUME UNCHANGED <<files, content, faulty>>,
               req'[r].at \in {"create", "answer", "remove"}, req'[r].fd = NoFile,
               req'[r].at = "create" => req[r].at = "idle",
               IsParameter(req'[r].p),
               req'[r].rows \in RowsOf(req'[r].p.chat),
               req'[r].answer \in RowsOf(req'[r].p.chat)
        PROVE  Answers' /\ OneName' /\ OneChat'
    <3>1. /\ DOMAIN content' = Request /\ content' = [f \in Request |-> content'[f]]
          /\ \A f \in Request : content'[f] = content[f]
      BY <2>3, Untouched
    <3>2. \A n \in DOMAIN files' : n \in DOMAIN files /\ files'[n] = files[n]
      BY <2>3
    <3>3. Answers'
      BY <2>1, <2>3, AnswersStep
    <3>4. OneName' /\ OneChat'
      BY <2>1, <2>3, <3>1, <3>2, FilesKept
    <3> QED BY <3>3, <3>4
  <2>4. ASSUME NEW p \in Params PROVE IsParameter(p)
    BY ParameterFacts
  <2>5. ASSUME NEW p \in Params, QueryHandler(r, p) \/ QueryByUserHandler(r, p)
        PROVE  Answers' /\ OneName' /\ OneChat'
    <3>1. req[r].at = "idle" /\ UNCHANGED <<files, content, faulty>> /\ req[r].fd = NoFile
      BY <2>5 DEF QueryHandler, QueryByUserHandler, Answers
    <3>2. CASE End(r)
      BY <2>2, <3>1, <3>2
    <3>3. ASSUME NEW q, IsParameter(q), Answer(r, q, Rows(q))
          PROVE  Answers' /\ OneName' /\ OneChat'
      <4>1. /\ req'[r].at = "answer" /\ req'[r].p = q /\ req'[r].answer = Rows(q)
            /\ req'[r].rows = req[r].rows /\ req'[r].fd = req[r].fd
        BY <3>3, Answering
      <4>2. q.chat \in Int64
        BY <3>3 DEF IsParameter
      <4>4. Rows(q) \in RowsOf(q.chat)
        BY <4>2, RowsFacts
      <4>3. req[r].rows = << >>
        BY <3>1 DEF Answers
      <4> QED BY <2>3, <3>1, <3>3, <4>1, <4>3, <4>4, NoRows
    <3>4. IsParameter(p) /\ IsParameter([p EXCEPT !.user = ""])
      BY <2>4, ParameterFacts
    <3> QED BY <2>5, <3>2, <3>3, <3>4 DEF QueryHandler, QueryByUserHandler
  <2>6. ASSUME NEW p \in Params, ExportHandler(r, p)
        PROVE  Answers' /\ OneName' /\ OneChat'
    <3>1. req[r].at = "idle" /\ UNCHANGED <<files, content, faulty>>
      BY <2>6 DEF ExportHandler
    <3>2. /\ req'[r].at = "create" /\ req'[r].p = p /\ req'[r].answer = << >>
          /\ req'[r].rows = << >> /\ req'[r].fd = NoFile
      BY <2>6, Starting
    <3> QED BY <2>3, <2>4, <3>1, <3>2, NoRows
  <2>7. CASE Reply(r)
    BY <2>2, <2>7 DEF Reply
  <2>8. CASE Create(r)
    BY <2>8, CreateKeeps
  <2>9. CASE Write(r)
    <3>1. Len(req[r].rows) \in 0 .. Len(req[r].rows)
      BY DEF Answers, RowsOf
    <3> QED BY <2>1, <2>9, <3>1, WriteKeeps DEF Write
  <2>10. CASE WriteError(r)
    BY <2>1, <2>10, WriteKeeps DEF WriteError
  <2>11. CASE ExportError(r)
    BY <2>2, <2>11 DEF ExportError
  <2>12. CASE ReadFile(r)
    <3>1. req[r].at = "read" /\ UNCHANGED <<files, content, faulty>> /\ req[r].fd = NoFile
      BY <2>12 DEF ReadFile, Answers
    <3>2. CASE ~ Exists(NameOf(r))
      BY <2>2, <2>12, <3>1, <3>2, Reading
    <3>3. CASE Exists(NameOf(r))
      <4>1. /\ req'[r].at = "remove" /\ req'[r].p = req[r].p
            /\ req'[r].answer = content[files[NameOf(r)]]
            /\ req'[r].rows = req[r].rows /\ req'[r].fd = req[r].fd
        BY <2>12, <3>3, Reading
      <4>2. content[files[NameOf(r)]] \in RowsOf(req[r].p.chat)
        BY <3>3 DEF OneChat, Exists, NameOf, FileName
      <4> QED BY <2>3, <3>1, <4>1, <4>2 DEF Answers
    <3> QED BY <3>2, <3>3
  <2>13. CASE RemoveFile(r)
    <3>1. /\ DOMAIN content' = Request /\ content' = [f \in Request |-> content'[f]]
          /\ \A f \in Request : content'[f] \in {content[f], << >>}
      BY <2>13, KeepFacts DEF RemoveFile
    <3>2. \A n \in DOMAIN files' : n \in DOMAIN files /\ files'[n] = files[n]
      BY <2>13 DEF RemoveFile
    <3>3. End(r) /\ faulty' = faulty
      BY <2>13 DEF RemoveFile
    <3> QED BY <2>1, <3>1, <3>2, <3>3, EndKeeps
  <2> QED BY <1>2, <2>5, <2>6, <2>7, <2>8, <2>9, <2>10, <2>11, <2>12, <2>13 DEF Handler
<1> QED BY <1>1, <1>2, ExitKeeps DEF Next, vars

\* Exports meet when the second of them is asked for, and never later.
LEMMA StepMet ==
    ASSUME FilesInv, Met, [Next]_vars
    PROVE  Met'
<1>1. CASE UNCHANGED apiVars
  BY <1>1, Zenon DEF apiVars, Met, Exporting, NameOf, FileName
<1>2. ASSUME NEW r \in Request, Handler(r) PROVE Met'
  <2>1. \A o \in Request \ {r} : Same(o)
    BY <1>2, OthersSame
  <2>2. ASSUME NEW o \in Request \ {r}
        PROVE  /\ Exporting(o)' <=> Exporting(o)
               /\ NameOf(o)' = NameOf(o)
               /\ req[o].shared => req'[o].shared
    BY <2>1 DEF Same, Exporting, NameOf, FileName
  <2>3. ASSUME Exporting(r)' =>
                   Exporting(r) /\ NameOf(r)' = NameOf(r) /\ req'[r].shared = req[r].shared
        PROVE  Met'
    <3>1. ASSUME NEW q \in Request, NEW o \in Request, q # o, Exporting(q)', Exporting(o)',
                 NameOf(q)' = NameOf(o)'
          PROVE  req'[q].shared /\ req'[o].shared
      <4>1. Exporting(q) /\ Exporting(o) /\ NameOf(q) = NameOf(o)
        BY <2>2, <2>3, <3>1
      <4>2. req[q].shared /\ req[o].shared
        BY <3>1, <4>1 DEF Met
      <4> QED BY <2>2, <2>3, <3>1, <4>2
    <3> QED BY <3>1, Zenon DEF Met
  <2>4. CASE End(r)
    BY <2>3, <2>4, Ending DEF Exporting
  <2>5. ASSUME NEW p \in Params, QueryHandler(r, p) \/ QueryByUserHandler(r, p)
        PROVE  Met'
    <3>1. CASE req'[r].at = "answer"
      BY <2>3, <3>1 DEF Exporting
    <3> QED BY <2>4, <2>5, <3>1, Answering DEF QueryHandler, QueryByUserHandler
  <2>6. CASE Create(r) \/ Write(r) \/ ReadFile(r) \/ RemoveFile(r) \/ Reply(r)
             \/ WriteError(r) \/ ExportError(r)
    <3>1. CASE Create(r)
      <4>1. Exporting(r)
        BY <3>1 DEF Create, Exporting
      <4> QED BY <2>3, <3>1, <4>1, Creating DEF NameOf, FileName
    <3>2. CASE Closed(r) /\ req[r].at = "write"
      BY <2>3, <3>2, Closing DEF Exporting, NameOf, FileName
    <3>3. CASE ReadFile(r)
      <4>1. Exporting(r)
        BY <3>3 DEF ReadFile, Exporting
      <4> QED BY <2>3, <2>4, <3>3, <4>1, Reading DEF NameOf, FileName
    <3> QED BY <2>4, <2>6, <3>1, <3>2, <3>3
            DEF Write, RemoveFile, Reply, WriteError, ExportError
  <2>7. ASSUME NEW p \in Params, ExportHandler(r, p) PROVE Met'
    <3> DEFINE second == clock - (clock % Second)
               met == {o \in Request : Exporting(o) /\ req[o].p.chat = p.chat
                                         /\ req[o].second = second}
    <3>1. /\ req' = [o \in Request |->
                      IF o = r
                      THEN [Idle EXCEPT !.at = "create", !.p = p, !.second = second,
                                        !.shared = (met # {})]
                      ELSE [req[o] EXCEPT !.shared = @ \/ o \in met]]
          /\ req[r].at = "idle"
      BY <2>7 DEF ExportHandler
    <3>2. NameOf(r)' = <<p.chat, second>>
      BY <2>7, Starting DEF NameOf, FileName
    <3> HIDE DEF met, second
    <3>3. req'[r].shared = (met # {})
      BY <3>1 DEF Idle
    <3>4. ASSUME NEW o \in Request \ {r}, Exporting(o)', NameOf(o)' = NameOf(r)'
          PROVE  req'[o].shared /\ req'[r].shared
      <4>1. NameOf(o) = <<p.chat, second>> /\ Exporting(o)
        BY <2>2, <3>2, <3>4
      <4>2. o \in met
        BY <4>1 DEF met, NameOf, FileName
      <4>3. req'[o] = [req[o] EXCEPT !.shared = TRUE]
        BY <3>1, <4>2
      <4> QED BY <3>3, <4>2, <4>3 DEF FilesInv, Field
    <3>5. ASSUME NEW q \in Request, NEW o \in Request, q # o, Exporting(q)', Exporting(o)',
                 NameOf(q)' = NameOf(o)'
          PROVE  req'[q].shared /\ req'[o].shared
      <4>1. CASE q = r \/ o = r
        BY <3>4, <3>5, <4>1
      <4>2. CASE q # r /\ o # r
        BY <2>2, <3>5, <4>2 DEF Met
      <4> QED BY <4>1, <4>2
    <3> QED BY <3>5, Zenon DEF Met
  <2> QED BY <1>2, <2>5, <2>6, <2>7 DEF Handler
<1>3. CASE Exit
  BY <1>3, Exiting DEF Met, Exporting
<1> QED BY <1>1, <1>2, <1>3 DEF Next, vars

\* A step of another handler that leaves the name of an export and the rows
\* of its file.
LEMMA OtherUndisturbed ==
    ASSUME NEW o \in Request, Undisturbed(o), Same(o),
           req[o].at \in {"write", "read"} /\ Exists(NameOf(o)) =>
               /\ NameOf(o) \in DOMAIN files' /\ files'[NameOf(o)] = files[NameOf(o)]
               /\ content'[files[NameOf(o)]] = content[files[NameOf(o)]]
    PROVE  Undisturbed(o)'
<1>1. NameOf(o)' = NameOf(o)
  BY DEF Same, NameOf, FileName
<1>2. /\ req'[o].at = "write" =>
             /\ NameOf(o) \in DOMAIN files' /\ files'[NameOf(o)] = req'[o].fd
             /\ content'[req'[o].fd] = << >>
      /\ req'[o].at = "read" =>
             NameOf(o) \in DOMAIN files' /\ content'[files'[NameOf(o)]] = req'[o].rows
      /\ req'[o].at = "remove" => req'[o].answer = req'[o].rows
  BY DEF Same, Undisturbed, Exists
<1> QED BY <1>1, <1>2 DEF Undisturbed, Exists

\* A handler that moves on disturbs no export that is alone.
LEMMA OthersUndisturbed ==
    ASSUME FilesInv, Answers, OneName, OneChat, Met, Alone, NEW r \in Request, Handler(r),
           NEW o \in Request \ {r}, o \notin faulty', ~ req'[o].shared
    PROVE  Undisturbed(o)'
<1>1. Same(o)
  BY OthersSame
<1>2. ~ req[o].shared
  BY <1>1 DEF Same
<1>3. faulty \subseteq faulty'
  BY DEF Handler, QueryHandler, QueryByUserHandler, ExportHandler, Reply, Create, Write,
         ReadFile, RemoveFile, WriteError, ExportError
<1>4. Undisturbed(o)
  BY <1>2, <1>3 DEF Alone
<1>5. CASE UNCHANGED <<files, content>>
  BY <1>1, <1>4, <1>5, OtherUndisturbed DEF Exists
<1>6. ASSUME Exporting(r), req[o].at \in {"write", "read"}
      PROVE  NameOf(o) # NameOf(r)
  BY <1>2, <1>6 DEF Met, Exporting
<1>7. CASE Create(r)
  <2> DEFINE f == IF Exists(NameOf(r)) THEN files[NameOf(r)] ELSE r
  <2>1. /\ req[r].at = "create"
        /\ files' = [n \in DOMAIN files \cup {NameOf(r)} |-> IF n = NameOf(r) THEN f ELSE files[n]]
        /\ content' = [content EXCEPT ![f] = << >>]
    BY <1>7 DEF Create
  <2>2. Exporting(r)
    BY <2>1 DEF Exporting
  <2>3. ASSUME req[o].at \in {"write", "read"}, Exists(NameOf(o))
        PROVE  /\ NameOf(o) \in DOMAIN files' /\ files'[NameOf(o)] = files[NameOf(o)]
               /\ content'[files[NameOf(o)]] = content[files[NameOf(o)]]
    <3>1. NameOf(o) # NameOf(r) /\ NameOf(o) \in DOMAIN files
      BY <1>6, <2>2, <2>3 DEF Exists
    <3>2. files[NameOf(o)] # f /\ files[NameOf(o)] \in Request
      BY <2>1, <3>1 DEF OneName, Exists
    <3> HIDE DEF f
    <3> QED BY <2>1, <3>1, <3>2 DEF OneChat
  <2> QED BY <1>1, <1>4, <2>3, OtherUndisturbed
<1>8. ASSUME req[r].at = "write", UNCHANGED files,
             NEW n \in 0 .. Len(req[r].rows), Keep(Written(r, n))
      PROVE  Undisturbed(o)'
  <2>1. Exporting(r)
    BY <1>8 DEF Exporting
  <2>2. ASSUME req[o].at \in {"write", "read"}, Exists(NameOf(o))
        PROVE  /\ NameOf(o) \in DOMAIN files' /\ files'[NameOf(o)] = files[NameOf(o)]
               /\ content'[files[NameOf(o)]] = content[files[NameOf(o)]]
    <3>1. NameOf(o) # NameOf(r) /\ NameOf(o) \in DOMAIN files
      BY <1>6, <2>1, <2>2 DEF Exists
    <3>2. files[NameOf(o)] \in Request \ {req[r].fd}
      BY <1>8, <3>1 DEF OneName
    <3>3. content'[files'[NameOf(o)]] = Written(r, n)[files'[NameOf(o)]]
      BY <1>8, <3>1, <3>2, KeepFacts
    <3> QED BY <1>8, <3>1, <3>2, <3>3, WrittenFacts
  <2> QED BY <1>1, <1>4, <2>2, OtherUndisturbed
<1>9. CASE Write(r)
  <2>1. Len(req[r].rows) \in 0 .. Len(req[r].rows)
    BY DEF Answers, RowsOf
  <2> QED BY <1>8, <1>9, <2>1 DEF Write
<1>10. CASE WriteError(r)
  BY <1>8, <1>10 DEF WriteError
<1>11. CASE RemoveFile(r)
  <2>1. /\ req[r].at = "remove"
        /\ files' = [n \in DOMAIN files \ {NameOf(r)} |-> files[n]]
        /\ Keep(content)
    BY <1>11 DEF RemoveFile
  <2>2. Exporting(r)
    BY <2>1 DEF Exporting
  <2>3. ASSUME req[o].at \in {"write", "read"}, Exists(NameOf(o))
        PROVE  /\ NameOf(o) \in DOMAIN files' /\ files'[NameOf(o)] = files[NameOf(o)]
               /\ content'[files[NameOf(o)]] = content[files[NameOf(o)]]
    <3>1. NameOf(o) # NameOf(r) /\ NameOf(o) \in DOMAIN files
      BY <1>6, <2>2, <2>3 DEF Exists
    <3>2. NameOf(o) \in DOMAIN files' /\ files'[NameOf(o)] = files[NameOf(o)]
          /\ files[NameOf(o)] \in Request
      BY <2>1, <3>1 DEF OneName
    <3> QED BY <2>1, <3>2, KeepFacts
  <2> QED BY <1>1, <1>4, <2>3, OtherUndisturbed
<1> QED
  BY <1>5, <1>7, <1>9, <1>10, <1>11
     DEF Handler, QueryHandler, QueryByUserHandler, ExportHandler, Reply, ReadFile, ExportError

\* An export that is alone finds its file as it has left it.
LEMMA OwnUndisturbed ==
    ASSUME FilesInv, Answers, OneName, OneChat, Alone, NEW r \in Request, Handler(r),
           r \notin faulty', ~ req'[r].shared
    PROVE  Undisturbed(r)'
<1>1. CASE req'[r].at \notin {"write", "read", "remove"}
  BY <1>1 DEF Undisturbed
<1>2. CASE End(r)
  BY <1>1, <1>2, Ending
<1>3. ASSUME NEW p \in Params,
             QueryHandler(r, p) \/ QueryByUserHandler(r, p) \/ ExportHandler(r, p)
      PROVE  Undisturbed(r)'
  <2>1. CASE \E q, rows : Answer(r, q, rows)
    BY <1>1, <2>1, Answering
  <2>2. CASE ExportHandler(r, p)
    BY <1>1, <2>2, Starting
  <2> QED BY <1>2, <1>3, <2>1, <2>2 DEF QueryHandler, QueryByUserHandler
<1>4. CASE Create(r)
  <2> DEFINE f == IF Exists(NameOf(r)) THEN files[NameOf(r)] ELSE r
  <2>1. /\ files' = [n \in DOMAIN files \cup {NameOf(r)} |-> IF n = NameOf(r) THEN f ELSE files[n]]
        /\ content' = [content EXCEPT ![f] = << >>]
    BY <1>4 DEF Create
  <2>2. f \in Request
    BY DEF OneName, Exists
  <2>3. /\ req'[r].at = "write" /\ req'[r].p = req[r].p
        /\ req'[r].second = req[r].second /\ req'[r].fd = f
    BY <1>4, Creating
  <2>4. NameOf(r)' = NameOf(r)
    BY <2>3 DEF NameOf, FileName
  <2> HIDE DEF f
  <2>5. NameOf(r) \in DOMAIN files' /\ files'[NameOf(r)] = f /\ content'[f] = << >>
    BY <2>1, <2>2 DEF OneChat
  <2> QED BY <2>3, <2>4, <2>5 DEF Undisturbed, Exists
<1>5. CASE Write(r)
  <2>1. /\ req[r].at = "write" /\ Closed(r) /\ UNCHANGED <<files, faulty>>
        /\ Keep(Written(r, Len(req[r].rows)))
    BY <1>5 DEF Write
  <2>2. /\ req'[r].at = "read" /\ req'[r].p = req[r].p
        /\ req'[r].second = req[r].second /\ req'[r].shared = req[r].shared
        /\ req'[r].rows = req[r].rows
    BY <2>1, Closing
  <2>3. NameOf(r)' = NameOf(r)
    BY <2>2 DEF NameOf, FileName
  <2>4. /\ NameOf(r) \in DOMAIN files /\ files[NameOf(r)] = req[r].fd
        /\ content[req[r].fd] = << >>
    BY <2>1, <2>2 DEF Alone, Undisturbed, Exists
  <2>5. req[r].rows \in RowsOf(req[r].p.chat) /\ req[r].fd \in Request
    BY <2>1 DEF Answers
  <2>6. Len(req[r].rows) \in 0 .. Len(req[r].rows)
    BY <2>5 DEF RowsOf
  <2>7. Written(r, Len(req[r].rows))[req[r].fd] = req[r].rows
    BY <2>1, <2>4, <2>5, <2>6, WrittenFacts, OverNothing
  <2>8. content'[files'[NameOf(r)]] = req[r].rows
    BY <2>1, <2>4, <2>5, <2>7, KeepFacts
  <2> QED BY <2>1, <2>2, <2>3, <2>4, <2>8 DEF Undisturbed, Exists
<1>6. CASE ReadFile(r) /\ Exists(NameOf(r))
  <2>1. req[r].at = "read" /\ UNCHANGED faulty
    BY <1>6 DEF ReadFile
  <2>2. /\ req'[r].at = "remove" /\ req'[r].shared = req[r].shared
        /\ req'[r].answer = content[files[NameOf(r)]] /\ req'[r].rows = req[r].rows
    BY <1>6, Reading
  <2>3. content[files[NameOf(r)]] = req[r].rows
    BY <2>1, <2>2 DEF Alone, Undisturbed
  <2> QED BY <2>2, <2>3 DEF Undisturbed
<1>7. CASE ReadFile(r) /\ ~ Exists(NameOf(r))
  BY <1>2, <1>7, Reading
<1>8. CASE WriteError(r) \/ ExportError(r)
  BY <1>8 DEF WriteError, ExportError
<1>9. CASE Reply(r) \/ RemoveFile(r)
  BY <1>2, <1>9 DEF Reply, RemoveFile
<1> QED BY <1>3, <1>4, <1>5, <1>6, <1>7, <1>8, <1>9 DEF Handler

LEMMA StepAlone ==
    ASSUME FilesInv, Answers, OneName, OneChat, Met, Alone, [Next]_vars
    PROVE  Alone'
<1>1. CASE UNCHANGED apiVars
  <2>1. req' = req /\ files' = files /\ content' = content /\ faulty' = faulty
    BY <1>1 DEF apiVars
  <2> QED BY <2>1, Zenon DEF Alone, Undisturbed, Exists, NameOf, FileName
<1>2. ASSUME NEW r \in Request, Handler(r) PROVE Alone'
  <2>1. ASSUME NEW o \in Request \ faulty', ~ req'[o].shared
        PROVE  Undisturbed(o)'
    BY <1>2, <2>1, OthersUndisturbed, OwnUndisturbed
  <2> QED BY <2>1, Zenon DEF Alone, Undisturbed, Exists, NameOf, FileName
<1>3. CASE Exit
  BY <1>3, Exiting DEF Alone, Undisturbed
<1> QED BY <1>1, <1>2, <1>3 DEF Next, vars

LEMMA InitAPI == Init => APIInv
<1> SUFFICES ASSUME Init PROVE APIInv
  OBVIOUS
<1>1. /\ Idle.at = "idle" /\ Idle.p = NoParams /\ Idle.fd = NoFile
      /\ Idle.rows = << >> /\ Idle.answer = << >>
  BY DEF Idle
<1>2. IsParameter(NoParams)
  BY ParameterFacts
<1>3. /\ req = [r \in Request |-> Idle] /\ DOMAIN files = {} /\ faulty = {}
      /\ content = [r \in Request |-> << >>]
  BY DEF Init
<1>4. NoFile \notin Request
  BY APIAssumption
<1> HIDE DEF Idle, NoParams, Init
<1>5. \A r \in Request : req[r] = Idle
  BY <1>3
<1>6. Answers
  BY <1>1, <1>2, <1>3, <1>5, NoRows DEF Answers
<1>7. OneName
  BY <1>1, <1>3, <1>4, <1>5 DEF OneName
<1>8. OneChat /\ Met /\ Alone
  BY <1>1, <1>3, <1>5 DEF OneChat, Met, Alone, Exporting, Undisturbed
<1> QED BY <1>6, <1>7, <1>8 DEF APIInv

LEMMA APIInvariant == Spec => []APIInv
<1>1. HistoryInv /\ Finite /\ FilesInv /\ APIInv /\ [Next]_vars => APIInv'
  BY StepKeeps, StepMet, StepAlone DEF APIInv
<1> QED BY <1>1, InitAPI, RecordsInvariant, RecordsFinite, FilesInvariant, PTL DEF Spec

LEMMA RangeOfRows ==
    ASSUME NEW c, NEW rows \in RowsOf(c)
    PROVE  \A x \in Range(rows) : x \in Record /\ x.chat = c
<1> DEFINE S == {x \in Record : x.chat = c}
<1>1. rows \in Seq(S)
  BY DEF RowsOf
<1> HIDE DEF S
<1>2. \A x \in Range(rows) : x \in S
  BY <1>1 DEF Range
<1> QED BY <1>2 DEF S

\* Types of the records, the handlers and the files.
THEOREM APITypes == Spec => []TypeOK
<1>1. HistoryInv /\ FilesInv /\ APIInv => TypeOK
  <2> SUFFICES ASSUME HistoryInv, FilesInv, APIInv PROVE TypeOK
    OBVIOUS
  <2>1. ASSUME NEW r \in Request
        PROVE  Range(req[r].rows) \subseteq Record /\ Range(req[r].answer) \subseteq Record
    BY RangeOfRows DEF APIInv, Answers
  <2>2. Range(files) \subseteq Request
    BY DEF APIInv, OneName, Range
  <2>3. left \subseteq DOMAIN files
    BY DEF FilesInv
  <2> QED BY <2>1, <2>2, <2>3 DEF TypeOK, HistoryInv, APIInv, Answers
<1> QED BY <1>1, RecordsInvariant, FilesInvariant, APIInvariant, PTL

\* No answer has a record of another chat (makeKey puts the chat first, and
\* the name of the temporary file of ExportHandler has it), whatever exports
\* share and whatever fails.
THEOREM AnswersKeepToTheirChat == Spec => []AnswerOfOneChat
<1>1. APIInv => AnswerOfOneChat
  BY RangeOfRows DEF APIInv, Answers, AnswerOfOneChat
<1> QED BY <1>1, APIInvariant, PTL

\* An export that meets no other of its chat and second, and no failure,
\* answers with what it has found, whatever else is exported meanwhile.
THEOREM AloneIsRight == Spec => []ExportAlone
<1>1. APIInv => ExportAlone
  BY DEF APIInv, Alone, Undisturbed, ExportAlone
<1> QED BY <1>1, APIInvariant, PTL

LEMMA MatchingIsRange ==
    ASSUME HistoryInv, NEW p, IsParameter(p), p.start >= 0, p.end >= 0
    PROVE  Matching(p) =
               {x \in {db[k] : k \in DOMAIN db} :
                   /\ x.chat = p.chat /\ p.user \in {"", x.from}
                   /\ p.start <= x.time /\ x.time < p.end}
<1>1. p.chat \in Int64 /\ p.start \in 0 .. Half - 1 /\ p.end \in 0 .. Half - 1
  BY HistoryAssumption DEF IsParameter, Int64
<1> DEFINE all == {db[k] : k \in DOMAIN db}
<1>2. QueryMessages(p.chat, p.start, p.end) =
          {x \in all : x.chat = p.chat /\ p.start <= x.time /\ x.time < p.end}
  BY <1>1, RangeFacts, Zenon DEF RangeIsChatAndTime
<1> HIDE DEF all
<1>3. Matching(p) = {x \in all : /\ x.chat = p.chat /\ p.user \in {"", x.from}
                                 /\ p.start <= x.time /\ x.time < p.end}
  BY <1>2 DEF Matching, QueryMessagesByUser
<1> QED BY <1>3, Zenon DEF all

\* A query, and the query of an export, finds every record of its chat, user
\* and interval, the oldest first: the iterator of QueryMessages goes by the
\* bytes of the keys, and these are in the order of the times.
THEOREM QueriesFindAll == Spec => QueriesAreComplete
<1> DEFINE Right(p, found) ==
             p.start >= 0 /\ p.end >= 0 =>
                 /\ Range(found) =
                        {x \in {db[k] : k \in DOMAIN db} :
                            /\ x.chat = p.chat /\ p.user \in {"", x.from}
                            /\ p.start <= x.time /\ x.time < p.end}
                 /\ \A i, j \in DOMAIN found : i < j => found[i].time < found[j].time
<1>1. ASSUME HistoryInv, Finite, NEW p, IsParameter(p) PROVE Right(p, Rows(p))
  <2>1. p.chat \in Int64
    BY <1>1 DEF IsParameter
  <2>2. /\ Range(Rows(p)) = Matching(p)
        /\ \A i, j \in DOMAIN Rows(p) : i < j => Rows(p)[i].time < Rows(p)[j].time
    BY <1>1, <2>1, RowsFacts
  <2> QED BY <1>1, <2>2, MatchingIsRange, Zenon
<1> HIDE DEF Right
<1>2. ASSUME HistoryInv, Finite, FilesInv, Answers, [Next]_vars,
             NEW r \in Request, req[r].at # req'[r].at, req'[r].at \in {"answer", "write"}
      PROVE  Right(req'[r].p, IF req'[r].at = "answer" THEN req'[r].answer ELSE req'[r].rows)
  <2>1. ~ UNCHANGED apiVars
    BY <1>2 DEF apiVars
  <2>2. PICK o \in Request : Handler(o)
    BY <1>2, <2>1, Exiting DEF Next, vars
  <2>3. o = r
    BY <1>2, <2>2, OthersSame DEF Same
  <2>4. ~ End(r) /\ ~ Closed(r)
    BY <1>2, Ending, Closing
  <2>5. ASSUME NEW q, IsParameter(q), Answer(r, q, Rows(q))
        PROVE  Right(req'[r].p, IF req'[r].at = "answer" THEN req'[r].answer ELSE req'[r].rows)
    <3>1. req'[r].at = "answer" /\ req'[r].p = q /\ req'[r].answer = Rows(q)
      BY <1>2, <2>5, Answering
    <3> QED BY <1>1, <1>2, <2>5, <3>1
  <2>6. ASSUME NEW p \in Params, QueryHandler(r, p) \/ QueryByUserHandler(r, p)
        PROVE  \E q : IsParameter(q) /\ Answer(r, q, Rows(q))
    BY <2>4, <2>6, ParameterFacts DEF QueryHandler, QueryByUserHandler
  <2>7. CASE Create(r)
    <3>1. /\ req'[r].at = "write" /\ req'[r].p = req[r].p
          /\ req'[r].rows = Rows(req[r].p)
      BY <1>2, <2>7, Creating
    <3>2. IsParameter(req[r].p)
      BY <1>2 DEF Answers
    <3> QED BY <1>1, <1>2, <3>1, <3>2
  <2>8. CASE ReadFile(r)
    BY <1>2, <2>4, <2>8, Reading
  <2>9. ASSUME NEW p \in Params PROVE ~ ExportHandler(r, p)
    BY <1>2, Starting
  <2>10. ~ (Reply(r) \/ Write(r) \/ RemoveFile(r) \/ WriteError(r) \/ ExportError(r))
    BY <2>4 DEF Reply, Write, RemoveFile, WriteError, ExportError
  <2> QED BY <2>2, <2>3, <2>5, <2>6, <2>7, <2>8, <2>9, <2>10 DEF Handler
<1>3. HistoryInv /\ Finite /\ FilesInv /\ APIInv /\ [Next]_vars =>
          \A r \in Request :
              req[r].at # req'[r].at /\ req'[r].at \in {"answer", "write"} =>
                  Right(req'[r].p,
                        IF req'[r].at = "answer" THEN req'[r].answer ELSE req'[r].rows)
  BY <1>2 DEF APIInv
<1>4. HistoryInv /\ Finite /\ FilesInv /\ APIInv /\ [Next]_vars =>
          [\A r \in Request :
             LET p == req'[r].p
                 found == IF req'[r].at = "answer" THEN req'[r].answer ELSE req'[r].rows
             IN  /\ req[r].at # req'[r].at /\ req'[r].at \in {"answer", "write"}
                 /\ p.start >= 0 /\ p.end >= 0
                 => /\ Range(found) =
                           {x \in {db[k] : k \in DOMAIN db} :
                               /\ x.chat = p.chat /\ p.user \in {"", x.from}
                               /\ p.start <= x.time /\ x.time < p.end}
                    /\ \A i, j \in DOMAIN found : i < j => found[i].time < found[j].time]_vars
  BY <1>3, Zenon DEF Right
<1> QED BY <1>4, RecordsInvariant, RecordsFinite, FilesInvariant, APIInvariant, PTL
        DEF Spec, QueriesAreComplete

=============================================================================
