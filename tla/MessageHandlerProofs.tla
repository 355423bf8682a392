------------------------ MODULE MessageHandlerProofs ------------------------
(***************************************************************************)
(* Proofs about the message handler: its types, that it uses the queue     *)
(* only through the queue's operations, that every live message is in      *)
(* exactly one place, that attempts are bounded, that it implements        *)
(* Delivery, and that a pass over the memory queue takes a message once.   *)
(***************************************************************************)
EXTENDS MessageHandler, QueueProofs, FiniteSetTheorems

-----------------------------------------------------------------------------
(* Type correctness *)

\* The size of the queue is a number.
LEMMA QueueSizeType == QueueTypeOK => QueueSize \in Nat
  <1> SUFFICES ASSUME QueueTypeOK  PROVE QueueSize \in Nat
    OBVIOUS
  <1>1. IsFiniteSet(0 .. MaxIndex)
    BY FS_Interval, QueueAssumption
  <1>2. IsFiniteSet(DOMAIN db)
    BY <1>1, FS_Subset DEF QueueTypeOK
  <1>3. Cardinality(DOMAIN db) \in Nat
    BY <1>2, FS_CardinalityType
  <1>4. Len(mem) \in Nat
    BY DEF QueueTypeOK
  <1> QED  BY <1>3, <1>4 DEF QueueSize

\* A goroutine that sends or pushes holds a message, any other holds none.
LEMMA BusyHold ==
  ASSUME HandlerTypeOK
  PROVE  /\ updater.at = "send" => updater.msg \in Message
         /\ worker.at \in {"send", "push"} => worker.msg \in Message
         /\ retry.at \in {"send", "push"} => retry.msg \in Message
         /\ updater.at # "send" => updater.msg = NoMsg
         /\ worker.at \notin {"send", "push"} => worker.msg = NoMsg
         /\ retry.at \notin {"send", "push"} => retry.msg = NoMsg
         /\ retry.left \in Nat
  BY DEF HandlerTypeOK

\* What a channel or a slice is after a receive and after a send.
LEMMA SeqTypes ==
  ASSUME NEW s, s \in Seq(Message), NEW m \in Message
  PROVE  /\ Append(s, m) \in Seq(Message)
         /\ Len(s) \in Nat /\ Len(Append(s, m)) = Len(s) + 1
         /\ s # << >> => /\ Head(s) \in Message
                        /\ Tail(s) \in Seq(Message)
                        /\ Len(Tail(s)) = Len(s) - 1
  OBVIOUS

\* Every step of the handler is one operation of the queue, or none.
LEMMA StepUsesQueue == HandlerTypeOK /\ [Next]_vars => [QueueNext]_queueVars
  <1> SUFFICES ASSUME HandlerTypeOK, [Next]_vars  PROVE  [QueueNext]_queueVars
    OBVIOUS
  <1>1. CASE UpdaterNext
    BY <1>1 DEF UpdaterNext, Receive, Enqueue, UpdaterStop
  <1>2. CASE WorkerNext
    BY <1>2, BusyHold DEF WorkerNext, WorkerReceive, WorkerSent, WorkerFailed,
       WorkerPush, WorkerStop, QueueNext
  <1>3. CASE RetryNext
    BY <1>3, BusyHold DEF RetryNext, RetryTick, RetrySize, RetrySizeError,
       RetryPop, RetryPopError, RetrySent, RetryFailed, RetryPush, RetryStop,
       QueueNext
  <1>4. CASE MainNext
    BY <1>4 DEF MainNext, StartProcess, Stop, StopQueue, CloseStorage, Exit,
       QueueNext
  <1>5. CASE Crash
    BY <1>5, BusyHold DEF Crash, QueueNext
  <1>6. CASE UNCHANGED vars
    BY <1>6 DEF vars
  <1> QED  BY <1>1, <1>2, <1>3, <1>4, <1>5, <1>6 DEF Next

\* The types hold before the first start.
LEMMA InitHandlerTypeOK == HandlerInit => HandlerTypeOK
  BY HandlerAssumption DEF HandlerInit, HandlerTypeOK, Idle, RetryIdle, Fate,
     Settled, Lost

\* The steps of the updater keep the types.
LEMMA UpdaterTypes ==
  ASSUME HandlerTypeOK, UpdaterNext
  PROVE  HandlerTypeOK'
  <1>1. ASSUME NEW m \in Message, Receive(m)
        PROVE  HandlerTypeOK'
    BY <1>1 DEF Receive, HandlerTypeOK, Fate, Settled, Lost
  <1>2. CASE Enqueue
    <2>1. updater.msg \in Message
      BY <1>2, BusyHold DEF Enqueue
    <2>2. updater' \in [at : {"idle", "stopped"}, msg : {NoMsg}]
      BY <1>2 DEF Enqueue, Idle
    <2>3. fate' \in [Message -> Fate]
      BY <1>2, <2>1 DEF Enqueue, HandlerTypeOK, Fate, Settled, Lost
    <2>4. msgChan' \in Seq(Message) /\ Len(msgChan') <= ChanCap
      <3>1. msgChan \in Seq(Message) /\ Len(msgChan) <= ChanCap
            /\ ChanCap \in Nat
        BY HandlerAssumption DEF HandlerTypeOK
      <3> QED  BY <1>2, <2>1, <3>1, SeqTypes DEF Enqueue
    <2> QED  BY <1>2, <2>2, <2>3, <2>4 DEF Enqueue, HandlerTypeOK
  <1>3. CASE UpdaterStop
    BY <1>3 DEF UpdaterStop, HandlerTypeOK, Stopped
  <1> QED  BY <1>1, <1>2, <1>3 DEF UpdaterNext

\* A fate after a Put is a fate.
LEMMA FateAfterPutType ==
  ASSUME HandlerTypeOK, NEW m
  PROVE  FateAfterPut(m) \in [Message -> Fate]
  BY DEF FateAfterPut, HandlerTypeOK, Fate, Settled, Lost

\* The steps of the worker keep the types.
LEMMA WorkerTypes ==
  ASSUME HandlerTypeOK, WorkerNext
  PROVE  HandlerTypeOK'
  <1>1. CASE WorkerReceive
    <2>1. /\ msgChan \in Seq(Message) /\ Len(msgChan) <= ChanCap
          /\ ChanCap \in Nat /\ msgChan # << >>
      BY <1>1, HandlerAssumption DEF WorkerReceive, HandlerTypeOK
    <2>2. /\ Head(msgChan) \in Message /\ Tail(msgChan) \in Seq(Message)
          /\ Len(Tail(msgChan)) <= ChanCap
      BY <2>1
    <2>3. worker' \in [at : {"send", "push"}, msg : Message]
      BY <1>1, <2>2 DEF WorkerReceive
    <2> QED  BY <1>1, <2>2, <2>3 DEF WorkerReceive, HandlerTypeOK
  <1>2. CASE WorkerSent
    BY <1>2 DEF WorkerSent, HandlerTypeOK, Fate, Settled, Lost, Idle
  <1>3. CASE WorkerFailed
    BY <1>3 DEF WorkerFailed, HandlerTypeOK
  <1>4. CASE WorkerPush
    <2>1. fate' \in [Message -> Fate]
      <3>1. [fate EXCEPT ![worker.msg] = "refused"] \in [Message -> Fate]
        BY DEF HandlerTypeOK, Fate, Settled, Lost
      <3> QED  BY <1>4, <3>1, FateAfterPutType DEF WorkerPush
    <2> QED  BY <1>4, <2>1 DEF WorkerPush, HandlerTypeOK, Idle
  <1>5. CASE WorkerStop
    BY <1>5 DEF WorkerStop, HandlerTypeOK, Stopped
  <1> QED  BY <1>1, <1>2, <1>3, <1>4, <1>5 DEF WorkerNext

\* The retry goroutine goes on with the pass, or becomes idle.
LEMMA NextIterationType ==
  ASSUME HandlerTypeOK
  PROVE  NextIteration \in [at : {"idle", "size", "pop", "stopped"},
                            msg : {NoMsg}, left : Nat]
  BY DEF NextIteration, RetryIdle, HandlerTypeOK

\* The steps of the retry goroutine keep the types.
LEMMA RetryTypes ==
  ASSUME QueueTypeOK, HandlerTypeOK, RetryNext
  PROVE  HandlerTypeOK'
  <1>1. CASE RetryTick
    BY <1>1 DEF RetryTick, HandlerTypeOK
  <1>2. CASE RetrySize
    BY <1>2, QueueSizeType DEF RetrySize, HandlerTypeOK
  <1>3. CASE RetrySizeError \/ RetryPopError
    BY <1>3 DEF RetrySizeError, RetryPopError, HandlerTypeOK, RetryIdle
  <1>4. ASSUME NEW m \in Message, RetryPop(m)
        PROVE  HandlerTypeOK'
    <2>1. CASE Exhausted(m)
      BY <1>4, <2>1, NextIterationType DEF RetryPop, HandlerTypeOK, Fate, Settled, Lost
    <2>2. CASE ~ Exhausted(m)
      BY <1>4, <2>2 DEF RetryPop, HandlerTypeOK
    <2> QED  BY <2>1, <2>2
  <1>5. CASE RetrySent
    BY <1>5, NextIterationType DEF RetrySent, HandlerTypeOK, Fate, Settled, Lost
  <1>6. CASE RetryFailed
    <2>1. retry.msg \in Message /\ retry.left \in Nat
      BY <1>6, BusyHold DEF RetryFailed
    <2>2. attempts' \in [Message -> Nat]
      BY <1>6, <2>1 DEF RetryFailed, HandlerTypeOK
    <2>3. retry' \in [at : {"send", "push"}, msg : Message, left : Nat]
      BY <1>6, <2>1 DEF RetryFailed, HandlerTypeOK
    <2> QED  BY <1>6, <2>2, <2>3 DEF RetryFailed, HandlerTypeOK
  <1>7. CASE RetryPush
    <2>1. fate' \in [Message -> Fate]
      <3>1. [fate EXCEPT ![retry.msg] = "refused"] \in [Message -> Fate]
        BY DEF HandlerTypeOK, Fate, Settled, Lost
      <3> QED  BY <1>7, <3>1, FateAfterPutType DEF RetryPush
    <2> QED  BY <1>7, <2>1, NextIterationType DEF RetryPush, HandlerTypeOK
  <1>8. CASE RetryStop
    BY <1>8 DEF RetryStop, HandlerTypeOK, Stopped
  <1> QED  BY <1>1, <1>2, <1>3, <1>4, <1>5, <1>6, <1>7, <1>8 DEF RetryNext

\* Starting, stopping and the end of the process keep the types.
LEMMA MainTypes ==
  ASSUME HandlerTypeOK, MainNext \/ Crash
  PROVE  HandlerTypeOK'
  <1>1. CASE StartProcess
    BY <1>1, HandlerAssumption DEF StartProcess, HandlerTypeOK
  <1>2. CASE Stop \/ StopQueue \/ CloseStorage
    BY <1>2 DEF Stop, StopQueue, CloseStorage, HandlerTypeOK
  <1>3. CASE Vanish
    <2>1. fate' \in [Message -> Fate]
      BY <1>3 DEF Vanish, HandlerTypeOK, Fate, Settled, Lost
    <2> QED  BY <1>3, <2>1, HandlerAssumption DEF Vanish, HandlerTypeOK, Idle, RetryIdle
  <1> QED  BY <1>1, <1>2, <1>3 DEF MainNext, Exit, Crash

\* Every step keeps the types of the handler.
LEMMA NextHandlerTypeOK ==
  QueueTypeOK /\ HandlerTypeOK /\ [Next]_vars => HandlerTypeOK'
  <1>1. UNCHANGED vars /\ HandlerTypeOK => HandlerTypeOK'
    BY DEF vars, handlerVars, HandlerTypeOK
  <1> QED
    BY <1>1, UpdaterTypes, WorkerTypes, RetryTypes, MainTypes DEF Next

\* The types of the queue and of the handler, and what the queue keeps, hold
\* together: the inductive core of everything below.
TypeInv == QueueInv /\ HandlerTypeOK

\* The types and the queue's invariant are inductive together.
LEMMA TypeInvInductive ==
  /\ Init => TypeInv
  /\ TypeInv /\ [Next]_vars => TypeInv'
  <1>1. Init => TypeInv
    BY InitQueueInv, InitHandlerTypeOK DEF Init, TypeInv
  <1>2. TypeInv /\ [Next]_vars => TypeInv'
    BY StepUsesQueue, NextQueueInv, NextHandlerTypeOK DEF TypeInv, QueueInv
  <1> QED  BY <1>1, <1>2

\* The types and the queue's invariant hold in every reachable state
\* (message_handler.go with either queue).
THEOREM TypeInvariant == Spec => []TypeInv
  BY TypeInvInductive, PTL DEF Spec

\* Type correctness of the handler and its queue.
THEOREM TypeCorrect == Spec => []TypeOK
  <1>1. TypeInv => TypeOK
    BY DEF TypeInv, TypeOK, QueueInv
  <1> QED  BY <1>1, TypeInvariant, PTL

\* The handler is a client of the queue: it implements the queue's own
\* specification, so that what holds of the queue for every client holds here.
LEMMA HandlerUsesQueue == Spec => QueueSpec
  <1>1. Init => QueueInit
    BY DEF Init
  <1>2. TypeInv /\ [Next]_vars => [QueueNext]_queueVars
    BY StepUsesQueue DEF TypeInv
  <1> QED  BY <1>1, <1>2, TypeInvariant, PTL DEF Spec, QueueSpec

\* A failed message that the worker or the retry goroutine put into LevelDB is
\* there until the retry goroutine takes it out.
THEOREM HandlerKeepsAcked == Spec => []AckedKept
  BY HandlerUsesQueue, AckedMessagesKept, PTL

\* The retry queue of the handler never holds a message beyond its index: the
\* next failed message is written behind the stored ones, or over an orphan.
THEOREM HandlerIndexAboveKeys == Spec => []KeysUpToIndex
  BY HandlerUsesQueue, IndexAboveKeys, PTL

\* No step of the handler's goroutines, a crash between the writes of a Push
\* included, replaces a message that the retry queue has accepted.
THEOREM HandlerKeepsInPlace == Spec => AcceptedStays
  BY HandlerUsesQueue, AcceptedMessagesStay, PTL

\* The retry goroutine takes the oldest failed message while all keys have the
\* same number of digits.
THEOREM HandlerOldestFirst == Spec => OldestFirstWithinWidth
  BY HandlerUsesQueue, FirstInFirstOutWithinWidth, PTL

-----------------------------------------------------------------------------
(* The contents of stores and sequences *)

\* A send adds one message to a channel or slice without repetitions.
LEMMA AppendRange ==
  ASSUME NEW s, s \in Seq(Message), NEW m \in Message, m \notin Range(s),
         IsInjective(s)
  PROVE  /\ Range(Append(s, m)) = Range(s) \cup {m}
         /\ IsInjective(Append(s, m))
  <1> DEFINE t == Append(s, m)
             n == Len(s)
  <1>1. n \in Nat /\ DOMAIN s = 1 .. n /\ DOMAIN t = 1 .. n + 1
    OBVIOUS
  <1>2. t[n + 1] = m /\ \A i \in 1 .. n : t[i] = s[i]
    OBVIOUS
  <1>3. \A i \in 1 .. n + 1 : i \in 1 .. n \/ i = n + 1
    BY <1>1
  <1> HIDE DEF t, n
  <1>4. Range(t) = Range(s) \cup {m}
    <2>1. Range(t) \subseteq Range(s) \cup {m}
      BY <1>1, <1>2, <1>3 DEF Range
    <2>2. \A i \in 1 .. n : i \in 1 .. n + 1
      BY <1>1
    <2>3. n + 1 \in 1 .. n + 1
      BY <1>1
    <2>4. Range(s) \cup {m} \subseteq Range(t)
      BY <1>1, <1>2, <2>2, <2>3 DEF Range
    <2> QED  BY <2>1, <2>4
  <1>5. IsInjective(t)
    <2>1. \A i \in 1 .. n : s[i] # m
      BY <1>1 DEF Range
    <2> QED  BY <1>1, <1>2, <1>3, <2>1 DEF IsInjective
  <1> QED  BY <1>4, <1>5 DEF t

\* A receive removes one message from it.
LEMMA TailRange ==
  ASSUME NEW s, s \in Seq(Message), s # << >>, IsInjective(s)
  PROVE  /\ Head(s) \in Range(s)
         /\ Range(Tail(s)) = Range(s) \ {Head(s)}
         /\ IsInjective(Tail(s))
  <1> DEFINE t == Tail(s)
             n == Len(s)
  <1>1. n \in Nat \ {0} /\ DOMAIN s = 1 .. n /\ DOMAIN t = 1 .. n - 1
    OBVIOUS
  <1>2. Head(s) = s[1] /\ \A i \in 1 .. n - 1 : t[i] = s[i + 1]
    OBVIOUS
  <1> HIDE DEF t, n
  <1>3. Head(s) \in Range(s)
    <2>1. 1 \in 1 .. n
      BY <1>1
    <2> QED  BY <1>1, <1>2, <2>1 DEF Range
  <1>4. \A i \in 1 .. n - 1 : i + 1 \in 1 .. n /\ i + 1 # 1
    BY <1>1
  <1>5. \A i \in 1 .. n : i = 1 \/ (i - 1 \in 1 .. n - 1 /\ t[i - 1] = s[i])
    BY <1>1, <1>2
  <1>6. 1 \in 1 .. n
    BY <1>1
  <1>7. Range(t) = Range(s) \ {Head(s)}
    <2>1. ASSUME NEW x \in Range(t)  PROVE x \in Range(s) \ {Head(s)}
      <3>1. PICK i \in 1 .. n - 1 : x = t[i]
        BY <1>1, <2>1 DEF Range
      <3>2. x = s[i + 1] /\ i + 1 \in 1 .. n /\ i + 1 # 1
        BY <1>2, <1>4, <3>1
      <3>3. x # s[1]
        BY <1>1, <1>6, <3>2 DEF IsInjective
      <3> QED  BY <1>1, <1>2, <3>2, <3>3 DEF Range
    <2>2. ASSUME NEW x \in Range(s) \ {Head(s)}  PROVE x \in Range(t)
      <3>1. PICK i \in 1 .. n : x = s[i]
        BY <1>1, <2>2 DEF Range
      <3>2. i - 1 \in 1 .. n - 1 /\ t[i - 1] = x
        BY <1>2, <1>5, <2>2, <3>1
      <3> QED  BY <1>1, <3>2 DEF Range
    <2> QED  BY <2>1, <2>2
  <1>8. IsInjective(t)
    <2> SUFFICES ASSUME NEW i \in 1 .. n - 1, NEW j \in 1 .. n - 1, t[i] = t[j]
                 PROVE  i = j
      BY <1>1 DEF IsInjective
    <2>1. s[i + 1] = s[j + 1] /\ i + 1 \in 1 .. n /\ j + 1 \in 1 .. n
      BY <1>2, <1>4
    <2>2. i + 1 = j + 1
      BY <1>1, <2>1 DEF IsInjective
    <2> QED  BY <1>1, <2>2
  <1> QED  BY <1>3, <1>7, <1>8 DEF t

\* A Put adds one message, in place of the one that was at its key.
LEMMA PutRange ==
  ASSUME NEW store, NEW k, NEW m, m \notin Range(store), IsInjective(store)
  PROVE  /\ Range(Put(store, k, m)) =
              (Range(store) \ {store[i] : i \in DOMAIN store \cap {k}}) \cup {m}
         /\ IsInjective(Put(store, k, m))
  BY DEF Range, IsInjective, Put

\* A Delete removes the message at its key.
LEMMA DeleteRange ==
  ASSUME NEW store, NEW k \in DOMAIN store, IsInjective(store)
  PROVE  /\ store[k] \in Range(store)
         /\ Range(Delete(store, k)) = Range(store) \ {store[k]}
         /\ IsInjective(Delete(store, k))
  BY DEF Range, IsInjective, Delete

-----------------------------------------------------------------------------
(* A live message is in exactly one place *)

\* The types, and the place of every message: inductive together.
PlaceInv == TypeInv /\ OnePlace

\* The orphan is one of the messages in LevelDB.
LEMMA OrphanStored == Orphan \subseteq Range(db)
  BY DEF Orphan, Range

\* What a Push that wrote does to the places of messages.
LEMMA PushEffect ==
  ASSUME TypeInv, OnePlace, NEW m \in Message,
         m \notin Range(db), m \notin Range(mem),
         PushOk(m) \/ PushTorn(m)
  PROVE  /\ IsInjective(db') /\ IsInjective(mem')
         /\ \/ /\ backend = "leveldb" /\ mem' = mem
               /\ Range(db') = (Range(db) \ Orphan) \cup {m}
            \/ /\ backend = "memory" /\ db' = db
               /\ Range(mem') = Range(mem) \cup {m}
  <1>1. IsInjective(db) /\ IsInjective(mem) /\ mem \in Seq(Message)
    BY DEF OnePlace, TypeInv, QueueInv, QueueTypeOK
  <1>2. CASE backend = "leveldb" /\ db' = Put(db, index, m) /\ mem' = mem
    <2>1. Range(db') = (Range(db) \ Orphan) \cup {m} /\ IsInjective(db')
      BY <1>1, <1>2, PutRange DEF Orphan
    <2> QED  BY <1>1, <1>2, <2>1
  <1>3. CASE backend = "memory" /\ db' = db /\ mem' = Append(mem, m)
    <2>1. Range(mem') = Range(mem) \cup {m} /\ IsInjective(mem')
      BY <1>1, <1>3, AppendRange
    <2> QED  BY <1>1, <1>3, <2>1
  <1> QED
    BY <1>2, <1>3 DEF PushOk, PushToLevelDB, PushToMemory, PushTorn

\* What a Pop does to them.
LEMMA PopEffect ==
  ASSUME TypeInv, OnePlace, NEW m \in Message, Pop(m)
  PROVE  /\ IsInjective(db') /\ IsInjective(mem')
         /\ \/ /\ m \in Range(db) /\ mem' = mem
               /\ Range(db') = Range(db) \ {m}
            \/ /\ m \in Range(mem) /\ db' = db
               /\ Range(mem') = Range(mem) \ {m}
  <1>1. IsInjective(db) /\ IsInjective(mem) /\ mem \in Seq(Message)
    BY DEF OnePlace, TypeInv, QueueInv, QueueTypeOK
  <1>2. CASE PopFromLevelDB(m)
    <2>1. PICK k \in DOMAIN db : m = db[k] /\ db' = Delete(db, k)
      BY <1>2 DEF PopFromLevelDB
    <2>2. /\ m \in Range(db) /\ Range(db') = Range(db) \ {m}
          /\ IsInjective(db')
      BY <1>1, <2>1, DeleteRange
    <2>3. mem' = mem
      BY <1>2 DEF PopFromLevelDB
    <2> QED  BY <1>1, <2>2, <2>3
  <1>3. CASE PopFromMemory(m)
    <2>1. mem # << >> /\ m = Head(mem) /\ mem' = Tail(mem) /\ db' = db
      BY <1>3 DEF PopFromMemory
    <2>2. /\ m \in Range(mem) /\ Range(mem') = Range(mem) \ {m}
          /\ IsInjective(mem')
      BY <1>1, <2>1, TailRange
    <2> QED  BY <1>1, <2>1, <2>2
  <1> QED  BY <1>2, <1>3 DEF Pop

\* A message that some goroutine holds is live, and nobody else has it.
LEMMA InHandFacts ==
  ASSUME OnePlace, NEW m \in Message, m \in InHand
  PROVE  /\ fate[m] = "live"
         /\ m \notin Range(db) /\ m \notin Range(mem) /\ m \notin Range(msgChan)
  BY DEF OnePlace, HeldOnce, Held

\* The updater takes a message that is nowhere, and puts it into msgChan or
\* drops it.
LEMMA UpdaterPlaces ==
  ASSUME PlaceInv, UpdaterNext
  PROVE  OnePlace'
  <1> USE DEF PlaceInv
  <1>1. HandlerTypeOK /\ NoMsg \notin Message
    BY QueueAssumption DEF TypeInv
  <1>2. ASSUME NEW m \in Message, Receive(m)
        PROVE  OnePlace'
    <2>1. fate[m] = "pending" /\ ~ Held(m)
      BY <1>2 DEF Receive, OnePlace
    <2>2. CASE m \in Target
      <3>1. UNCHANGED <<db, mem, msgChan, worker, retry>>
        BY <1>2, <2>2 DEF Receive, queueVars
      <3>2. updater.msg = NoMsg /\ updater'.msg = m
        BY <1>1, <1>2, <2>2, BusyHold DEF Receive
      <3>3. \A x \in Message : fate'[x] = IF x = m THEN "live" ELSE fate[x]
        BY <1>1, <1>2, <2>2 DEF Receive, HandlerTypeOK
      <3> QED
        BY <1>1, <2>1, <3>1, <3>2, <3>3 DEF OnePlace, HeldOnce, Held, InHand
    <2>3. CASE m \notin Target
      <3>1. UNCHANGED <<db, mem, msgChan, worker, retry, updater>>
        BY <1>2, <2>3 DEF Receive, queueVars
      <3>2. \A x \in Message : fate'[x] = IF x = m THEN "ignored" ELSE fate[x]
        BY <1>1, <1>2, <2>3 DEF Receive, HandlerTypeOK
      <3> QED
        BY <2>1, <3>1, <3>2 DEF OnePlace, HeldOnce, Held, InHand
    <2> QED  BY <2>2, <2>3
  <1>3. CASE Enqueue
    <2> DEFINE m == updater.msg
    <2>1. /\ m \in Message /\ m \in InHand
          /\ updater'.msg = NoMsg /\ UNCHANGED <<db, mem, worker, retry>>
      BY <1>1, <1>3, BusyHold DEF Enqueue, Idle, InHand, queueVars
    <2>2. /\ fate[m] = "live" /\ m \notin Range(db) /\ m \notin Range(mem)
          /\ m \notin Range(msgChan) /\ m # worker.msg /\ m # retry.msg
      BY <2>1, InHandFacts DEF OnePlace, HeldOnce
    <2>3. CASE Len(msgChan) < ChanCap
      <3>1. msgChan' = Append(msgChan, m) /\ fate' = fate
        BY <1>3, <2>3 DEF Enqueue
      <3>2. Range(msgChan') = Range(msgChan) \cup {m} /\ IsInjective(msgChan')
        BY <1>1, <2>1, <2>2, <3>1, AppendRange DEF OnePlace, HandlerTypeOK
      <3> QED
        BY <1>1, <2>1, <2>2, <3>1, <3>2 DEF OnePlace, HeldOnce, Held, InHand
    <2>4. CASE ~ (Len(msgChan) < ChanCap)
      <3>1. msgChan' = msgChan
        BY <1>3, <2>4 DEF Enqueue
      <3>2. \A x \in Message : fate'[x] = IF x = m THEN "dropped" ELSE fate[x]
        BY <1>1, <1>3, <2>4 DEF Enqueue, HandlerTypeOK
      <3> QED
        BY <1>1, <2>1, <2>2, <3>1, <3>2 DEF OnePlace, HeldOnce, Held, InHand
    <2> QED  BY <2>3, <2>4
  <1>4. CASE UpdaterStop
    <2>1. updater'.msg = updater.msg
      BY <1>1, <1>4 DEF UpdaterStop, Stopped, HandlerTypeOK
    <2>2. UNCHANGED <<db, mem, msgChan, worker, retry, fate>>
      BY <1>4 DEF UpdaterStop, queueVars
    <2> QED  BY <2>1, <2>2 DEF OnePlace, HeldOnce, Held, InHand
  <1> QED  BY <1>2, <1>3, <1>4 DEF UpdaterNext

\* A Push that writes takes a message out of a goroutine's hand.
LEMMA PushPlaces ==
  ASSUME PlaceInv, NEW m \in Message, PushOk(m) \/ PushTorn(m),
         fate' = FateAfterPut(m), UNCHANGED <<updater, msgChan>>,
         \/ m = worker.msg /\ worker'.msg = NoMsg /\ retry' = retry
         \/ m = retry.msg /\ retry'.msg = NoMsg /\ worker' = worker
  PROVE  OnePlace'
  <1> USE DEF PlaceInv
  <1>1. HandlerTypeOK /\ NoMsg \notin Message
    BY QueueAssumption DEF TypeInv
  <1>2. /\ fate[m] = "live"
        /\ m \notin Range(db) /\ m \notin Range(mem) /\ m \notin Range(msgChan)
    BY InHandFacts DEF InHand
  <1>3. /\ IsInjective(db') /\ IsInjective(mem')
        /\ \/ /\ backend = "leveldb" /\ mem' = mem
              /\ Range(db') = (Range(db) \ Orphan) \cup {m}
           \/ /\ backend = "memory" /\ db' = db
              /\ Range(mem') = Range(mem) \cup {m}
    BY <1>2, PushEffect
  <1>4. m # updater.msg
    BY DEF OnePlace, HeldOnce
  <1>5. CASE /\ backend = "leveldb" /\ mem' = mem
             /\ Range(db') = (Range(db) \ Orphan) \cup {m}
    <2>1. \A x \in Message :
             fate'[x] = IF x \in Orphan \ {m} THEN "overwritten" ELSE fate[x]
      BY <1>5 DEF FateAfterPut
    <2> QED
      BY <1>1, <1>2, <1>3, <1>4, <1>5, <2>1, OrphanStored
         DEF OnePlace, HeldOnce, Held, InHand
  <1>6. CASE /\ backend = "memory" /\ db' = db
             /\ Range(mem') = Range(mem) \cup {m}
    <2>1. fate' = fate
      BY <1>6 DEF FateAfterPut
    <2> QED
      BY <1>1, <1>2, <1>3, <1>4, <1>6, <2>1 DEF OnePlace, HeldOnce, Held, InHand
  <1> QED  BY <1>3, <1>5, <1>6

\* A message in the hand of the worker or the retry goroutine whose fate is
\* decided there.
LEMMA SettlePlaces ==
  ASSUME PlaceInv, NEW m \in Message, NEW f \in Fate \ {"live"},
         fate' = [fate EXCEPT ![m] = f],
         UNCHANGED <<db, mem, updater, msgChan>>,
         \/ m = worker.msg /\ worker'.msg = NoMsg /\ retry' = retry
         \/ m = retry.msg /\ retry'.msg = NoMsg /\ worker' = worker
  PROVE  OnePlace'
  <1> USE DEF PlaceInv
  <1>1. HandlerTypeOK /\ NoMsg \notin Message
    BY QueueAssumption DEF TypeInv
  <1>2. /\ fate[m] = "live"
        /\ m \notin Range(db) /\ m \notin Range(mem) /\ m \notin Range(msgChan)
    BY InHandFacts DEF InHand
  <1>3. \A x \in Message : fate'[x] = IF x = m THEN f ELSE fate[x]
    BY <1>1 DEF HandlerTypeOK
  <1> QED  BY <1>1, <1>2, <1>3 DEF OnePlace, HeldOnce, Held, InHand

\* A step that changes where a goroutine is, and not which message it holds.
LEMMA KeepPlaces ==
  ASSUME OnePlace, UNCHANGED <<db, mem, msgChan, fate>>,
         updater'.msg = updater.msg, worker'.msg = worker.msg,
         retry'.msg = retry.msg
  PROVE  OnePlace'
  BY DEF OnePlace, HeldOnce, Held, InHand

\* The worker moves a message from msgChan to its hand, and from there to the
\* queue or to its fate.
LEMMA WorkerPlaces ==
  ASSUME PlaceInv, WorkerNext
  PROVE  OnePlace'
  <1> USE DEF PlaceInv
  <1>1. HandlerTypeOK /\ NoMsg \notin Message /\ NoMsg = Idle.msg
        /\ {"done", "refused"} \subseteq Fate \ {"live"}
    BY QueueAssumption DEF TypeInv, Idle, Fate, Settled, Lost
  <1>2. CASE WorkerReceive
    <2> DEFINE m == Head(msgChan)
    <2>1. /\ msgChan # << >> /\ msgChan' = Tail(msgChan) /\ worker.msg = NoMsg
          /\ worker'.msg = m /\ UNCHANGED <<db, mem, updater, retry, fate>>
      BY <1>1, <1>2, BusyHold DEF WorkerReceive, queueVars
    <2>2. /\ m \in Range(msgChan) /\ Range(msgChan') = Range(msgChan) \ {m}
          /\ IsInjective(msgChan')
      BY <1>1, <2>1, TailRange DEF OnePlace, HandlerTypeOK
    <2> HIDE DEF m
    <2> QED  BY <1>1, <2>1, <2>2 DEF OnePlace, HeldOnce, Held, InHand
  <1>3. CASE WorkerSent
    BY <1>1, <1>3, BusyHold, SettlePlaces DEF WorkerSent, queueVars
  <1>4. CASE WorkerFailed \/ WorkerStop
    <2>1. worker'.msg = worker.msg
      BY <1>1, <1>4 DEF WorkerFailed, WorkerStop, Stopped, HandlerTypeOK
    <2> QED  BY <1>4, <2>1, KeepPlaces DEF WorkerFailed, WorkerStop, queueVars
  <1>5. CASE WorkerPush
    <2>1. worker.msg \in Message /\ worker'.msg = NoMsg
          /\ UNCHANGED <<updater, msgChan, retry>>
      BY <1>1, <1>5, BusyHold DEF WorkerPush
    <2>2. CASE PushRefused /\ fate' = [fate EXCEPT ![worker.msg] = "refused"]
      <3>1. UNCHANGED <<db, mem>>
        BY <2>2 DEF PushRefused, queueVars
      <3> QED  BY <1>1, <2>1, <2>2, <3>1, SettlePlaces
    <2>3. CASE /\ PushOk(worker.msg) \/ PushTorn(worker.msg)
               /\ fate' = FateAfterPut(worker.msg)
      BY <2>1, <2>3, PushPlaces
    <2> QED  BY <1>5, <2>2, <2>3 DEF WorkerPush
  <1> QED  BY <1>2, <1>3, <1>4, <1>5 DEF WorkerNext

\* The retry goroutine moves a message from the queue to its hand and back, or
\* decides its fate.
LEMMA RetryPlaces ==
  ASSUME PlaceInv, RetryNext
  PROVE  OnePlace'
  <1> USE DEF PlaceInv
  <1>1. HandlerTypeOK /\ NoMsg \notin Message
        /\ {"done", "refused", "abandoned"} \subseteq Fate \ {"live"}
    BY QueueAssumption DEF TypeInv, Fate, Settled, Lost
  <1>2. NextIteration.msg = NoMsg /\ RetryIdle.msg = NoMsg
    BY DEF NextIteration, RetryIdle
  <1>3. CASE RetryTick \/ RetrySize \/ RetryFailed \/ RetryStop
    <2>1. retry'.msg = retry.msg
      BY <1>1, <1>3 DEF RetryTick, RetrySize, RetryFailed, RetryStop, Stopped,
         HandlerTypeOK
    <2> QED
      BY <1>3, <2>1, KeepPlaces DEF RetryTick, RetrySize, RetryFailed, RetryStop,
         queueVars
  <1>4. CASE RetrySizeError \/ RetryPopError
    <2>1. retry'.msg = retry.msg
      BY <1>1, <1>2, <1>4, BusyHold DEF RetrySizeError, RetryPopError
    <2> QED
      BY <1>4, <2>1, KeepPlaces DEF RetrySizeError, RetryPopError, PopError, queueVars
  <1>5. ASSUME NEW m \in Message, RetryPop(m)
        PROVE  OnePlace'
    <2>1. /\ retry.msg = NoMsg /\ Pop(m)
          /\ UNCHANGED <<updater, msgChan, worker>>
      BY <1>1, <1>5, BusyHold DEF RetryPop
    <2>2. /\ IsInjective(db') /\ IsInjective(mem')
          /\ \/ /\ m \in Range(db) /\ mem' = mem
                /\ Range(db') = Range(db) \ {m}
             \/ /\ m \in Range(mem) /\ db' = db
                /\ Range(mem') = Range(mem) \ {m}
      BY <2>1, PopEffect
    <2>3. /\ fate[m] = "live" /\ m \notin Range(msgChan) /\ m \notin InHand
          /\ m \notin Range(db') /\ m \notin Range(mem')
      BY <2>2 DEF OnePlace, HeldOnce, Held
    <2>4. CASE Exhausted(m)
      <3>1. retry'.msg = NoMsg
        BY <1>2, <1>5, <2>4 DEF RetryPop
      <3>2. \A x \in Message : fate'[x] = IF x = m THEN "abandoned" ELSE fate[x]
        BY <1>1, <1>5, <2>4 DEF RetryPop, HandlerTypeOK
      <3> QED
        BY <1>1, <2>1, <2>2, <2>3, <3>1, <3>2 DEF OnePlace, HeldOnce, Held, InHand
    <2>5. CASE ~ Exhausted(m)
      <3>1. retry'.msg = m /\ fate' = fate
        BY <1>1, <1>5, <2>5 DEF RetryPop, HandlerTypeOK
      <3> QED
        BY <1>1, <2>1, <2>2, <2>3, <3>1 DEF OnePlace, HeldOnce, Held, InHand
    <2> QED  BY <2>4, <2>5
  <1>6. CASE RetrySent
    BY <1>1, <1>2, <1>6, BusyHold, SettlePlaces DEF RetrySent, queueVars
  <1>7. CASE RetryPush
    <2>1. retry.msg \in Message /\ retry'.msg = NoMsg
          /\ UNCHANGED <<updater, msgChan, worker>>
      BY <1>1, <1>2, <1>7, BusyHold DEF RetryPush
    <2>2. CASE PushRefused /\ fate' = [fate EXCEPT ![retry.msg] = "refused"]
      <3>1. UNCHANGED <<db, mem>>
        BY <2>2 DEF PushRefused, queueVars
      <3> QED  BY <1>1, <2>1, <2>2, <3>1, SettlePlaces
    <2>3. CASE /\ PushOk(retry.msg) \/ PushTorn(retry.msg)
               /\ fate' = FateAfterPut(retry.msg)
      BY <2>1, <2>3, PushPlaces
    <2> QED  BY <1>7, <2>2, <2>3 DEF RetryPush
  <1> QED  BY <1>3, <1>4, <1>5, <1>6, <1>7 DEF RetryNext

\* When the process ends, what LevelDB holds then is all that is live.
LEMMA VanishPlaces ==
  ASSUME PlaceInv, Vanish, mem' = << >>, IsInjective(db'),
         \A x \in Range(db') : x \in Message => fate[x] = "live"
  PROVE  OnePlace'
  <1>1. NoMsg \notin Message
    BY QueueAssumption
  <1>2. /\ updater'.msg = NoMsg /\ worker'.msg = NoMsg /\ retry'.msg = NoMsg
        /\ msgChan' = << >>
    BY DEF Vanish, Idle, RetryIdle
  <1>3. Range(<< >>) = {} /\ IsInjective(<< >>)
    BY DEF Range, IsInjective
  <1>4. \A x \in Message : fate'[x] = "live" <=> x \in Range(db')
    BY DEF Vanish
  <1> QED  BY <1>1, <1>2, <1>3, <1>4 DEF OnePlace, HeldOnce, Held, InHand

\* Starting and stopping move no message; the end of the process leaves the
\* messages in LevelDB.
LEMMA MainPlaces ==
  ASSUME PlaceInv, MainNext \/ Crash
  PROVE  OnePlace'
  <1> USE DEF PlaceInv
  <1>1. CASE StartProcess \/ Stop \/ StopQueue \/ CloseStorage
    BY <1>1, KeepPlaces DEF StartProcess, Stop, StopQueue, CloseStorage, Open,
       Close, queueVars
  <1>2. CASE Die /\ Vanish
    <2>1. db' = db /\ mem' = << >>
      BY <1>2 DEF Die
    <2>2. \A x \in Range(db) : x \in Message => fate[x] = "live"
      BY DEF OnePlace, Held
    <2>3. IsInjective(db)
      BY DEF OnePlace
    <2> QED  BY <1>2, <2>1, <2>2, <2>3, VanishPlaces
  <1>3. ASSUME NEW m \in Message, m \in {worker.msg, retry.msg}, DieInPush(m), Vanish
        PROVE  OnePlace'
    <2>1. db' = Put(db, index, m) /\ mem' = << >>
      BY <1>3 DEF DieInPush
    <2>2. m \notin Range(db) /\ fate[m] = "live"
      BY <1>3, InHandFacts DEF InHand
    <2>3. IsInjective(db)
      BY DEF OnePlace
    <2>4. IsInjective(db') /\ Range(db') \subseteq Range(db) \cup {m}
      BY <2>1, <2>2, <2>3, PutRange
    <2>5. \A x \in Range(db') : x \in Message => fate[x] = "live"
      BY <2>2, <2>4 DEF OnePlace, Held
    <2> QED  BY <1>3, <2>1, <2>4, <2>5, VanishPlaces
  <1>4. HandlerTypeOK
    BY DEF TypeInv
  <1> QED  BY <1>1, <1>2, <1>3, <1>4, BusyHold DEF MainNext, Exit, Crash

\* The places of the messages are inductive with the types.
LEMMA PlaceInvInductive ==
  /\ Init => PlaceInv
  /\ PlaceInv /\ [Next]_vars => PlaceInv'
  <1>1. Init => OnePlace
    <2> SUFFICES ASSUME Init  PROVE OnePlace
      OBVIOUS
    <2>1. /\ updater.msg = NoMsg /\ worker.msg = NoMsg /\ retry.msg = NoMsg
          /\ msgChan = << >> /\ mem = << >> /\ NoMsg \notin Message
          /\ \A m \in Message : fate[m] = "pending"
      BY QueueAssumption DEF Init, QueueInit, HandlerInit, Idle, RetryIdle
    <2>2. Range(<< >>) = {} /\ IsInjective(<< >>)
      BY DEF Range, IsInjective
    <2>3. Range(db) = {} /\ IsInjective(db)
      BY DEF Init, QueueInit, Range, IsInjective
    <2> QED  BY <2>1, <2>2, <2>3 DEF OnePlace, HeldOnce, Held, InHand
  <1>2. PlaceInv /\ [Next]_vars => OnePlace'
    <2>1. UNCHANGED vars /\ OnePlace => OnePlace'
      BY KeepPlaces DEF vars, queueVars, handlerVars
    <2> QED
      BY <2>1, UpdaterPlaces, WorkerPlaces, RetryPlaces, MainPlaces DEF Next, PlaceInv
  <1> QED  BY <1>1, <1>2, TypeInvInductive DEF PlaceInv

\* No message is duplicated, and none is forgotten without a fate: across
\* the three goroutines, the channel and both queues, failed pushes, Stop,
\* crashes and restarts.
THEOREM EveryMessageInOnePlace == Spec => []OnePlace
  <1>1. PlaceInv => OnePlace
    BY DEF PlaceInv
  <1> QED  BY <1>1, PlaceInvInductive, PTL DEF Spec

-----------------------------------------------------------------------------
(* Fates are final *)

\* A step decides the fate of messages that are pending or live only.
LEMMA FateSteps ==
  ASSUME PlaceInv, [Next]_vars, NEW m \in Message,
         fate[m] \notin {"pending", "live"}
  PROVE  fate'[m] = fate[m]
  <1>1. HandlerTypeOK /\ ~ Held(m) /\ OnePlace
    BY DEF PlaceInv, TypeInv, OnePlace
  <1>2. m \notin Orphan /\ m \notin InHand /\ m \notin Range(db) /\ m \notin Range(mem)
    BY <1>1, OrphanStored DEF Held
  <1>3. CASE UpdaterNext
    BY <1>1, <1>2, <1>3 DEF UpdaterNext, Receive, Enqueue, UpdaterStop,
       HandlerTypeOK, InHand
  <1>4. CASE WorkerNext
    BY <1>1, <1>2, <1>4 DEF WorkerNext, WorkerReceive, WorkerSent, WorkerFailed,
       WorkerPush, WorkerStop, FateAfterPut, HandlerTypeOK, InHand
  <1>5. ASSUME NEW x \in Message, RetryPop(x)
        PROVE  fate'[m] = fate[m]
    <2>1. x # m
      BY <1>1, <1>2, <1>5, PopEffect DEF RetryPop, PlaceInv
    <2> QED  BY <1>1, <1>5, <2>1 DEF RetryPop, HandlerTypeOK
  <1>6. CASE /\ RetryNext
             /\ ~ \E x \in Message : RetryPop(x)
    BY <1>1, <1>2, <1>6 DEF RetryNext, RetryTick, RetrySize, RetrySizeError,
       RetryPopError, RetrySent, RetryFailed, RetryPush, RetryStop,
       FateAfterPut, HandlerTypeOK, InHand
  <1>7. CASE MainNext \/ Crash
    BY <1>1, <1>7 DEF MainNext, StartProcess, Stop, StopQueue, CloseStorage,
       Exit, Crash, Vanish
  <1>8. CASE UNCHANGED vars
    BY <1>8 DEF vars, handlerVars
  <1> QED  BY <1>3, <1>4, <1>5, <1>6, <1>7, <1>8 DEF Next

\* A message that was sent, abandoned or lost is never handled again.
THEOREM FatesAreFinal == Spec => FateIsFinal
  <1> DEFINE A == \A m \in Message :
                     fate[m] \notin {"pending", "live"} => fate'[m] = fate[m]
  <1>1. PlaceInv /\ [Next]_vars => [A]_vars
    BY FateSteps
  <1> QED  BY <1>1, PlaceInvInductive, PTL DEF Spec, FateIsFinal

-----------------------------------------------------------------------------
(* Attempts are bounded *)

\* m is on its way to its first attempt.
Untried(m) ==
  \/ fate[m] = "pending"
  \/ m = updater.msg
  \/ m \in Range(msgChan)
  \/ worker.at = "send" /\ m = worker.msg

\* A message on its way to its first attempt has not been counted yet, and the
\* retry goroutine sends only what it found below the limit.
AttemptsInv ==
  /\ \A m \in Message : Untried(m) => attempts[m] = 0
  /\ retry.at = "send" => attempts[retry.msg] < MaxAttempts
  /\ AttemptsBounded

\* No step makes a pending message of one that is not.
LEMMA PendingSteps ==
  ASSUME HandlerTypeOK, [Next]_vars, NEW m \in Message, fate'[m] = "pending"
  PROVE  fate[m] = "pending"
  <1>1. CASE UpdaterNext
    BY <1>1 DEF UpdaterNext, Receive, Enqueue, UpdaterStop, HandlerTypeOK
  <1>2. CASE WorkerNext
    BY <1>2 DEF WorkerNext, WorkerReceive, WorkerSent, WorkerFailed,
       WorkerPush, WorkerStop, FateAfterPut, HandlerTypeOK
  <1>3. CASE RetryNext
    BY <1>3 DEF RetryNext, RetryTick, RetrySize, RetrySizeError, RetryPop,
       RetryPopError, RetrySent, RetryFailed, RetryPush, RetryStop,
       FateAfterPut, HandlerTypeOK
  <1>4. CASE MainNext \/ Crash
    BY <1>4 DEF MainNext, StartProcess, Stop, StopQueue, CloseStorage,
       Exit, Crash, Vanish
  <1>5. CASE UNCHANGED vars
    BY <1>5 DEF vars, handlerVars
  <1> QED  BY <1>1, <1>2, <1>3, <1>4, <1>5 DEF Next

\* Steps that count no attempt: nothing untried comes from elsewhere, and the
\* retry goroutine starts a send only after the check of RetryPop.
LEMMA UncountedKeeps ==
  ASSUME AttemptsInv, attempts' = attempts,
         \A m \in Message : Untried(m)' => Untried(m),
         retry'.at = "send" =>
            \/ retry' = retry
            \/ retry'.msg \in Message /\ ~ Exhausted(retry'.msg),
         HandlerTypeOK
  PROVE  AttemptsInv'
  <1>1. \A m \in Message : attempts[m] \in Nat
    BY DEF HandlerTypeOK
  <1>2. AttemptsBounded'
    BY DEF AttemptsInv, AttemptsBounded
  <1>3. retry'.at = "send" => attempts'[retry'.msg] < MaxAttempts
    BY <1>1, HandlerAssumption DEF AttemptsInv, Exhausted
  <1>4. \A m \in Message : Untried(m)' => attempts'[m] = 0
    BY DEF AttemptsInv
  <1> QED  BY <1>2, <1>3, <1>4 DEF AttemptsInv

\* The updater counts no attempt.
LEMMA UpdaterAttempts ==
  ASSUME PlaceInv, AttemptsInv, UpdaterNext
  PROVE  AttemptsInv'
  <1>1. HandlerTypeOK /\ NoMsg \notin Message
    BY QueueAssumption DEF PlaceInv, TypeInv
  <1>2. attempts' = attempts /\ retry' = retry /\ worker' = worker
    BY DEF UpdaterNext, Receive, Enqueue, UpdaterStop
  <1>3. \A m \in Message : fate'[m] = "pending" => fate[m] = "pending"
    BY <1>1, PendingSteps DEF Next
  <1>4. ASSUME NEW m \in Message, m = updater'.msg
        PROVE  Untried(m)
    BY <1>1, <1>4 DEF UpdaterNext, Receive, Enqueue, UpdaterStop, Idle, Stopped,
       HandlerTypeOK, Untried
  <1>5. ASSUME NEW m \in Message, m \in Range(msgChan')
        PROVE  Untried(m)
    <2>1. CASE msgChan' = msgChan
      BY <1>5, <2>1 DEF Untried
    <2>2. CASE Enqueue /\ msgChan' = Append(msgChan, updater.msg)
      <3>1. updater.msg \in Message /\ updater.msg \in InHand
        BY <1>1, <2>2, BusyHold DEF Enqueue, InHand
      <3>2. updater.msg \notin Range(msgChan)
        BY <3>1, InHandFacts DEF PlaceInv
      <3>3. Range(msgChan') = Range(msgChan) \cup {updater.msg}
        BY <1>1, <2>2, <3>1, <3>2, AppendRange DEF PlaceInv, OnePlace, HandlerTypeOK
      <3> QED  BY <1>5, <3>3 DEF Untried
    <2> QED  BY <2>1, <2>2 DEF UpdaterNext, Receive, Enqueue, UpdaterStop
  <1>6. \A m \in Message : Untried(m)' => Untried(m)
    BY <1>2, <1>3, <1>4, <1>5 DEF Untried
  <1> QED  BY <1>1, <1>2, <1>6, UncountedKeeps

\* The worker counts the first attempt of a message that has none.
LEMMA WorkerAttempts ==
  ASSUME PlaceInv, AttemptsInv, WorkerNext
  PROVE  AttemptsInv'
  <1>1. HandlerTypeOK /\ NoMsg \notin Message
    BY QueueAssumption DEF PlaceInv, TypeInv
  <1>2. updater' = updater /\ retry' = retry
    BY DEF WorkerNext, WorkerReceive, WorkerSent, WorkerFailed, WorkerPush, WorkerStop
  <1>3. \A m \in Message : fate'[m] = "pending" => fate[m] = "pending"
    BY <1>1, PendingSteps DEF Next
  <1>4. CASE WorkerReceive
    <2>1. /\ Head(msgChan) \in Range(msgChan)
          /\ Range(msgChan') \subseteq Range(msgChan)
      BY <1>1, <1>4, TailRange DEF WorkerReceive, PlaceInv, OnePlace, HandlerTypeOK
    <2>2. worker'.msg = Head(msgChan) /\ attempts' = attempts
      BY <1>4 DEF WorkerReceive
    <2>3. \A m \in Message : Untried(m)' => Untried(m)
      BY <1>2, <1>3, <2>1, <2>2 DEF Untried
    <2> QED  BY <1>1, <1>2, <2>2, <2>3, UncountedKeeps
  <1>5. CASE WorkerSent \/ WorkerPush \/ WorkerStop
    <2>1. attempts' = attempts /\ msgChan' = msgChan
      BY <1>5 DEF WorkerSent, WorkerPush, WorkerStop
    <2>2. worker'.at # "send"
      BY <1>1, <1>5 DEF WorkerSent, WorkerPush, WorkerStop, Idle, Stopped, HandlerTypeOK
    <2>3. \A m \in Message : Untried(m)' => Untried(m)
      BY <1>2, <1>3, <2>1, <2>2 DEF Untried
    <2> QED  BY <1>1, <1>2, <2>1, <2>3, UncountedKeeps
  <1>6. CASE WorkerFailed
    <2> DEFINE m == worker.msg
    <2>1. /\ m \in Message /\ m \in InHand /\ Untried(m)
          /\ UNCHANGED <<updater, retry, msgChan, fate>> /\ worker'.at = "push"
          /\ \A x \in Message :
                attempts'[x] = IF x = m THEN attempts[x] + 1 ELSE attempts[x]
      BY <1>1, <1>6, BusyHold DEF WorkerFailed, InHand, Untried, HandlerTypeOK
    <2>2. attempts[m] = 0
      BY <2>1 DEF AttemptsInv
    <2>3. /\ fate[m] = "live" /\ m \notin Range(msgChan)
          /\ m # updater.msg /\ m # retry.msg
      BY <2>1, InHandFacts DEF PlaceInv, OnePlace, HeldOnce
    <2>4. \A x \in Message : Untried(x)' => x # m /\ Untried(x)
      BY <2>1, <2>3 DEF Untried
    <2>5. AttemptsBounded'
      BY <2>1, <2>2 DEF AttemptsInv, AttemptsBounded
    <2>6. retry'.at = "send" => attempts'[retry'.msg] < MaxAttempts
      BY <1>1, <2>1, <2>3, BusyHold DEF AttemptsInv
    <2> QED  BY <2>1, <2>4, <2>5, <2>6 DEF AttemptsInv
  <1> QED  BY <1>4, <1>5, <1>6 DEF WorkerNext

\* The retry goroutine counts an attempt of a message below the limit.
LEMMA RetryAttempts ==
  ASSUME PlaceInv, AttemptsInv, RetryNext
  PROVE  AttemptsInv'
  <1>1. HandlerTypeOK /\ NoMsg \notin Message
    BY QueueAssumption DEF PlaceInv, TypeInv
  <1>2. updater' = updater /\ worker' = worker /\ msgChan' = msgChan
    BY DEF RetryNext, RetryTick, RetrySize, RetrySizeError, RetryPop,
       RetryPopError, RetrySent, RetryFailed, RetryPush, RetryStop
  <1>3. \A m \in Message : fate'[m] = "pending" => fate[m] = "pending"
    BY <1>1, PendingSteps DEF Next
  <1>4. \A m \in Message : Untried(m)' => Untried(m)
    BY <1>2, <1>3 DEF Untried
  <1>5. NextIteration.at # "send" /\ RetryIdle.at # "send"
    BY DEF NextIteration, RetryIdle
  <1>6. CASE RetryFailed
    <2> DEFINE m == retry.msg
    <2>1. /\ m \in Message /\ m \in InHand
          /\ UNCHANGED <<updater, worker, msgChan, fate>> /\ retry'.at = "push"
          /\ \A x \in Message :
                attempts'[x] = IF x = m THEN attempts[x] + 1 ELSE attempts[x]
      BY <1>1, <1>6, BusyHold DEF RetryFailed, InHand, HandlerTypeOK
    <2>2. attempts[m] < MaxAttempts /\ attempts[m] \in Nat
      BY <1>1, <1>6, <2>1 DEF AttemptsInv, RetryFailed, HandlerTypeOK
    <2>3. /\ fate[m] = "live" /\ m \notin Range(msgChan)
          /\ m # updater.msg /\ m # worker.msg
      BY <2>1, InHandFacts DEF PlaceInv, OnePlace, HeldOnce
    <2>4. \A x \in Message : Untried(x)' => x # m /\ Untried(x)
      BY <2>1, <2>3 DEF Untried
    <2>5. AttemptsBounded'
      BY <2>1, <2>2, HandlerAssumption DEF AttemptsInv, AttemptsBounded
    <2> QED  BY <2>1, <2>4, <2>5 DEF AttemptsInv
  <1>7. ASSUME NEW m \in Message, RetryPop(m)
        PROVE  AttemptsInv'
    <2>1. attempts' = attempts
      BY <1>7 DEF RetryPop
    <2>2. retry'.at = "send" => retry'.msg = m /\ ~ Exhausted(m)
      BY <1>1, <1>5, <1>7 DEF RetryPop, HandlerTypeOK
    <2> QED  BY <1>1, <1>4, <2>1, <2>2, UncountedKeeps
  <1>8. CASE \/ RetryTick \/ RetrySize \/ RetrySizeError \/ RetryPopError
             \/ RetrySent \/ RetryPush \/ RetryStop
    <2>1. attempts' = attempts
      BY <1>8 DEF RetryTick, RetrySize, RetrySizeError, RetryPopError,
         RetrySent, RetryPush, RetryStop
    <2>2. retry'.at # "send"
      BY <1>1, <1>5, <1>8 DEF RetryTick, RetrySize, RetrySizeError, RetryPopError,
         RetrySent, RetryPush, RetryStop, Stopped, HandlerTypeOK
    <2> QED  BY <1>1, <1>4, <2>1, <2>2, UncountedKeeps
  <1> QED  BY <1>6, <1>7, <1>8 DEF RetryNext

\* Starts, stops and crashes count no attempt.
LEMMA MainAttempts ==
  ASSUME PlaceInv, AttemptsInv, MainNext \/ Crash
  PROVE  AttemptsInv'
  <1>1. HandlerTypeOK /\ NoMsg \notin Message
    BY QueueAssumption DEF PlaceInv, TypeInv
  <1>2. \A m \in Message : fate'[m] = "pending" => fate[m] = "pending"
    BY <1>1, PendingSteps DEF Next
  <1>3. CASE StartProcess \/ Stop \/ StopQueue \/ CloseStorage
    <2>1. UNCHANGED <<attempts, updater, msgChan, worker, retry>>
      BY <1>3 DEF StartProcess, Stop, StopQueue, CloseStorage
    <2>2. \A m \in Message : Untried(m)' => Untried(m)
      BY <1>2, <2>1 DEF Untried
    <2> QED  BY <1>1, <2>1, <2>2, UncountedKeeps
  <1>4. CASE Vanish
    <2>1. /\ updater'.msg = NoMsg /\ worker'.at = "idle" /\ retry'.at = "idle"
          /\ msgChan' = << >> /\ attempts' = attempts
      BY <1>4 DEF Vanish, Idle, RetryIdle
    <2>2. Range(<< >>) = {}
      BY DEF Range
    <2>3. \A m \in Message : Untried(m)' => Untried(m)
      BY <1>1, <1>2, <2>1, <2>2 DEF Untried
    <2> QED  BY <1>1, <2>1, <2>3, UncountedKeeps
  <1> QED  BY <1>3, <1>4 DEF MainNext, Exit, Crash

\* The bound on the attempts is inductive with the places.
LEMMA AttemptsInvInductive ==
  /\ Init => AttemptsInv
  /\ PlaceInv /\ AttemptsInv /\ [Next]_vars => AttemptsInv'
  <1>1. Init => AttemptsInv
    BY HandlerAssumption DEF Init, HandlerInit, AttemptsInv, AttemptsBounded, RetryIdle
  <1>2. AttemptsInv /\ UNCHANGED vars => AttemptsInv'
    BY DEF vars, queueVars, handlerVars, AttemptsInv, AttemptsBounded, Untried
  <1> QED
    BY <1>1, <1>2, UpdaterAttempts, WorkerAttempts, RetryAttempts, MainAttempts DEF Next

\* No message is sent more often than MaxAttempts allows (or more than once,
\* if it allows none), across crashes and restarts and for every limit.
THEOREM AttemptsAreBounded == Spec => []AttemptsBounded
  <1>1. AttemptsInv => AttemptsBounded
    BY DEF AttemptsInv
  <1> QED  BY <1>1, AttemptsInvInductive, PlaceInvInductive, PTL DEF Spec

-----------------------------------------------------------------------------
(* The handler implements Delivery *)

\* m has failed and waits for another attempt, or is under it.
Waiting(m) ==
  \/ m \in Range(db) \cup Range(mem)
  \/ m = retry.msg
  \/ worker.at = "push" /\ m = worker.msg

\* What waits for another attempt has had one: the converse of AttemptsInv.
TriedInv == \A m \in Message : Waiting(m) => attempts[m] > 0

\* Steps that count no attempt keep it, if nothing begins to wait.
LEMMA WaitingKeeps ==
  ASSUME TriedInv, attempts' = attempts,
         \A m \in Message : Waiting(m)' => Waiting(m)
  PROVE  TriedInv'
  BY DEF TriedInv

\* A Push that wrote adds no other message to the queue.
LEMMA PushAdds ==
  ASSUME PlaceInv, NEW m \in Message, m \in InHand, PushOk(m) \/ PushTorn(m)
  PROVE  Range(db') \cup Range(mem') \subseteq Range(db) \cup Range(mem) \cup {m}
  <1>1. TypeInv /\ OnePlace
    BY DEF PlaceInv
  <1>2. m \notin Range(db) /\ m \notin Range(mem)
    BY <1>1, InHandFacts
  <1> QED  BY <1>1, <1>2, PushEffect

\* The worker lets a message wait only after it has counted its attempt.
LEMMA WorkerTried ==
  ASSUME PlaceInv, TriedInv, WorkerNext
  PROVE  TriedInv'
  <1>1. HandlerTypeOK /\ NoMsg \notin Message
    BY QueueAssumption DEF PlaceInv, TypeInv
  <1>2. CASE WorkerReceive \/ WorkerSent \/ WorkerStop
    <2>1. UNCHANGED <<db, mem, retry, attempts>> /\ worker'.at # "push"
      BY <1>1, <1>2 DEF WorkerReceive, WorkerSent, WorkerStop, Idle, Stopped,
         HandlerTypeOK, queueVars
    <2> QED  BY <2>1, WaitingKeeps DEF Waiting
  <1>3. CASE WorkerFailed
    <2>1. /\ worker.msg \in Message /\ worker'.msg = worker.msg
          /\ UNCHANGED <<db, mem, retry>>
      BY <1>1, <1>3, BusyHold DEF WorkerFailed, HandlerTypeOK, queueVars
    <2>2. \A x \in Message :
             /\ attempts[x] \in Nat
             /\ attempts'[x] = IF x = worker.msg THEN attempts[x] + 1 ELSE attempts[x]
      BY <1>1, <1>3 DEF WorkerFailed, HandlerTypeOK
    <2>3. \A x \in Message : Waiting(x)' => Waiting(x) \/ x = worker.msg
      BY <2>1 DEF Waiting
    <2> QED  BY <2>1, <2>2, <2>3 DEF TriedInv
  <1>4. CASE WorkerPush
    <2>1. /\ worker.msg \in Message /\ worker.msg \in InHand /\ Waiting(worker.msg)
          /\ worker'.at # "push" /\ UNCHANGED <<retry, attempts>>
      BY <1>1, <1>4, BusyHold DEF WorkerPush, Idle, InHand, Waiting
    <2>2. Range(db') \cup Range(mem')
            \subseteq Range(db) \cup Range(mem) \cup {worker.msg}
      <3>1. CASE PushRefused
        BY <3>1 DEF PushRefused, queueVars
      <3> QED  BY <1>4, <2>1, <3>1, PushAdds DEF WorkerPush
    <2> QED  BY <2>1, <2>2, WaitingKeeps DEF Waiting
  <1> QED  BY <1>2, <1>3, <1>4 DEF WorkerNext

\* The retry goroutine takes and puts back what has been tried.
LEMMA RetryTried ==
  ASSUME PlaceInv, TriedInv, RetryNext
  PROVE  TriedInv'
  <1>1. HandlerTypeOK /\ NoMsg \notin Message
    BY QueueAssumption DEF PlaceInv, TypeInv
  <1>2. NextIteration.msg = NoMsg /\ RetryIdle.msg = NoMsg
    BY DEF NextIteration, RetryIdle
  <1>3. CASE \/ RetryTick \/ RetrySize \/ RetrySizeError \/ RetryPopError
             \/ RetrySent \/ RetryStop
    <2>1. UNCHANGED <<db, mem, worker, attempts>>
      BY <1>3 DEF RetryTick, RetrySize, RetrySizeError, RetryPopError, RetrySent,
         RetryStop, PopError, queueVars
    <2>2. retry'.msg \in {retry.msg, NoMsg}
      BY <1>1, <1>2, <1>3 DEF RetryTick, RetrySize, RetrySizeError, RetryPopError,
         RetrySent, RetryStop, Stopped, HandlerTypeOK
    <2> QED  BY <1>1, <2>1, <2>2, WaitingKeeps DEF Waiting
  <1>4. ASSUME NEW m \in Message, RetryPop(m)
        PROVE  TriedInv'
    <2>1. Pop(m) /\ UNCHANGED <<worker, attempts>> /\ retry'.msg \in {NoMsg, m}
      BY <1>1, <1>2, <1>4 DEF RetryPop, HandlerTypeOK
    <2>2. /\ m \in Range(db) \cup Range(mem)
          /\ Range(db') \subseteq Range(db) /\ Range(mem') \subseteq Range(mem)
      BY <2>1, PopEffect DEF PlaceInv
    <2> QED  BY <1>1, <2>1, <2>2, WaitingKeeps DEF Waiting
  <1>5. CASE RetryFailed
    <2>1. retry'.msg = retry.msg /\ UNCHANGED <<db, mem, worker>>
      BY <1>1, <1>5 DEF RetryFailed, HandlerTypeOK, queueVars
    <2>2. \A x \in Message :
             attempts[x] \in Nat /\ attempts'[x] \in {attempts[x], attempts[x] + 1}
      BY <1>1, <1>5 DEF RetryFailed, HandlerTypeOK
    <2>3. \A x \in Message : Waiting(x)' => Waiting(x)
      BY <2>1 DEF Waiting
    <2> QED  BY <2>2, <2>3 DEF TriedInv
  <1>6. CASE RetryPush
    <2>1. /\ retry.msg \in Message /\ retry.msg \in InHand /\ Waiting(retry.msg)
          /\ retry'.msg = NoMsg /\ UNCHANGED <<worker, attempts>>
      BY <1>1, <1>2, <1>6, BusyHold DEF RetryPush, InHand, Waiting
    <2>2. Range(db') \cup Range(mem')
            \subseteq Range(db) \cup Range(mem) \cup {retry.msg}
      <3>1. CASE PushRefused
        BY <3>1 DEF PushRefused, queueVars
      <3> QED  BY <1>6, <2>1, <3>1, PushAdds DEF RetryPush
    <2> QED  BY <1>1, <2>1, <2>2, WaitingKeeps DEF Waiting
  <1> QED  BY <1>3, <1>4, <1>5, <1>6 DEF RetryNext

\* What the disk holds after the end of the process was there before it, or in
\* the hand of a goroutine that was pushing it.
LEMMA EndTried ==
  ASSUME PlaceInv, TriedInv, Exit \/ Crash
  PROVE  TriedInv'
  <1>1. HandlerTypeOK /\ NoMsg \notin Message
    BY QueueAssumption DEF PlaceInv, TypeInv
  <1>2. /\ retry'.msg = NoMsg /\ worker'.at = "idle" /\ attempts' = attempts
    BY DEF Exit, Crash, Vanish, Idle, RetryIdle
  <1>3. Range(<< >>) = {}
    BY DEF Range
  <1>4. CASE Die
    BY <1>1, <1>2, <1>3, <1>4, WaitingKeeps DEF Die, Waiting
  <1>5. ASSUME NEW m \in Message, m \in InHand, Waiting(m), DieInPush(m)
        PROVE  TriedInv'
    <2>1. db' = Put(db, index, m) /\ mem' = << >> /\ m \notin Range(db)
          /\ IsInjective(db)
      BY <1>5, InHandFacts DEF DieInPush, PlaceInv, OnePlace
    <2>2. Range(db') \subseteq Range(db) \cup {m}
      BY <2>1, PutRange
    <2> QED  BY <1>1, <1>2, <1>3, <1>5, <2>1, <2>2, WaitingKeeps DEF Waiting
  <1> QED  BY <1>1, <1>4, <1>5, BusyHold DEF Exit, Crash, InHand, Waiting

\* What waits has been tried: inductive with the places.
LEMMA TriedInvInductive ==
  /\ Init => TriedInv
  /\ PlaceInv /\ TriedInv /\ [Next]_vars => TriedInv'
  <1>1. Init => TriedInv
    <2> SUFFICES ASSUME Init  PROVE TriedInv
      OBVIOUS
    <2>1. /\ mem = << >> /\ NoMsg \notin Message
          /\ retry.msg = NoMsg /\ worker.at = "idle"
      BY QueueAssumption DEF Init, QueueInit, HandlerInit, Idle, RetryIdle
    <2>2. Range(<< >>) = {} /\ Range(db) = {}
      BY DEF Range, Init, QueueInit
    <2> QED  BY <2>1, <2>2 DEF TriedInv, Waiting
  <1>2. TriedInv /\ UNCHANGED <<db, mem, worker, retry, attempts>> => TriedInv'
    BY DEF TriedInv, Waiting
  <1>3. \/ UpdaterNext \/ StartProcess \/ Stop \/ StopQueue \/ CloseStorage
        \/ UNCHANGED vars
        => UNCHANGED <<db, mem, worker, retry, attempts>>
    BY DEF UpdaterNext, Receive, Enqueue, UpdaterStop, StartProcess, Stop,
       StopQueue, CloseStorage, Open, Close, vars, queueVars, handlerVars
  <1> QED
    BY <1>1, <1>2, <1>3, WorkerTried, RetryTried, EndTried DEF Next, MainNext

\* A live message is lost with what a step of Delivery allows.
Loses(m) ==
  /\ fate[m] = "live"
  /\ fate'[m] \in D!Loss
  /\ D!MayLose(m, fate'[m])

\* A step that changes fates by losing messages only is a Lose of Delivery.
LEMMA LoseStep ==
  ASSUME HandlerTypeOK, HandlerTypeOK', attempts' = attempts,
         \A m \in Message : fate'[m] # fate[m] => Loses(m)
  PROVE  D!Lose
  <1> DEFINE S == {m \in Message : fate'[m] # fate[m]}
             loss == [m \in S |-> fate'[m]]
  <1>1. S \in SUBSET {m \in Message : fate[m] = "live"} /\ loss \in [S -> D!Loss]
    BY DEF Loses
  <1>2. \A m \in S : D!MayLose(m, loss[m])
    BY DEF Loses
  <1>3. fate' = [m \in Message |-> IF m \in S THEN loss[m] ELSE fate[m]]
    BY DEF HandlerTypeOK
  <1> QED  BY <1>1, <1>2, <1>3 DEF D!Lose

\* The updater brings a message, or drops one that was never tried.
LEMMA UpdaterDelivers ==
  ASSUME PlaceInv, AttemptsInv, HandlerTypeOK', UpdaterNext
  PROVE  [D!DeliveryNext]_<<fate, attempts>>
  <1>1. HandlerTypeOK
    BY DEF PlaceInv, TypeInv
  <1>2. ASSUME NEW m \in Message, Receive(m)
        PROVE  D!Arrive(m)
    BY <1>2 DEF Receive, D!Arrive
  <1>3. CASE Enqueue /\ fate' # fate
    <2> DEFINE m == updater.msg
    <2>1. /\ m \in Message /\ m \in InHand /\ Untried(m) /\ attempts' = attempts
          /\ fate' = [fate EXCEPT ![m] = "dropped"]
      BY <1>1, <1>3, BusyHold DEF Enqueue, InHand, Untried
    <2>2. fate[m] = "live" /\ attempts[m] = 0
      BY <2>1, InHandFacts DEF PlaceInv, AttemptsInv
    <2>3. \A x \in Message : fate'[x] # fate[x] => x = m /\ fate'[x] = "dropped"
      BY <1>1, <2>1 DEF HandlerTypeOK
    <2>4. \A x \in Message : fate'[x] # fate[x] => Loses(x)
      BY <2>2, <2>3 DEF Loses, D!Loss, D!MayLose
    <2>5. D!Lose
      BY <1>1, <2>1, <2>4, LoseStep
    <2> QED  BY <2>5 DEF D!DeliveryNext
  <1>4. CASE Enqueue /\ fate' = fate
    BY <1>4 DEF Enqueue
  <1>5. CASE UpdaterStop
    BY <1>5 DEF UpdaterStop
  <1> QED  BY <1>2, <1>3, <1>4, <1>5 DEF UpdaterNext, D!DeliveryNext

\* A Push refuses the message that is pushed, or overwrites another in the
\* queue: both have been tried.
LEMMA PushLoses ==
  ASSUME PlaceInv, TriedInv, HandlerTypeOK', attempts' = attempts,
         NEW m \in Message, m \in InHand, Waiting(m),
         fate' \in {FateAfterPut(m), [fate EXCEPT ![m] = "refused"]}
  PROVE  D!DeliveryNext
  <1>1. HandlerTypeOK
    BY DEF PlaceInv, TypeInv
  <1>2. fate[m] = "live" /\ attempts[m] > 0
    BY InHandFacts DEF PlaceInv, TriedInv
  <1>3. ASSUME NEW x \in Message, fate'[x] # fate[x]
        PROVE  Loses(x)
    <2>1. CASE fate' = [fate EXCEPT ![m] = "refused"]
      BY <1>1, <1>2, <1>3, <2>1 DEF HandlerTypeOK, Loses, D!Loss, D!MayLose
    <2>2. CASE fate' = FateAfterPut(m)
      <3>1. x \in Orphan /\ fate'[x] = "overwritten"
        BY <1>3, <2>2 DEF FateAfterPut
      <3>2. Waiting(x) /\ Held(x)
        BY <3>1, OrphanStored DEF Waiting, Held
      <3>3. fate[x] = "live" /\ attempts[x] > 0
        BY <3>2 DEF PlaceInv, OnePlace, TriedInv
      <3> QED  BY <3>1, <3>3 DEF Loses, D!Loss, D!MayLose
    <2> QED  BY <2>1, <2>2
  <1> QED  BY <1>1, <1>3, LoseStep DEF D!DeliveryNext

\* The worker finishes a message, fails its first try, or pushes it.
LEMMA WorkerDelivers ==
  ASSUME PlaceInv, AttemptsInv, TriedInv, HandlerTypeOK', WorkerNext
  PROVE  [D!DeliveryNext]_<<fate, attempts>>
  <1>1. HandlerTypeOK
    BY DEF PlaceInv, TypeInv
  <1>2. worker.at \in {"send", "push"} =>
           worker.msg \in Message /\ worker.msg \in InHand /\ fate[worker.msg] = "live"
    BY <1>1, BusyHold, InHandFacts DEF InHand, PlaceInv
  <1>3. CASE WorkerReceive \/ WorkerStop
    BY <1>3 DEF WorkerReceive, WorkerStop
  <1>4. CASE WorkerSent
    BY <1>2, <1>4 DEF WorkerSent, D!Finish, D!DeliveryNext
  <1>5. CASE WorkerFailed
    <2>1. attempts[worker.msg] = 0
      BY <1>2, <1>5 DEF WorkerFailed, AttemptsInv, Untried
    <2> QED  BY <1>2, <1>5, <2>1 DEF WorkerFailed, D!FailTry, D!DeliveryNext
  <1>6. CASE WorkerPush
    <2>1. Waiting(worker.msg) /\ attempts' = attempts
          /\ fate' \in {FateAfterPut(worker.msg), [fate EXCEPT ![worker.msg] = "refused"]}
      BY <1>6 DEF WorkerPush, Waiting
    <2> QED  BY <1>2, <1>6, <2>1, PushLoses DEF WorkerPush
  <1> QED  BY <1>3, <1>4, <1>5, <1>6 DEF WorkerNext

\* The retry goroutine finishes a message, fails a try below the limit, gives
\* up one that has reached it, or pushes it back.
LEMMA RetryDelivers ==
  ASSUME PlaceInv, AttemptsInv, TriedInv, HandlerTypeOK', RetryNext
  PROVE  [D!DeliveryNext]_<<fate, attempts>>
  <1>1. HandlerTypeOK
    BY DEF PlaceInv, TypeInv
  <1>2. retry.at \in {"send", "push"} =>
           retry.msg \in Message /\ retry.msg \in InHand /\ fate[retry.msg] = "live"
    BY <1>1, BusyHold, InHandFacts DEF InHand, PlaceInv
  <1>3. CASE RetryTick \/ RetrySize \/ RetrySizeError \/ RetryPopError \/ RetryStop
    BY <1>3 DEF RetryTick, RetrySize, RetrySizeError, RetryPopError, RetryStop
  <1>4. ASSUME NEW m \in Message, RetryPop(m)
        PROVE  [D!DeliveryNext]_<<fate, attempts>>
    <2>1. m \in Range(db) \cup Range(mem) /\ attempts' = attempts
      BY <1>4, PopEffect DEF RetryPop, PlaceInv
    <2>2. fate[m] = "live" /\ attempts[m] > 0
      BY <2>1 DEF PlaceInv, OnePlace, Held, TriedInv, Waiting
    <2>3. CASE Exhausted(m)
      BY <1>4, <2>2, <2>3 DEF RetryPop, Exhausted, D!GiveUp, D!DeliveryNext
    <2>4. CASE ~ Exhausted(m)
      BY <1>4, <2>4 DEF RetryPop
    <2> QED  BY <2>3, <2>4
  <1>5. CASE RetrySent
    BY <1>2, <1>5 DEF RetrySent, D!Finish, D!DeliveryNext
  <1>6. CASE RetryFailed
    BY <1>2, <1>6 DEF RetryFailed, AttemptsInv, D!FailTry, D!DeliveryNext
  <1>7. CASE RetryPush
    <2>1. Waiting(retry.msg) /\ attempts' = attempts
          /\ fate' \in {FateAfterPut(retry.msg), [fate EXCEPT ![retry.msg] = "refused"]}
      BY <1>7 DEF RetryPush, Waiting
    <2> QED  BY <1>2, <1>7, <2>1, PushLoses DEF RetryPush
  <1> QED  BY <1>3, <1>4, <1>5, <1>6, <1>7 DEF RetryNext

\* The end of the process kills what is not on disk, and overwrites an orphan.
LEMMA EndDelivers ==
  ASSUME PlaceInv, TriedInv, HandlerTypeOK', Vanish
  PROVE  D!DeliveryNext
  <1>1. HandlerTypeOK /\ attempts' = attempts
    BY DEF PlaceInv, TypeInv, Vanish
  <1>2. ASSUME NEW x \in Message, fate'[x] # fate[x]
        PROVE  Loses(x)
    <2>1. /\ fate[x] = "live"
          /\ fate'[x] = IF x \in Orphan THEN "overwritten" ELSE "killed"
      BY <1>2 DEF Vanish
    <2>2. x \in Orphan => attempts[x] > 0
      BY OrphanStored DEF TriedInv, Waiting
    <2> QED  BY <2>1, <2>2 DEF Loses, D!Loss, D!MayLose
  <1> QED  BY <1>1, <1>2, LoseStep DEF D!DeliveryNext

\* The handler, with its goroutines, its queue, Stop, crashes and restarts,
\* keeps the promise of Delivery: it implements it, step by step.
THEOREM HandlerImplementsDelivery == Spec => ImplementsDelivery
  <1> DEFINE Inv == PlaceInv /\ AttemptsInv /\ TriedInv
  <1>1. Init => D!DeliveryInit
    BY DEF Init, HandlerInit, D!DeliveryInit
  <1>2. Init => Inv
    BY PlaceInvInductive, AttemptsInvInductive, TriedInvInductive
  <1>3. Inv /\ [Next]_vars => Inv'
    BY PlaceInvInductive, AttemptsInvInductive, TriedInvInductive
  <1>4. Inv /\ Inv' /\ [Next]_vars => [D!DeliveryNext]_<<fate, attempts>>
    <2> SUFFICES ASSUME Inv, Inv', [Next]_vars
                 PROVE  [D!DeliveryNext]_<<fate, attempts>>
      OBVIOUS
    <2>1. HandlerTypeOK'
      BY DEF PlaceInv, TypeInv
    <2>2. CASE StartProcess \/ Stop \/ StopQueue \/ CloseStorage \/ UNCHANGED vars
      BY <2>2 DEF StartProcess, Stop, StopQueue, CloseStorage, vars, handlerVars
    <2> QED
      BY <2>1, <2>2, UpdaterDelivers, WorkerDelivers, RetryDelivers, EndDelivers
         DEF Next, MainNext, Exit, Crash
  <1> QED
    BY <1>1, <1>2, <1>3, <1>4, PTL DEF Spec, ImplementsDelivery, D!DeliverySpec

-----------------------------------------------------------------------------
(* The memory queue: a pass takes a message at most once *)

\* The first n messages of the memory queue have not been taken in this pass.
FreshAhead(n) == n <= Len(mem) /\ \A i \in 1 .. n : mem[i] \notin popped

\* What is left of a pass is ahead in the slice, and new to the pass: what is
\* pushed meanwhile goes behind it.
PassInv ==
  /\ phase = "down" => retry.at = "idle"
  /\ retry.at \in {"pop", "send", "push"} => retry.left > 0
  /\ backend = "memory" =>
        /\ retry.at = "pop" => FreshAhead(retry.left)
        /\ retry.at \in {"send", "push"} => FreshAhead(retry.left - 1)

\* A Push to memory leaves the messages ahead where they are.
LEMMA PushBehind ==
  ASSUME QueueTypeOK, NEW m \in Message, PushOk(m) \/ PushTorn(m),
         popped' = popped, NEW n \in Int, backend = "memory" => FreshAhead(n)
  PROVE  backend' = backend /\ (backend = "memory" => FreshAhead(n)')
  <1>1. backend' = backend
    BY DEF PushOk, PushTorn
  <1>2. CASE backend = "memory"
    <2>1. mem' = Append(mem, m) /\ mem \in Seq(Message)
      BY <1>2 DEF PushOk, PushTorn, PushToLevelDB, PushToMemory, QueueTypeOK
    <2>2. Len(mem) \in Nat /\ Len(mem') = Len(mem) + 1
          /\ \A i \in 1 .. Len(mem) : mem'[i] = mem[i]
      BY <2>1
    <2> QED  BY <1>1, <1>2, <2>2 DEF FreshAhead
  <1> QED  BY <1>1, <1>2

\* The updater and the worker keep what the pass has ahead.
LEMMA OthersKeepPass ==
  ASSUME TypeInv, PassInv, UpdaterNext \/ WorkerNext
  PROVE  PassInv'
  <1>1. QueueTypeOK /\ HandlerTypeOK
    BY DEF TypeInv, QueueInv
  <1>2. UNCHANGED <<phase, retry, popped>>
    BY DEF UpdaterNext, Receive, Enqueue, UpdaterStop, WorkerNext, WorkerReceive,
       WorkerSent, WorkerFailed, WorkerPush, WorkerStop
  <1>3. CASE UNCHANGED queueVars
    BY <1>2, <1>3 DEF PassInv, FreshAhead, queueVars
  <1>4. CASE WorkerPush /\ ~ UNCHANGED queueVars
    <2>1. worker.msg \in Message /\ (PushOk(worker.msg) \/ PushTorn(worker.msg))
      BY <1>1, <1>4, BusyHold DEF WorkerPush, PushRefused
    <2>2. retry.left \in Int /\ retry.left - 1 \in Int
      BY <1>1, BusyHold
    <2>3. backend' = backend
      BY <2>1 DEF PushOk, PushTorn
    <2>4. ASSUME backend = "memory", retry.at = "pop"
          PROVE  FreshAhead(retry.left)'
      BY <1>1, <1>2, <2>1, <2>2, <2>4, PushBehind DEF PassInv
    <2>5. ASSUME backend = "memory", retry.at \in {"send", "push"}
          PROVE  FreshAhead(retry.left - 1)'
      BY <1>1, <1>2, <2>1, <2>2, <2>5, PushBehind DEF PassInv
    <2> QED  BY <1>2, <2>3, <2>4, <2>5 DEF PassInv
  <1> QED
    BY <1>3, <1>4 DEF UpdaterNext, Receive, Enqueue, UpdaterStop, WorkerNext,
       WorkerReceive, WorkerSent, WorkerFailed, WorkerStop

\* After an iteration one message less is left of the pass.
LEMMA IterationKeeps ==
  ASSUME HandlerTypeOK, phase' = phase, phase # "down", retry' = NextIteration,
         NEW n \in Int, n = retry.left - 1,
         backend' = "memory" => FreshAhead(n)'
  PROVE  PassInv'
  <1>1. CASE retry.left <= 1
    BY <1>1 DEF NextIteration, RetryIdle, PassInv
  <1>2. CASE ~ (retry.left <= 1)
    <2>1. retry.left \in Nat /\ retry' = [at |-> "pop", msg |-> NoMsg, left |-> retry.left - 1]
      BY <1>2, BusyHold DEF NextIteration
    <2>2. retry'.at = "pop" /\ retry'.left = n /\ n > 0
      BY <1>2, <2>1
    <2> QED  BY <2>2 DEF PassInv, FreshAhead
  <1> QED  BY <1>1, <1>2

\* A Pop from memory takes the first message, which the pass has not taken, and
\* leaves the others ahead.
LEMMA PopAhead ==
  ASSUME PlaceInv, PassInv, retry.at = "pop", backend = "memory",
         NEW m \in Message, Pop(m), popped' = popped \cup {m},
         NEW n \in Int, n = retry.left - 1
  PROVE  m \notin popped /\ FreshAhead(n)'
  <1>1. n >= 0 /\ FreshAhead(n + 1) /\ mem \in Seq(Message) /\ IsInjective(mem)
    BY BusyHold DEF PassInv, PlaceInv, TypeInv, QueueInv, QueueTypeOK, OnePlace
  <1>2. mem # << >> /\ m = mem[1] /\ mem' = Tail(mem)
    BY <1>1 DEF Pop, PopFromLevelDB, PopFromMemory
  <1>3. /\ Len(mem) \in Nat \ {0} /\ Len(mem') = Len(mem) - 1
        /\ DOMAIN mem = 1 .. Len(mem)
        /\ \A i \in 1 .. Len(mem) - 1 : mem'[i] = mem[i + 1]
    BY <1>1, <1>2
  <1>4. m \notin popped
    BY <1>1, <1>2, <1>3 DEF FreshAhead
  <1>5. ASSUME NEW i \in 1 .. n
        PROVE  mem'[i] \notin popped'
    <2>1. i + 1 \in 1 .. n + 1 /\ i + 1 # 1 /\ i \in 1 .. Len(mem) - 1
      BY <1>1, <1>3 DEF FreshAhead
    <2>2. mem'[i] = mem[i + 1] /\ mem[i + 1] \notin popped /\ mem[i + 1] # mem[1]
      <3>1. i + 1 \in DOMAIN mem /\ 1 \in DOMAIN mem
        BY <1>1, <1>3, <2>1 DEF FreshAhead
      <3> QED  BY <1>1, <1>3, <2>1, <3>1 DEF FreshAhead, IsInjective
    <2> QED  BY <1>2, <2>2
  <1>6. n <= Len(mem')
    BY <1>1, <1>3 DEF FreshAhead
  <1> QED  BY <1>4, <1>5, <1>6 DEF FreshAhead

\* The pass goes on with what it has ahead.
LEMMA RetryKeepsPass ==
  ASSUME PlaceInv, PassInv, RetryNext
  PROVE  PassInv'
  <1>1. QueueTypeOK /\ HandlerTypeOK /\ TypeInv
    BY DEF PlaceInv, TypeInv, QueueInv
  <1>2. phase' = phase /\ phase # "down"
    BY DEF RetryNext, RetryTick, RetrySize, RetrySizeError, RetryPop, RetryPopError,
       RetrySent, RetryFailed, RetryPush, RetryStop, Up, StopSignalled
  <1> PICK n \in Int : n = retry.left - 1
    BY <1>1, BusyHold
  <1>3. CASE RetryTick \/ RetrySizeError \/ RetryPopError \/ RetryStop
    <2>1. retry'.at \in {"idle", "size", "stopped"}
      BY <1>1, <1>3 DEF RetryTick, RetrySizeError, RetryPopError, RetryStop,
         RetryIdle, Stopped, HandlerTypeOK
    <2> QED  BY <1>2, <2>1 DEF PassInv
  <1>4. CASE RetrySize
    <2>1. /\ retry'.at = "pop" /\ retry'.left = QueueSize /\ QueueSize > 0
          /\ popped' = {} /\ backend' = backend /\ mem' = mem
      BY <1>1, <1>4 DEF RetrySize, HandlerTypeOK, queueVars
    <2>2. Len(mem) \in Nat /\ (backend = "memory" => QueueSize = Len(mem))
      BY <1>1 DEF QueueSize, QueueTypeOK
    <2> QED  BY <1>2, <2>1, <2>2 DEF PassInv, FreshAhead
  <1>5. ASSUME NEW m \in Message, RetryPop(m)
        PROVE  PassInv'
    <2>1. /\ retry.at = "pop" /\ Pop(m) /\ popped' = popped \cup {m}
          /\ backend' = backend
      BY <1>5 DEF RetryPop, Pop
    <2>2. backend' = "memory" => FreshAhead(n)'
      BY <2>1, PopAhead
    <2>3. CASE Exhausted(m)
      BY <1>1, <1>2, <1>5, <2>2, <2>3, IterationKeeps DEF RetryPop
    <2>4. CASE ~ Exhausted(m)
      <3>1. retry'.at = "send" /\ retry'.left = retry.left
        BY <1>1, <1>5, <2>4 DEF RetryPop, HandlerTypeOK
      <3>2. retry'.left - 1 = n /\ retry'.left > 0
        BY <2>1, <3>1 DEF PassInv
      <3> QED  BY <1>2, <2>2, <3>1, <3>2 DEF PassInv, FreshAhead
    <2> QED  BY <2>3, <2>4
  <1>6. CASE RetryFailed
    <2>1. /\ retry'.at = "push" /\ retry'.left = retry.left /\ retry.at = "send"
          /\ UNCHANGED <<mem, backend, popped>>
      BY <1>1, <1>6 DEF RetryFailed, HandlerTypeOK, queueVars
    <2> QED  BY <1>2, <2>1 DEF PassInv, FreshAhead
  <1>7. CASE RetrySent
    <2>1. backend' = "memory" => FreshAhead(n)'
      BY <1>7 DEF RetrySent, PassInv, FreshAhead, queueVars
    <2> QED  BY <1>1, <1>2, <1>7, <2>1, IterationKeeps DEF RetrySent
  <1>8. CASE RetryPush
    <2>1. backend = "memory" => FreshAhead(n)
      BY <1>8 DEF RetryPush, PassInv
    <2>2. backend' = "memory" => FreshAhead(n)'
      <3>1. CASE PushRefused
        BY <1>8, <2>1, <3>1 DEF RetryPush, PushRefused, FreshAhead, queueVars
      <3>2. CASE PushOk(retry.msg) \/ PushTorn(retry.msg)
        <4>1. retry.msg \in Message /\ popped' = popped
          BY <1>1, <1>8, BusyHold DEF RetryPush
        <4> QED  BY <1>1, <2>1, <3>2, <4>1, PushBehind
      <3> QED  BY <1>8, <3>1, <3>2 DEF RetryPush
    <2> QED  BY <1>1, <1>2, <1>8, <2>2, IterationKeeps DEF RetryPush
  <1> QED  BY <1>3, <1>4, <1>5, <1>6, <1>7, <1>8 DEF RetryNext

\* The process starts and ends without a pass, and Stop changes no contents.
LEMMA MainKeepsPass ==
  ASSUME PassInv, MainNext \/ Crash \/ UNCHANGED vars
  PROVE  PassInv'
  <1>1. CASE StartProcess
    BY <1>1 DEF StartProcess, PassInv
  <1>2. CASE Stop \/ StopQueue \/ CloseStorage \/ UNCHANGED vars
    <2>1. UNCHANGED <<retry, popped, mem, backend>> /\ (phase' = "down" => phase = "down")
      BY <1>2 DEF Stop, StopQueue, CloseStorage, Close, vars, handlerVars, queueVars
    <2> QED  BY <2>1 DEF PassInv, FreshAhead
  <1>3. CASE Vanish
    BY <1>3 DEF Vanish, RetryIdle, PassInv
  <1> QED  BY <1>1, <1>2, <1>3 DEF MainNext, Exit, Crash

\* With the memory queue a message that fails again waits for another tick,
\* whatever the worker pushes during the pass.
THEOREM MemoryOncePerPass == Spec => OncePerPassInMemory
  <1>1. Init => PassInv
    BY DEF Init, HandlerInit, RetryIdle, PassInv
  <1>2. PlaceInv /\ PassInv /\ [Next]_vars => PassInv'
    BY OthersKeepPass, RetryKeepsPass, MainKeepsPass DEF Next, PlaceInv
  <1>3. PlaceInv /\ PassInv /\ [Next]_vars
           => [backend = "memory" => ~ TakenAgain]_vars
    <2> SUFFICES ASSUME PlaceInv, PassInv, Next, backend = "memory", TakenAgain
                 PROVE  FALSE
      OBVIOUS
    <2>1. HandlerTypeOK /\ retry.at = "pop" /\ retry'.at = "send" /\ retry'.msg \in popped
      BY DEF PlaceInv, TypeInv, TakenAgain
    <2>2. PICK m \in Message : RetryPop(m)
      BY <2>1 DEF Next, UpdaterNext, Receive, Enqueue, UpdaterStop, WorkerNext,
         WorkerReceive, WorkerSent, WorkerFailed, WorkerPush, WorkerStop, RetryNext,
         RetryTick, RetrySize, RetrySizeError, RetryPopError, RetrySent,
         RetryFailed, RetryPush, RetryStop, Stopped, RetryIdle, MainNext,
         StartProcess, Stop, StopQueue, CloseStorage, Exit, Crash, Vanish
    <2>3. retry'.msg = m
      <3>1. NextIteration.at # "send"
        BY DEF NextIteration, RetryIdle
      <3>2. ~ Exhausted(m)
        BY <2>1, <2>2, <3>1 DEF RetryPop
      <3> QED  BY <2>1, <2>2, <3>2 DEF RetryPop, HandlerTypeOK
    <2>4. m \notin popped
      <3> PICK n \in Int : n = retry.left - 1
        BY <2>1, BusyHold
      <3> QED  BY <2>1, <2>2, PopAhead DEF RetryPop
    <2> QED  BY <2>1, <2>3, <2>4
  <1> QED
    BY <1>1, <1>2, <1>3, PlaceInvInductive, PTL DEF Spec, OncePerPassInMemory

=============================================================================
