------------------------ MODULE LevelDBQueueProofs ------------------------
(***************************************************************************)
(* Proofs about the LevelDB queue at the granularity of its reads and      *)
(* writes: its types, that what an operation has read is true when it      *)
(* writes, that the mutex always comes back, and that the operations       *)
(* implement those of Queue, for any number of goroutines, messages and    *)
(* indexes.                                                                *)
(***************************************************************************)
EXTENDS LevelDBQueue, KeyOrderProofs, TLAPS

\* What a goroutine at a statement knows beyond ReadsStayTrue.
OperationInv ==
  \A c \in Caller :
    /\ pc[c] # "idle" => qstate \in {"open", "closed"}
    /\ pc[c] \in {"push", "store", "count", "delete"} => msg[c] \in Message
    /\ pc[c] \in {"store", "count"} => index # NoIndex /\ index < MaxIndex
    /\ pc[c] = "delete" => IsFirst(db, key[c])

\* The database while nobody writes, and the queue while somebody has locked it.
DatabaseInv ==
  /\ index = NoIndex => FirstIndex = 0
  /\ mutex # NoCaller => qstate = "open"
  /\ (\A c \in Caller : pc[c] # "count") => settled = db

LevelDBInv == TypeOK /\ ReadsStayTrue /\ OperationInv /\ DatabaseInv

\* A store with a message more, and with one less.
LEMMA StoreFacts ==
  ASSUME NEW store, store \in [DOMAIN store -> Message],
         DOMAIN store \subseteq 0 .. MaxIndex,
         NEW k \in 0 .. MaxIndex
  PROVE  /\ \A m \in Message :
              /\ Put(store, k, m) \in [DOMAIN Put(store, k, m) -> Message]
              /\ DOMAIN Put(store, k, m) \subseteq 0 .. MaxIndex
         /\ Delete(store, k) \in [DOMAIN Delete(store, k) -> Message]
         /\ DOMAIN Delete(store, k) \subseteq 0 .. MaxIndex
  BY DEF Put, Delete

\* A new directory, or the state an earlier process left.
LEMMA InitQueue == Init => LevelDBInv
  <1> SUFFICES ASSUME Init  PROVE LevelDBInv
    OBVIOUS
  <1>1. DOMAIN db = {} /\ db \in [DOMAIN db -> Message]
    BY DEF Init
  <1>2. TypeOK
    BY <1>1, LevelDBAssumption DEF Init, TypeOK
  <1>3. \A c \in Caller : pc[c] = "idle"
    BY DEF Init
  <1>4. DatabaseInv
    BY LevelDBAssumption DEF Init, DatabaseInv
  <1> QED  BY <1>2, <1>3, <1>4 DEF LevelDBInv, ReadsStayTrue, OperationInv

\* Opening the database and calling an operation touch nothing a goroutine has
\* read.
LEMMA OpenAndCall ==
  ASSUME LevelDBInv,
         \/ OpenFile \/ InitIndex \/ InitIndexUnread \/ InitIndexError
         \/ \E c \in Caller :
               (\E m \in Message : CallPush(c, m)) \/ CallPop(c) \/ CallClose(c)
  PROVE  LevelDBInv'
  <1> USE DEF LevelDBInv
  <1>1. CASE OpenFile \/ InitIndex \/ InitIndexUnread \/ InitIndexError
    <2>1. \A c \in Caller : pc[c] = "idle"
      BY <1>1 DEF OpenFile, InitIndex, InitIndexUnread, InitIndexError,
         OperationInv
    <2>2. UNCHANGED <<db, mutex, pc, msg, key, acked, settled>>
      BY <1>1 DEF OpenFile, InitIndex, InitIndexUnread, InitIndexError
    <2>3. index' = index \/ (index = NoIndex /\ index' = 0)
      BY <1>1 DEF OpenFile, InitIndex, InitIndexUnread, InitIndexError
    <2>4. qstate' \in {"down", "opening", "open"}
      BY <1>1 DEF OpenFile, InitIndex, InitIndexUnread, InitIndexError
    <2>5. mutex = NoCaller
      <3>1. qstate # "open"
        BY <1>1 DEF OpenFile, InitIndex, InitIndexUnread, InitIndexError
      <3> QED  BY <3>1 DEF DatabaseInv
    <2>6. TypeOK'
      BY <2>2, <2>3, <2>4, LevelDBAssumption DEF TypeOK, DatabaseInv
    <2>7. DatabaseInv'
      BY <2>2, <2>3, <2>5, LevelDBAssumption DEF DatabaseInv
    <2> QED  BY <2>1, <2>2, <2>6, <2>7 DEF ReadsStayTrue, OperationInv
  <1>2. ASSUME NEW c \in Caller, NEW m \in Message \cup {msg[c]},
               NEW at \in {"push", "pop", "close"}, at = "push" => m \in Message,
               pc[c] = "idle", qstate \in {"open", "closed"},
               pc' = [pc EXCEPT ![c] = at], msg' = [msg EXCEPT ![c] = m],
               UNCHANGED <<db, index, qstate, mutex, key, acked, settled>>
        PROVE  LevelDBInv'
    <2>1. TypeOK'
      BY <1>2 DEF TypeOK
    <2>2. \A d \in Caller : d # c => pc'[d] = pc[d] /\ msg'[d] = msg[d]
      BY <1>2 DEF TypeOK
    <2>3. pc'[c] = at /\ msg'[c] = m
      BY <1>2 DEF TypeOK
    <2>4. ReadsStayTrue'
      BY <1>2, <2>2, <2>3 DEF ReadsStayTrue
    <2>5. OperationInv'
      BY <1>2, <2>2, <2>3 DEF OperationInv
    <2>6. DatabaseInv'
      BY <1>2, <2>2, <2>3 DEF DatabaseInv
    <2> QED  BY <2>1, <2>4, <2>5, <2>6
  <1>3. ASSUME NEW c \in Caller, NEW m \in Message, CallPush(c, m)
        PROVE  LevelDBInv'
    BY <1>2, <1>3 DEF CallPush
  <1>4. ASSUME NEW c \in Caller, CallPop(c) \/ CallClose(c)
        PROVE  LevelDBInv'
    <2>1. msg' = [msg EXCEPT ![c] = msg[c]]
      BY <1>4 DEF CallPop, CallClose, TypeOK
    <2> QED  BY <1>2, <1>4, <2>1 DEF CallPop, CallClose
  <1> QED  BY <1>1, <1>3, <1>4

\* Where a goroutine is while it holds the mutex.
Inside == {"store", "count", "delete"}

\* While a goroutine is inside an operation, or the mutex is free, no other is.
LEMMA Alone ==
  ASSUME LevelDBInv, NEW c \in Caller, pc[c] \in Inside \/ mutex = NoCaller
  PROVE  /\ \A d \in Caller \ {c} : pc[d] \notin Inside
         /\ pc[c] \in Inside => mutex = c
         /\ mutex = NoCaller => pc[c] \notin Inside
         /\ pc[c] # "count" => settled = db
  BY LevelDBAssumption DEF LevelDBInv, ReadsStayTrue, DatabaseInv, Inside

\* The return from an operation, whatever it has done to the database.
LEMMA ReturnKeepsInv ==
  ASSUME LevelDBInv, NEW c \in Caller, Return(c),
         pc[c] \in Inside \/ mutex = NoCaller,
         db' \in [DOMAIN db' -> Message], DOMAIN db' \subseteq 0 .. MaxIndex,
         index' = index \/ index' \in FirstIndex .. MaxIndex,
         qstate' \in {qstate, "closed"}, pc[c] # "idle",
         key' = key, acked' \subseteq Message, settled' = db'
  PROVE  LevelDBInv'
  <1>1. \A d \in Caller \ {c} : pc'[d] = pc[d] /\ msg'[d] = msg[d] /\ pc[d] \notin Inside
    BY Alone DEF Return, LevelDBInv, TypeOK
  <1>2. pc'[c] = "idle" /\ mutex' = NoCaller
    BY DEF Return, LevelDBInv, TypeOK
  <1>3. \A d \in Caller : pc'[d] \notin Inside
    BY <1>1, <1>2 DEF Inside
  <1>4. TypeOK'
    BY DEF LevelDBInv, TypeOK, Return
  <1>5. ReadsStayTrue'
    BY <1>3 DEF ReadsStayTrue, Inside
  <1>6. OperationInv'
    <2>1. ASSUME NEW d \in Caller, pc'[d] # "idle"
          PROVE  /\ qstate' \in {"open", "closed"}
                 /\ pc'[d] = "push" => msg'[d] \in Message
      BY <1>1, <1>2, <2>1 DEF LevelDBInv, OperationInv
    <2> QED  BY <1>3, <2>1 DEF OperationInv, Inside
  <1>7. DatabaseInv'
    <2>1. index' = NoIndex => FirstIndex = 0
      BY LevelDBAssumption DEF LevelDBInv, DatabaseInv
    <2> QED  BY <1>2, <2>1 DEF DatabaseInv
  <1> QED  BY <1>4, <1>5, <1>6, <1>7 DEF LevelDBInv

\* Steps that return without a write.
LEMMA ReturnUnwritten ==
  ASSUME LevelDBInv, NEW c \in Caller,
         \/ EnterError(c) \/ PushStoreError(c) \/ PopEmpty(c) \/ PopDeleteError(c)
         \/ CloseDB(c)
  PROVE  LevelDBInv'
  <1>1. /\ Return(c) /\ UNCHANGED <<db, index, key, acked, settled>>
        /\ qstate' \in {qstate, "closed"}
        /\ pc[c] \in Inside \/ mutex = NoCaller
        /\ pc[c] # "count" /\ pc[c] # "idle"
    BY DEF EnterError, PushStoreError, PopEmpty, PopDeleteError, CloseDB, Inside
  <1>2. settled' = db'
    BY <1>1, Alone
  <1> QED  BY <1>1, <1>2, ReturnKeepsInv DEF LevelDBInv, TypeOK

\* Steps that return after the last write of the operation.
LEMMA ReturnWritten ==
  ASSUME LevelDBInv, NEW c \in Caller,
         PushCount(c) \/ PushCountError(c) \/ PopDelete(c)
  PROVE  LevelDBInv'
  <1>1. TypeOK /\ pc[c] \in Inside /\ pc[c] # "idle"
    BY DEF LevelDBInv, PushCount, PushCountError, PopDelete, Inside
  <1>2. CASE PushCount(c)
    <2>1. /\ key[c] = index /\ index # NoIndex /\ index < MaxIndex
          /\ msg[c] \in Message
      BY <1>2 DEF PushCount, LevelDBInv, ReadsStayTrue, OperationInv
    <2>2. index' \in FirstIndex .. MaxIndex
      BY <1>1, <1>2, <2>1, LevelDBAssumption DEF PushCount, TypeOK
    <2> QED  BY <1>1, <1>2, <2>1, <2>2, ReturnKeepsInv DEF PushCount, TypeOK
  <1>3. CASE PushCountError(c)
    BY <1>1, <1>3, ReturnKeepsInv DEF PushCountError, TypeOK
  <1>4. CASE PopDelete(c)
    <2>1. /\ db' \in [DOMAIN db' -> Message] /\ DOMAIN db' \subseteq 0 .. MaxIndex
          /\ acked' \subseteq Message
      BY <1>1, <1>4, StoreFacts DEF PopDelete, TypeOK
    <2> QED  BY <1>1, <1>4, <2>1, ReturnKeepsInv DEF PopDelete
  <1> QED  BY <1>2, <1>3, <1>4

\* Lock and the reads of a Push or a Pop; the Put of the message.
LEMMA ReadAndStore ==
  ASSUME LevelDBInv, NEW c \in Caller, PushRead(c) \/ PushStore(c) \/ PopRead(c)
  PROVE  LevelDBInv'
  <1>1. TypeOK /\ c # NoCaller
    BY LevelDBAssumption DEF LevelDBInv
  <1>2. /\ \A d \in Caller \ {c} :
             /\ pc'[d] = pc[d] /\ msg'[d] = msg[d] /\ pc[d] \notin Inside
        /\ settled = db /\ UNCHANGED <<index, qstate, acked, settled>>
        /\ mutex' = c /\ qstate = "open"
    <2>1. pc[c] \in Inside \/ mutex = NoCaller
      BY DEF PushRead, PushStore, PopRead, Inside
    <2>2. pc[c] # "count"
      BY DEF PushRead, PushStore, PopRead
    <2>3. \A d \in Caller \ {c} : pc'[d] = pc[d] /\ msg'[d] = msg[d]
      BY <1>1 DEF PushRead, PushStore, PopRead, TypeOK
    <2>4. UNCHANGED <<index, qstate, acked, settled>>
      BY DEF PushRead, PushStore, PopRead
    <2>5. mutex' = c /\ qstate = "open"
      <3>1. CASE PushStore(c)
        <4>1. pc[c] \in Inside /\ mutex' = mutex
          BY <3>1 DEF PushStore, Inside
        <4>2. mutex = c
          BY <4>1, Alone
        <4> QED  BY <1>1, <4>1, <4>2 DEF LevelDBInv, DatabaseInv
      <3>2. CASE PushRead(c) \/ PopRead(c)
        BY <3>2 DEF PushRead, PopRead
      <3> QED  BY <3>1, <3>2
    <2> QED  BY <2>1, <2>2, <2>3, <2>4, <2>5, Alone
  <1>3. ASSUME NEW d \in Caller \ {c}
        PROVE  /\ pc'[d] \notin Inside
               /\ pc'[d] # "idle" => qstate' \in {"open", "closed"}
               /\ pc'[d] = "push" => msg'[d] \in Message
    BY <1>2 DEF LevelDBInv, OperationInv
  <1>4. CASE PushRead(c)
    <2>1. /\ pc'[c] = "store" /\ key'[c] = index /\ index # NoIndex
          /\ index < MaxIndex /\ msg'[c] = msg[c] /\ msg[c] \in Message /\ db' = db
      BY <1>1, <1>4 DEF PushRead, TypeOK, LevelDBInv, OperationInv
    <2>2. TypeOK'
      BY <1>1, <1>4, <2>1, LevelDBAssumption DEF PushRead, TypeOK
    <2>3. ReadsStayTrue'
      BY <1>2, <1>3, <2>1 DEF ReadsStayTrue, Inside
    <2>4. OperationInv'
      BY <1>2, <1>3, <2>1 DEF OperationInv, Inside
    <2>5. DatabaseInv'
      BY <1>2, <2>1 DEF DatabaseInv, LevelDBInv
    <2> QED  BY <2>2, <2>3, <2>4, <2>5 DEF LevelDBInv
  <1>5. CASE PushStore(c)
    <2>1. /\ pc'[c] = "count" /\ key' = key /\ key[c] = index /\ index # NoIndex
          /\ index < MaxIndex /\ msg' = msg /\ msg[c] \in Message
          /\ db' = Put(db, index, msg[c])
      BY <1>1, <1>5 DEF PushStore, TypeOK, LevelDBInv, OperationInv, ReadsStayTrue
    <2>2. TypeOK'
      <3>1. db' \in [DOMAIN db' -> Message] /\ DOMAIN db' \subseteq 0 .. MaxIndex
        BY <1>1, <1>5, <2>1, StoreFacts DEF PushStore, TypeOK
      <3> QED  BY <1>1, <1>5, <3>1 DEF PushStore, TypeOK
    <2>3. ReadsStayTrue'
      BY <1>2, <1>3, <2>1 DEF ReadsStayTrue, Inside
    <2>4. OperationInv'
      BY <1>2, <1>3, <2>1 DEF OperationInv, Inside
    <2>5. DatabaseInv'
      BY <1>2, <2>1 DEF DatabaseInv, LevelDBInv
    <2> QED  BY <2>2, <2>3, <2>4, <2>5 DEF LevelDBInv
  <1>6. CASE PopRead(c)
    <2>1. PICK k \in DOMAIN db :
             /\ IsFirst(db, k)
             /\ key' = [key EXCEPT ![c] = k] /\ msg' = [msg EXCEPT ![c] = db[k]]
      BY <1>6 DEF PopRead
    <2>2. /\ pc'[c] = "delete" /\ key'[c] = k /\ msg'[c] = db[k]
          /\ db[k] \in Message /\ k \in 0 .. MaxIndex /\ db' = db
      BY <1>1, <1>6, <2>1 DEF PopRead, TypeOK
    <2>3. TypeOK'
      BY <1>1, <1>6, <2>1, <2>2 DEF PopRead, TypeOK
    <2>4. ReadsStayTrue'
      BY <1>2, <1>3, <2>2 DEF ReadsStayTrue, Inside
    <2>5. OperationInv'
      BY <1>2, <1>3, <2>1, <2>2 DEF OperationInv, Inside
    <2>6. DatabaseInv'
      BY <1>2, <2>2 DEF DatabaseInv, LevelDBInv
    <2> QED  BY <2>3, <2>4, <2>5, <2>6 DEF LevelDBInv
  <1> QED  BY <1>4, <1>5, <1>6

\* The process ends, possibly inside an operation.
LEMMA CrashKeepsInv ==
  ASSUME LevelDBInv, Crash
  PROVE  LevelDBInv'
  <1>1. \A c \in Caller : pc'[c] = "idle"
    BY DEF Crash
  <1>2. TypeOK'
    BY DEF Crash, LevelDBInv, TypeOK
  <1>3. DatabaseInv'
    BY DEF Crash, LevelDBInv, DatabaseInv
  <1> QED  BY <1>1, <1>2, <1>3 DEF LevelDBInv, ReadsStayTrue, OperationInv

\* Every step keeps the invariant.
LEMMA NextKeepsInv == LevelDBInv /\ [Next]_vars => LevelDBInv'
  <1>1. LevelDBInv /\ UNCHANGED vars => LevelDBInv'
    BY DEF vars, LevelDBInv, TypeOK, ReadsStayTrue, OperationInv, DatabaseInv
  <1> QED
    BY <1>1, OpenAndCall, ReturnUnwritten, ReturnWritten, ReadAndStore, CrashKeepsInv
       DEF Next, Step

\* The invariant holds in every reachable state.
LEMMA LevelDBInvariant == Spec => []LevelDBInv
  BY InitQueue, NextKeepsInv, PTL DEF Spec

\* Type correctness of the LevelDB queue.
THEOREM LevelDBTypes == Spec => []TypeOK
  <1>1. LevelDBInv => TypeOK
    BY DEF LevelDBInv
  <1> QED  BY <1>1, LevelDBInvariant, PTL

\* Under the mutex what a Push or a Pop has read is true when it writes, on
\* every path and for any number of goroutines (leveldb_queue.go:161-239).
THEOREM ReadsAreTrue == Spec => []ReadsStayTrue
  <1>1. LevelDBInv => ReadsStayTrue
    BY DEF LevelDBInv
  <1> QED  BY <1>1, LevelDBInvariant, PTL

-----------------------------------------------------------------------------
(* The mutex comes back *)

\* The holder of the mutex is at a write of its operation.
HolderInside == mutex # NoCaller => mutex \in Caller /\ pc[mutex] \in Inside

\* An operation takes the mutex with its reads and gives it back with its
\* return; an end of the process frees it.
LEMMA NextKeepsHolder ==
  ASSUME LevelDBInv, HolderInside, [Next]_vars
  PROVE  HolderInside'
  <1>1. TypeOK
    BY DEF LevelDBInv
  <1>2. CASE UNCHANGED vars
    BY <1>2 DEF HolderInside, vars
  <1>3. ASSUME UNCHANGED mutex, \A c \in Caller : pc[c] \in Inside => pc'[c] \in Inside
        PROVE  HolderInside'
    BY <1>3 DEF HolderInside
  <1>4. CASE OpenFile \/ InitIndex \/ InitIndexUnread \/ InitIndexError
    BY <1>3, <1>4 DEF OpenFile, InitIndex, InitIndexUnread, InitIndexError
  <1>5. CASE Crash
    BY <1>5 DEF Crash, HolderInside
  <1>6. ASSUME NEW c \in Caller, NEW at, pc[c] = "idle",
               pc' = [pc EXCEPT ![c] = at], UNCHANGED mutex
        PROVE  HolderInside'
    <2>1. pc[c] \notin Inside
      BY <1>6 DEF Inside
    <2>2. \A d \in Caller : d # c => pc'[d] = pc[d]
      BY <1>1, <1>6 DEF TypeOK
    <2> QED  BY <1>3, <1>6, <2>1, <2>2
  <1>7. ASSUME NEW c \in Caller,
               (\E m \in Message : CallPush(c, m)) \/ CallPop(c) \/ CallClose(c)
        PROVE  HolderInside'
    BY <1>6, <1>7 DEF CallPush, CallPop, CallClose
  <1>8. ASSUME NEW c \in Caller, Return(c)
        PROVE  HolderInside'
    BY <1>8 DEF Return, HolderInside
  <1>9. ASSUME NEW c \in Caller, PushRead(c) \/ PopRead(c)
        PROVE  HolderInside'
    <2>1. mutex' = c /\ pc'[c] \in Inside
      BY <1>1, <1>9 DEF PushRead, PopRead, TypeOK, Inside
    <2> QED  BY <2>1 DEF HolderInside
  <1>10. ASSUME NEW c \in Caller, PushStore(c)
         PROVE  HolderInside'
    <2>1. UNCHANGED mutex /\ pc'[c] \in Inside
      BY <1>1, <1>10 DEF PushStore, TypeOK, Inside
    <2>2. \A d \in Caller : d # c => pc'[d] = pc[d]
      BY <1>1, <1>10 DEF PushStore, TypeOK
    <2> QED  BY <1>3, <2>1, <2>2
  <1>11. ASSUME NEW c \in Caller, Step(c)
         PROVE  HolderInside'
    BY <1>8, <1>9, <1>10, <1>11
       DEF Step, EnterError, PushStoreError, PushCount, PushCountError, PopEmpty,
           PopDelete, PopDeleteError, CloseDB
  <1> QED
    BY <1>2, <1>4, <1>5, <1>7, <1>11 DEF Next

\* No operation waits for a mutex that nobody gives back, and none stops on the
\* contents of the database: the first key that Pop looks for exists whenever
\* there is any (OneFirstKey), for any number of goroutines and messages, while
\* the index is an int64.
THEOREM MutexComesBack ==
  ASSUME MaxIndex < PowerOfTen[19]
  PROVE  Spec => []NobodyIsStuck
  <1>1. Init => HolderInside
    BY DEF Init, HolderInside
  <1>2. LevelDBInv /\ HolderInside /\ [Next]_vars => HolderInside'
    BY NextKeepsHolder
  <1>3. LevelDBInv /\ HolderInside => NobodyIsStuck
    <2> SUFFICES ASSUME LevelDBInv, HolderInside,
                        NEW c \in Caller, pc[c] # "idle", index # MaxIndex
                 PROVE  IF mutex = NoCaller THEN MayEnter(c)
                        ELSE pc[mutex] \in {"store", "count", "delete"}
      BY DEF NobodyIsStuck
    <2>1. CASE mutex # NoCaller
      BY <2>1 DEF HolderInside, Inside
    <2>2. CASE mutex = NoCaller
      <3>1. pc[c] \in {"push", "pop", "close"}
        <4>1. pc[c] \notin Inside
          BY <2>2, Alone
        <4> QED  BY <4>1 DEF LevelDBInv, TypeOK, Inside
      <3>2. index = NoIndex \/ index < MaxIndex
        BY LevelDBAssumption DEF LevelDBInv, TypeOK
      <3>3. DOMAIN db # {} => \E k \in DOMAIN db : IsFirst(db, k)
        <4>1. MaxIndex \in Nat /\ PowerOfTen[19] \in Nat
          BY LevelDBAssumption, PowerFacts
        <4>2. DOMAIN db \subseteq 0 .. MaxIndex
          BY DEF LevelDBInv, TypeOK
        <4>3. DOMAIN db \subseteq Printable
          BY <4>1, <4>2 DEF Printable
        <4> QED  BY <4>3, OneFirstKey
      <3> QED  BY <2>2, <3>1, <3>2, <3>3 DEF MayEnter
    <2> QED  BY <2>1, <2>2
  <1> QED  BY <1>1, <1>2, <1>3, LevelDBInvariant, PTL DEF Spec

-----------------------------------------------------------------------------
(* The reads and writes implement Queue *)

\* What Queue sees as its index and its state.
indexSeen == IF index = NoIndex THEN FirstIndex ELSE index
qstateSeen == IF qstate = "opening" THEN "down" ELSE qstate
seen == <<"leveldb", settled, indexSeen, << >>, qstateSeen, acked>>

\* Queue keeps the same store in the same order.
LEMMA SameStore ==
  /\ \A store, k : Q!IsFirst(store, k) <=> IsFirst(store, k)
  /\ \A store, k, m : Q!Put(store, k, m) = Put(store, k, m)
  /\ \A store, k : Q!Delete(store, k) = Delete(store, k)
  <1>1. Q!PowerOfTen = PowerOfTen
    BY DEF Q!PowerOfTen, PowerOfTen
  <1>2. \A k : Q!NumDigits(k) = NumDigits(k)
    BY <1>1 DEF Q!NumDigits, NumDigits
  <1>3. \A j, k : Q!KeyLess(j, k) <=> KeyLess(j, k)
    BY <1>1, <1>2 DEF Q!KeyLess, KeyLess, Q!Leading, Leading
  <1>4. \A store, k : Q!IsFirst(store, k) <=> IsFirst(store, k)
    BY <1>3 DEF Q!IsFirst, IsFirst
  <1> QED  BY <1>4 DEF Q!Put, Put, Q!Delete, Delete

\* The last write of a Push or a Pop is where it takes effect.
LEMMA WriteIsOperation ==
  ASSUME LevelDBInv, NEW c \in Caller,
         PushCount(c) \/ PushCountError(c) \/ PopDelete(c)
  PROVE  Q!QueueNext
  <1>1. TypeOK /\ mutex = c /\ qstate = "open" /\ qstate' = qstate
        /\ msg[c] \in Message
    <2>1. pc[c] \in Inside /\ qstate' = qstate
      BY DEF PushCount, PushCountError, PopDelete, Inside
    <2>2. mutex = c /\ c # NoCaller
      BY <2>1, Alone, LevelDBAssumption
    <2> QED  BY <2>1, <2>2 DEF LevelDBInv, DatabaseInv, OperationInv, Inside
  <1>2. CASE PushCount(c)
    <2>1. /\ key[c] = index /\ index # NoIndex /\ index < MaxIndex
          /\ db = Put(settled, index, msg[c])
      BY <1>2 DEF PushCount, LevelDBInv, ReadsStayTrue, OperationInv
    <2>2. index' = index + 1 /\ index' # NoIndex
      BY <1>1, <1>2, <2>1, LevelDBAssumption DEF PushCount, TypeOK
    <2>3. settled' = Q!Put(settled, index, msg[c]) /\ acked' = acked \cup {msg[c]}
      BY <1>2, <2>1, SameStore DEF PushCount
    <2>4. Q!PushOk(msg[c])
      BY <1>1, <2>1, <2>2, <2>3 DEF Q!PushOk, Q!PushToLevelDB
    <2> QED  BY <1>1, <2>4 DEF Q!QueueNext
  <1>3. CASE PushCountError(c)
    <2>1. /\ index # NoIndex /\ index < MaxIndex
          /\ db = Put(settled, index, msg[c])
      BY <1>3 DEF PushCountError, LevelDBInv, ReadsStayTrue, OperationInv
    <2>2. /\ settled' = Q!Put(settled, index, msg[c])
          /\ UNCHANGED <<index, acked>> /\ DiskFaults
      BY <1>3, <2>1, SameStore DEF PushCountError
    <2>3. Q!PushTorn(msg[c])
      BY <1>1, <2>1, <2>2 DEF Q!PushTorn
    <2> QED  BY <1>1, <2>3 DEF Q!QueueNext
  <1>4. CASE PopDelete(c)
    <2>1. settled = db /\ settled' = Delete(db, key[c]) /\ index' = index
          /\ acked' = acked \ {msg[c]}
      BY <1>4, Alone DEF PopDelete, Inside
    <2>2. key[c] \in DOMAIN db /\ db[key[c]] = msg[c] /\ IsFirst(db, key[c])
      BY <1>4 DEF PopDelete, LevelDBInv, ReadsStayTrue, OperationInv
    <2>3. /\ Q!IsFirst(settled, key[c]) /\ key[c] \in DOMAIN settled
          /\ msg[c] = settled[key[c]]
          /\ settled' = Q!Delete(settled, key[c])
      BY <2>1, <2>2, SameStore
    <2>4. Q!PopFromLevelDB(msg[c])
      BY <2>1, <2>3 DEF Q!PopFromLevelDB
    <2>5. Q!Pop(msg[c])
      BY <1>1, <2>1, <2>4 DEF Q!Pop
    <2> QED  BY <1>1, <2>5 DEF Q!QueueNext
  <1> QED  BY <1>2, <1>3, <1>4

\* A step that changes neither the contents nor the index nor the state is none
\* of Queue.
LEMMA OtherStepsStutter ==
  ASSUME LevelDBInv, NEW c \in Caller,
         \/ \E m \in Message : CallPush(c, m)
         \/ CallPop(c) \/ CallClose(c)
         \/ EnterError(c) \/ PushRead(c) \/ PushStore(c) \/ PushStoreError(c)
         \/ PopRead(c) \/ PopEmpty(c) \/ PopDeleteError(c)
  PROVE  UNCHANGED seen
  <1>1. UNCHANGED <<index, qstate, acked, settled>>
    BY DEF CallPush, CallPop, CallClose, EnterError, PushRead, PushStore,
       PushStoreError, PopRead, PopEmpty, PopDeleteError
  <1> QED  BY <1>1 DEF seen, indexSeen, qstateSeen

\* The index is made before anybody can see it: the queue opens when it is
\* there.
LEMMA OpenIsOpen ==
  ASSUME LevelDBInv, OpenFile \/ InitIndex \/ InitIndexUnread \/ InitIndexError
  PROVE  Q!Open \/ UNCHANGED seen
  <1>1. CASE OpenFile \/ InitIndexError
    BY <1>1 DEF OpenFile, InitIndexError, seen, indexSeen, qstateSeen
  <1>2. CASE InitIndex \/ InitIndexUnread
    <2>1. /\ qstate = "opening" /\ qstate' = "open" /\ UNCHANGED <<acked, settled>>
      BY <1>2 DEF InitIndex, InitIndexUnread
    <2>2. indexSeen' = indexSeen
      BY <1>2, LevelDBAssumption DEF InitIndex, InitIndexUnread, indexSeen,
         LevelDBInv, DatabaseInv
    <2> QED  BY <2>1, <2>2 DEF Q!Open, Q!Backends, indexSeen
  <1> QED  BY <1>1, <1>2

\* The process ends between two operations of Queue or inside a Push.
LEMMA CrashIsDeath ==
  ASSUME LevelDBInv, Crash
  PROVE  Q!QueueNext \/ UNCHANGED seen
  <1>1. /\ qstate' = "down" /\ settled' = db /\ UNCHANGED <<index, acked>>
        /\ qstate # "down"
    BY DEF Crash
  <1>2. CASE \A c \in Caller : pc[c] # "count"
    <2>1. settled' = settled
      BY <1>1, <1>2 DEF LevelDBInv, DatabaseInv
    <2>2. CASE qstate = "opening"
      BY <1>1, <2>1, <2>2 DEF seen, indexSeen, qstateSeen
    <2>3. CASE qstate # "opening"
      BY <1>1, <2>1, <2>3 DEF Q!Die, Q!QueueNext
    <2> QED  BY <2>2, <2>3
  <1>3. ASSUME NEW c \in Caller, pc[c] = "count"
        PROVE  Q!QueueNext
    <2>1. /\ mutex = c /\ c # NoCaller /\ index # NoIndex /\ index < MaxIndex
          /\ db = Put(settled, index, msg[c]) /\ msg[c] \in Message
      BY <1>3, LevelDBAssumption DEF LevelDBInv, ReadsStayTrue, OperationInv
    <2>2. qstate = "open"
      BY <2>1 DEF LevelDBInv, DatabaseInv
    <2>3. settled' = Q!Put(settled, index, msg[c])
      BY <1>1, <2>1, SameStore
    <2>4. Q!DieInPush(msg[c])
      BY <1>1, <2>1, <2>2, <2>3 DEF Q!DieInPush
    <2> QED  BY <2>1, <2>4 DEF Q!QueueNext
  <1> QED  BY <1>2, <1>3

\* Close closes the queue of Queue.
LEMMA CloseIsClose ==
  ASSUME LevelDBInv, NEW c \in Caller, CloseDB(c)
  PROVE  Q!Close
  <1>1. /\ qstate \in {"open", "closed"} /\ qstate' = "closed"
        /\ UNCHANGED <<index, acked, settled>>
    BY DEF CloseDB, LevelDBInv, OperationInv
  <1> QED  BY <1>1 DEF Q!Close

\* The operations of the LevelDB queue are atomic for their clients, for any
\* number of them, with failing accesses and crashes between the writes.
THEOREM LevelDBImplementsQueue == Spec => ImplementsQueue
  <1>1. Init => Q!QueueInit
    BY LevelDBAssumption DEF Init, Q!QueueInit
  <1>2. LevelDBInv /\ [Next]_vars => [Q!QueueNext]_seen
    <2> SUFFICES ASSUME LevelDBInv, [Next]_vars  PROVE Q!QueueNext \/ UNCHANGED seen
      OBVIOUS
    <2>1. CASE UNCHANGED vars
      BY <2>1 DEF vars, seen, indexSeen, qstateSeen
    <2>2. Q!Open \/ Q!Close => Q!QueueNext
      BY DEF Q!QueueNext
    <2> QED
      BY <2>1, <2>2, WriteIsOperation, OtherStepsStutter, OpenIsOpen, CrashIsDeath,
         CloseIsClose DEF Next, Step
  <1>3. LevelDBInv /\ [Next]_vars => [Q!QueueNext]_(Q!queueVars)
    BY <1>2 DEF seen, indexSeen, qstateSeen, Q!queueVars
  <1> QED
    BY <1>1, <1>3, InitQueue, NextKeepsInv, PTL DEF Spec, ImplementsQueue, Q!QueueSpec

=============================================================================
