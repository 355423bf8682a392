---------------------------- MODULE QueueProofs ----------------------------
(***************************************************************************)
(* Proofs about the retry queue: what Push accepted is kept, whatever the  *)
(* operations, disk faults, crashes and restarts, and Pop is first in,     *)
(* first out while the keys have the same number of digits.                *)
(***************************************************************************)
EXTENDS Queue, KeyOrderProofs, TLAPS

\* The inductive invariant.  A Put overwrites only the key at the index, which
\* AckedKept leaves out; the types make the comparison of keys arithmetic.
QueueInv == QueueTypeOK /\ KeysUpToIndex /\ AckedKept

-----------------------------------------------------------------------------
(* Stores *)

\* A Delete removes its key and changes no other.
LEMMA DeleteFacts ==
  ASSUME NEW store, NEW k
  PROVE  /\ DOMAIN Delete(store, k) = DOMAIN store \ {k}
         /\ \A i \in DOMAIN store : i # k => Delete(store, k)[i] = store[i]
  BY DEF Delete

\* Put and Delete keep a store a function from its keys to messages.
LEMMA StoreTypes ==
  ASSUME NEW store, store \in [DOMAIN store -> Message],
         NEW k, NEW m \in Message
  PROVE  /\ Put(store, k, m) \in [DOMAIN Put(store, k, m) -> Message]
         /\ Delete(store, k) \in [DOMAIN Delete(store, k) -> Message]
  BY DEF Put, Delete

-----------------------------------------------------------------------------
(* What was accepted is kept *)

\* A Put of m at the index, whether or not the index is written after it.
LEMMA PutKeepsInv ==
  ASSUME QueueInv, NEW m \in Message, index < MaxIndex,
         db' = Put(db, index, m),
         \/ index' = index + 1 /\ acked' = acked \cup {m}
         \/ index' = index /\ acked' = acked
  PROVE  /\ DOMAIN db' \subseteq 0 .. MaxIndex
         /\ db' \in [DOMAIN db' -> Message]
         /\ index' \in FirstIndex .. MaxIndex
         /\ acked' \subseteq Message
         /\ KeysUpToIndex'
         /\ AckedKept'
  <1>1. /\ index \in FirstIndex .. MaxIndex /\ FirstIndex \in Nat
        /\ MaxIndex \in Nat /\ DOMAIN db \subseteq 0 .. MaxIndex
        /\ db \in [DOMAIN db -> Message] /\ acked \subseteq Message
    BY QueueAssumption DEF QueueInv, QueueTypeOK
  <1>2. /\ DOMAIN db' = DOMAIN db \cup {index}
        /\ db'[index] = m
        /\ \A i \in DOMAIN db : i # index => db'[i] = db[i]
    BY DEF Put
  <1>3. DOMAIN db' \subseteq 0 .. MaxIndex
    BY <1>1, <1>2
  <1>4. db' \in [DOMAIN db' -> Message]
    BY <1>1, StoreTypes
  <1>5. index' \in FirstIndex .. MaxIndex /\ acked' \subseteq Message
    BY <1>1
  <1>6. KeysUpToIndex'
    BY <1>1, <1>2 DEF QueueInv, KeysUpToIndex
  <1>7. AckedKept'
    <2> SUFFICES ASSUME NEW x \in acked'
                 PROVE  \E k \in DOMAIN db' : k < index' /\ db'[k] = x
      BY DEF AckedKept
    <2>1. CASE x \in acked
      <3>1. PICK k \in DOMAIN db : k < index /\ db[k] = x
        BY <2>1 DEF QueueInv, AckedKept
      <3>2. k \in DOMAIN db' /\ k < index' /\ db'[k] = x
        BY <1>1, <1>2, <3>1
      <3> QED  BY <3>2
    <2>2. CASE x \notin acked
      <3>1. x = m /\ index' = index + 1
        BY <2>2
      <3> QED  BY <1>1, <1>2, <3>1
    <2> QED  BY <2>1, <2>2
  <1> QED  BY <1>3, <1>4, <1>5, <1>6, <1>7

\* Steps that leave the store, its index and the accepted messages alone.
LEMMA FrameKeepsInv ==
  ASSUME QueueInv, UNCHANGED <<db, index, acked>>,
         backend' \in {"leveldb", "memory"}, mem' \in Seq(Message),
         qstate' \in {"open", "closed", "down"}
  PROVE  QueueInv'
  BY DEF QueueInv, QueueTypeOK, KeysUpToIndex, AckedKept

\* The invariant holds before the first start.
LEMMA InitQueueInv == QueueInit => QueueInv
  BY QueueAssumption DEF QueueInit, QueueInv, QueueTypeOK, KeysUpToIndex, AckedKept

\* A Pop takes the accepted message it removes from the store.
LEMMA PopKeepsInv ==
  ASSUME QueueInv, NEW m \in Message, Pop(m)
  PROVE  QueueInv'
  <1>1. CASE PopFromMemory(m)
    <2>1. mem' \in Seq(Message)
      BY <1>1 DEF PopFromMemory, QueueInv, QueueTypeOK
    <2> QED  BY <1>1, <2>1, FrameKeepsInv DEF Pop, PopFromMemory, QueueInv, QueueTypeOK
  <1>2. CASE PopFromLevelDB(m)
    <2>1. PICK k \in DOMAIN db : m = db[k] /\ db' = Delete(db, k)
      BY <1>2 DEF PopFromLevelDB
    <2>2. /\ DOMAIN db' = DOMAIN db \ {k}
          /\ \A i \in DOMAIN db : i # k => db'[i] = db[i]
      BY <2>1, DeleteFacts
    <2>3. db' \in [DOMAIN db' -> Message]
      BY <2>1, StoreTypes DEF QueueInv, QueueTypeOK
    <2>4. UNCHANGED <<backend, index, mem, qstate>> /\ acked' = acked \ {m}
      BY <1>2 DEF Pop, PopFromLevelDB
    <2>5. QueueTypeOK'
      BY <2>2, <2>3, <2>4 DEF QueueInv, QueueTypeOK
    <2>6. KeysUpToIndex'
      BY <2>2, <2>4 DEF QueueInv, KeysUpToIndex
    <2>7. AckedKept'
      <3> SUFFICES ASSUME NEW x \in acked'
                   PROVE  \E j \in DOMAIN db' : j < index' /\ db'[j] = x
        BY DEF AckedKept
      <3>1. x \in acked /\ x # m
        BY <2>4
      <3>2. PICK j \in DOMAIN db : j < index /\ db[j] = x
        BY <3>1 DEF QueueInv, AckedKept
      <3>3. j # k
        BY <2>1, <3>1, <3>2
      <3> QED  BY <2>2, <2>4, <3>2, <3>3
    <2> QED  BY <2>5, <2>6, <2>7 DEF QueueInv
  <1> QED  BY <1>1, <1>2 DEF Pop

\* Every operation of the queue keeps the invariant.
LEMMA NextQueueInv == QueueInv /\ [QueueNext]_queueVars => QueueInv'
  <1> SUFFICES ASSUME QueueInv, [QueueNext]_queueVars
               PROVE  QueueInv'
    OBVIOUS
  <1>1. /\ backend \in {"leveldb", "memory"} /\ mem \in Seq(Message)
        /\ qstate \in {"open", "closed", "down"} /\ << >> \in Seq(Message)
    BY DEF QueueInv, QueueTypeOK
  <1>2. ASSUME NEW m \in Message, PushOk(m)
        PROVE  QueueInv'
    <2>1. CASE PushToLevelDB(m)
      BY <1>1, <1>2, <2>1, PutKeepsInv DEF PushOk, PushToLevelDB, QueueInv, QueueTypeOK
    <2>2. CASE PushToMemory(m)
      <3>1. mem' \in Seq(Message)
        BY <1>1, <2>2 DEF PushToMemory
      <3> QED  BY <1>1, <1>2, <2>2, <3>1, FrameKeepsInv DEF PushOk, PushToMemory
    <2> QED  BY <1>2, <2>1, <2>2 DEF PushOk
  <1>3. ASSUME NEW m \in Message, PushTorn(m)
        PROVE  QueueInv'
    BY <1>1, <1>3, PutKeepsInv DEF PushTorn, QueueInv, QueueTypeOK
  <1>4. ASSUME NEW m \in Message, Pop(m)
        PROVE  QueueInv'
    BY <1>4, PopKeepsInv
  <1>5. ASSUME NEW m \in Message, DieInPush(m)
        PROVE  QueueInv'
    BY <1>1, <1>5, PutKeepsInv DEF DieInPush, QueueInv, QueueTypeOK
  <1>6. CASE PushRefused \/ PopError \/ UNCHANGED queueVars
    BY <1>1, <1>6, FrameKeepsInv DEF PushRefused, PopError, queueVars
  <1>7. CASE Close
    BY <1>1, <1>7, FrameKeepsInv DEF Close
  <1>8. CASE Die
    BY <1>1, <1>8, FrameKeepsInv DEF Die
  <1>9. CASE Open
    <2>1. Backends \subseteq {"leveldb", "memory"}
      BY QueueAssumption DEF Backends
    <2> QED  BY <1>1, <1>9, <2>1, FrameKeepsInv DEF Open
  <1> QED
    BY <1>2, <1>3, <1>4, <1>5, <1>6, <1>7, <1>8, <1>9 DEF QueueNext

\* The inductive invariant holds in every state of every client's use of the
\* queue (internal/queue/leveldb_queue.go, memory_queue.go).
THEOREM QueueInvariant == QueueSpec => []QueueInv
  BY InitQueueInv, NextQueueInv, PTL DEF QueueSpec

\* A message whose Push returned nil is in LevelDB until a Pop hands it out,
\* for any number of messages, operations, faults, crashes and restarts.
THEOREM AckedMessagesKept == QueueSpec => []AckedKept
  <1>1. QueueInv => AckedKept
    BY DEF QueueInv
  <1> QED  BY <1>1, QueueInvariant, PTL

\* No message of LevelDB lies beyond the key the next Push writes, also after
\* a torn Push, a crash between its two Puts, or a start with another backend.
THEOREM IndexAboveKeys == QueueSpec => []KeysUpToIndex
  <1>1. QueueInv => KeysUpToIndex
    BY DEF QueueInv
  <1> QED  BY <1>1, QueueInvariant, PTL

-----------------------------------------------------------------------------
(* What a step may do to the store *)

\* Every step of the queue leaves the store alone, writes at the index, or
\* deletes the first key.
LEMMA StoreSteps ==
  ASSUME [QueueNext]_queueVars
  PROVE  \/ db' = db
         \/ \E m \in Message : db' = Put(db, index, m)
         \/ \E k \in DOMAIN db : IsFirst(db, k) /\ db' = Delete(db, k)
  BY DEF QueueNext, queueVars, PushOk, PushToLevelDB, PushToMemory, PushTorn,
         Pop, PopFromLevelDB, PopFromMemory, DieInPush, PushRefused, PopError,
         Close, Die, Open

\* Two keys with the same number of digits sort as numbers.
LEMMA SameWidthOrder ==
  ASSUME NEW j \in Nat, NEW k \in Nat, NumDigits(j) = NumDigits(k)
  PROVE  KeyLess(j, k) <=> j < k
  BY DEF KeyLess

\* What a Pop of a LevelDB queue hands out while it holds any message: the
\* first key exists and no other does, so a Pop always has a message and never
\* a choice.  The gaps that orphans, failed Pops and restarts leave among the
\* keys make no difference.
OneNextMessage ==
  DOMAIN db # {} =>
    \E k \in DOMAIN db : IsFirst(db, k) /\ \A h : IsFirst(db, h) => h = k

\* A queue whose index is an int64 never has messages without a next one
\* (getMessageKeys and keys[0] in Pop and Peek).
THEOREM PopHasOneMessage ==
  ASSUME MaxIndex < PowerOfTen[19]
  PROVE  QueueSpec => []OneNextMessage
  <1>1. QueueInv => OneNextMessage
    <2> SUFFICES ASSUME QueueInv  PROVE OneNextMessage
      OBVIOUS
    <2>1. DOMAIN db \subseteq Printable
      <3>1. MaxIndex \in Nat /\ PowerOfTen[19] \in Nat
        BY QueueAssumption, PowerFacts
      <3>2. DOMAIN db \subseteq 0 .. MaxIndex
        BY DEF QueueInv, QueueTypeOK
      <3> QED  BY <3>1, <3>2 DEF Printable
    <2> QED  BY <2>1, OneFirstKey DEF OneNextMessage
  <1> QED  BY <1>1, QueueInvariant, PTL

\* A message below the index is changed by no step, and removed only by a Pop
\* that finds it first.
THEOREM AcceptedMessagesStay == QueueSpec => AcceptedStays
  <1> DEFINE A == \A k \in DOMAIN db : k < index =>
                     \/ k \in DOMAIN db' /\ db'[k] = db[k]
                     \/ k \notin DOMAIN db' /\ IsFirst(db, k)
  <1>1. ASSUME QueueInv, [QueueNext]_queueVars
        PROVE  A
    <2> SUFFICES ASSUME NEW k \in DOMAIN db, k < index
                 PROVE  \/ k \in DOMAIN db' /\ db'[k] = db[k]
                        \/ k \notin DOMAIN db' /\ IsFirst(db, k)
      OBVIOUS
    <2>1. CASE db' = db
      BY <2>1
    <2>2. CASE \E m \in Message : db' = Put(db, index, m)
      <3>1. k # index
        BY <1>1, QueueAssumption DEF QueueInv, QueueTypeOK
      <3> QED  BY <2>2, <3>1 DEF Put
    <2>3. ASSUME NEW h \in DOMAIN db, IsFirst(db, h), db' = Delete(db, h)
          PROVE  \/ k \in DOMAIN db' /\ db'[k] = db[k]
                 \/ k \notin DOMAIN db' /\ IsFirst(db, k)
      BY <2>3, DeleteFacts
    <2> QED  BY <1>1, <2>1, <2>2, <2>3, StoreSteps
  <1>2. QueueInv /\ [QueueNext]_queueVars => [A]_queueVars
    BY <1>1
  <1> QED  BY <1>2, QueueInvariant, PTL DEF QueueSpec, AcceptedStays

\* While all keys have the same number of digits, Pop returns the message
\* that was pushed first; how many digits, and whether the messages were
\* pushed before a restart, makes no difference.
THEOREM FirstInFirstOutWithinWidth == QueueSpec => OldestFirstWithinWidth
  <1> DEFINE A == (\A j, k \in DOMAIN db : NumDigits(j) = NumDigits(k)) =>
                     \A k \in Removed : \A j \in DOMAIN db : k <= j
  <1>1. ASSUME QueueInv, [QueueNext]_queueVars
        PROVE  A
    <2> SUFFICES ASSUME \A i, h \in DOMAIN db : NumDigits(i) = NumDigits(h),
                        NEW k \in Removed, NEW j \in DOMAIN db
                 PROVE  k <= j
      OBVIOUS
    <2>1. k \in DOMAIN db /\ k \notin DOMAIN db'
      BY DEF Removed
    <2>2. j \in Nat /\ k \in Nat
      BY <1>1, <2>1, QueueAssumption DEF QueueInv, QueueTypeOK
    <2>3. CASE \E m \in Message : db' = Put(db, index, m)
      BY <2>1, <2>3 DEF Put
    <2>4. ASSUME NEW h \in DOMAIN db, IsFirst(db, h), db' = Delete(db, h)
          PROVE  k <= j
      <3>1. k = h
        BY <2>1, <2>4, DeleteFacts
      <3>2. ~ KeyLess(j, k)
        BY <2>4, <3>1 DEF IsFirst
      <3>3. NumDigits(j) = NumDigits(k)
        BY <2>1
      <3>4. KeyLess(j, k) <=> j < k
        BY <2>2, <3>3, SameWidthOrder
      <3> QED  BY <2>2, <3>2, <3>4
    <2> QED  BY <1>1, <2>1, <2>3, <2>4, StoreSteps
  <1>2. QueueInv /\ [QueueNext]_queueVars => [A]_queueVars
    BY <1>1
  <1> QED  BY <1>2, QueueInvariant, PTL DEF QueueSpec, OldestFirstWithinWidth

=============================================================================
