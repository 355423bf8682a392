------------------------------- MODULE Queue -------------------------------
(***************************************************************************)
(* The retry queue (internal/queue) as its clients see it: every operation *)
(* of the Queue interface is one atomic step, as both implementations hold *)
(* their mutex from the first line of an operation to its return.          *)
(*                                                                         *)
(* The LevelDB queue keeps its messages in db, a function from the indexes *)
(* present to messages, and the next index under a key of its own; both    *)
(* survive the process.  The memory queue is a slice that does not.  Push  *)
(* writes the message and the index with two Puts, so a failing disk or a  *)
(* crash between them leaves a message at the current index: an orphan,    *)
(* which Pop delivers like any other message unless the next Push          *)
(* overwrites it first.                                                    *)
(*                                                                         *)
(* LevelDBQueue models the individual reads and writes under the mutex and *)
(* is shown to implement this module.                                      *)
(***************************************************************************)
EXTENDS KeyOrder, Sequences, FiniteSets

CONSTANTS
    Message,        \* the messages
    NoMsg,          \* no message
    QueueType,      \* queue.type of the configuration
    MayFallBack,    \* may the creation of the configured queue fail?
    DiskFaults,     \* may a read or a write of LevelDB return an error?
    FirstIndex,     \* the index an earlier process left in the empty queue
    MaxIndex        \* bound on the index, and by it on the length of the slice,
                    \* in place of the range of int64 and of the memory

ASSUME QueueAssumption ==
    /\ NoMsg \notin Message
    /\ QueueType \in {"leveldb", "memory"}
    /\ MayFallBack \in BOOLEAN
    /\ DiskFaults \in BOOLEAN
    /\ FirstIndex \in Nat
    /\ MaxIndex \in Nat
    /\ FirstIndex <= MaxIndex

VARIABLES
    backend,    \* the implementation behind the Queue interface
    db,         \* the messages in LevelDB, by index
    index,      \* the value of the key "queue:index"
    mem,        \* MemoryQueue.messages
    qstate,     \* "open", "closed", or "down" while no process runs
    acked       \* history: the messages LevelDB accepted (Push returned nil)
                \* that no Pop has handed out since

queueVars == <<backend, db, index, mem, qstate, acked>>

\* Before the first start of the process that is followed.  FirstIndex rather
\* than 0: the pushes and pops of earlier processes leave this state behind.
QueueInit ==
    /\ backend = QueueType
    /\ db = [k \in {} |-> NoMsg]
    /\ index = FirstIndex
    /\ mem = << >>
    /\ qstate = "down"
    /\ acked = {}

QueueTypeOK ==
    /\ backend \in {"leveldb", "memory"}
    /\ DOMAIN db \subseteq 0 .. MaxIndex
    /\ db \in [DOMAIN db -> Message]
    /\ index \in FirstIndex .. MaxIndex
    /\ mem \in Seq(Message)
    /\ qstate \in {"open", "closed", "down"}
    /\ acked \subseteq Message

-----------------------------------------------------------------------------

QueueSize ==
    IF backend = "leveldb" THEN Cardinality(DOMAIN db) ELSE Len(mem)

-----------------------------------------------------------------------------
(* Push *)

\* Mutant: the key is the number of messages in place of the index.
PushToLevelDBBySize(m) ==
    /\ backend = "leveldb"
    /\ index < MaxIndex
    /\ db' = Put(db, QueueSize, m)
    /\ index' = index + 1
    /\ acked' = acked \cup {m}
    /\ UNCHANGED mem

\* Mutant: the index is written back without the increment.
PushToLevelDBNoIncrement(m) ==
    /\ backend = "leveldb"
    /\ index < MaxIndex
    /\ db' = Put(db, index, m)
    /\ index' = index
    /\ acked' = acked \cup {m}
    /\ UNCHANGED mem

PushToLevelDB(m) ==
    /\ backend = "leveldb"
    /\ index < MaxIndex
    /\ db' = Put(db, index, m)
    /\ index' = index + 1
    /\ acked' = acked \cup {m}
    /\ UNCHANGED mem

PushToMemory(m) ==
    /\ backend = "memory"
    /\ Len(mem) < MaxIndex - FirstIndex
    /\ mem' = Append(mem, m)
    /\ UNCHANGED <<db, index, acked>>

\* Push returns nil.
PushOk(m) ==
    /\ qstate = "open"
    /\ PushToLevelDB(m) \/ PushToMemory(m)
    /\ UNCHANGED <<backend, qstate>>

\* The message is stored, the index is not: Push returns an error.
PushTorn(m) ==
    /\ qstate = "open"
    /\ backend = "leveldb"
    /\ DiskFaults
    /\ index < MaxIndex
    /\ db' = Put(db, index, m)
    /\ UNCHANGED <<backend, index, mem, qstate, acked>>

\* Push returns an error and nothing is written: the queue is closed, the
\* index cannot be read or the message cannot be stored.
PushRefused ==
    /\ qstate = "closed" \/ (qstate = "open" /\ backend = "leveldb" /\ DiskFaults)
    /\ UNCHANGED queueVars

-----------------------------------------------------------------------------
(* Pop, Close *)

\* Mutant: the message is handed out and not deleted.
PopFromLevelDBKeep(m) ==
    /\ backend = "leveldb"
    /\ \E k \in DOMAIN db : IsFirst(db, k) /\ m = db[k]
    /\ acked' = acked \ {m}
    /\ UNCHANGED <<db, mem>>

PopFromLevelDB(m) ==
    /\ backend = "leveldb"
    /\ \E k \in DOMAIN db :
           /\ IsFirst(db, k)
           /\ m = db[k]
           /\ db' = Delete(db, k)
    /\ acked' = acked \ {m}
    /\ UNCHANGED mem

PopFromMemory(m) ==
    /\ backend = "memory"
    /\ mem # << >>
    /\ m = Head(mem)
    /\ mem' = Tail(mem)
    /\ UNCHANGED <<db, acked>>

Pop(m) ==
    /\ qstate = "open"
    /\ PopFromLevelDB(m) \/ PopFromMemory(m)
    /\ UNCHANGED <<backend, index, qstate>>

\* Pop returns an error: closed, empty, or the disk.
PopError ==
    /\ \/ qstate = "closed"
       \/ qstate = "open" /\ QueueSize = 0
       \/ qstate = "open" /\ backend = "leveldb" /\ DiskFaults
    /\ UNCHANGED queueVars

Close ==
    /\ qstate \in {"open", "closed"}
    /\ qstate' = "closed"
    /\ UNCHANGED <<backend, db, index, mem, acked>>

-----------------------------------------------------------------------------
(* The end of the process, and its next start *)

\* The process ends between two operations on the queue.
Die ==
    /\ qstate # "down"
    /\ qstate' = "down"
    /\ mem' = << >>
    /\ UNCHANGED <<backend, db, index, acked>>

\* The process ends between the two Puts of a Push of m.
DieInPush(m) ==
    /\ qstate = "open"
    /\ backend = "leveldb"
    /\ index < MaxIndex
    /\ qstate' = "down"
    /\ mem' = << >>
    /\ db' = Put(db, index, m)
    /\ UNCHANGED <<backend, index, acked>>

\* createQueue tries the configured type and falls back to a memory queue.
Backends == {QueueType} \cup (IF MayFallBack THEN {"memory"} ELSE {})

\* Mutant: the index is initialised although it is there.
OpenFromZero ==
    /\ qstate = "down"
    /\ backend' \in Backends
    /\ qstate' = "open"
    /\ index' = 0
    /\ UNCHANGED <<db, mem, acked>>

\* The index is initialised only when the key is missing, which it no longer
\* is: the stored messages and the index are the ones the last process left.
Open ==
    /\ qstate = "down"
    /\ backend' \in Backends
    /\ qstate' = "open"
    /\ UNCHANGED <<db, index, mem, acked>>

-----------------------------------------------------------------------------

QueueNext ==
    \/ \E m \in Message : PushOk(m) \/ PushTorn(m) \/ Pop(m) \/ DieInPush(m)
    \/ PushRefused
    \/ PopError
    \/ Close
    \/ Die
    \/ Open

QueueSpec == QueueInit /\ [][QueueNext]_queueVars

-----------------------------------------------------------------------------

\* Push only ever writes at the index, and the index only grows: no stored
\* message lies beyond the next key to be written.
KeysUpToIndex == \A k \in DOMAIN db : k <= index

\* The messages at keys below the index are the ones whose Push returned nil;
\* the message at the index itself is an orphan.
AckedKept ==
    \A m \in acked : \E k \in DOMAIN db : k < index /\ db[k] = m

\* A message that Push accepted into LevelDB stays where it is until a Pop
\* takes it: no later Push, failed Push, restart or fallback to the memory
\* queue replaces or removes it.
AcceptedStays ==
    [][\A k \in DOMAIN db : k < index =>
          \/ k \in DOMAIN db' /\ db'[k] = db[k]
          \/ k \notin DOMAIN db' /\ IsFirst(db, k)]_queueVars

\* The key that a step takes out of the store, if it takes one.
Removed == DOMAIN db \ DOMAIN db'

\* While the keys have the same number of digits, Pop takes the oldest
\* message: the order of getMessageKeys is first in, first out.
OldestFirstWithinWidth ==
    [][(\A j, k \in DOMAIN db : NumDigits(j) = NumDigits(k)) =>
          \A k \in Removed : \A j \in DOMAIN db : k <= j]_queueVars

=============================================================================
