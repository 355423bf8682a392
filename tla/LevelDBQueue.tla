---------------------------- MODULE LevelDBQueue ----------------------------
(***************************************************************************)
(* The LevelDB queue at the granularity of its reads and writes            *)
(* (internal/queue/leveldb_queue.go).                                      *)
(*                                                                         *)
(* The goroutines of the program call Push, Pop and Close.  An operation   *)
(* holds the mutex from its first line to its return, but the process may  *)
(* end between two of its writes, and each access of the database may      *)
(* fail.  Size and Peek only read under the mutex: they leave every        *)
(* variable as it is.                                                      *)
(*                                                                         *)
(* The module implements Queue: every operation takes effect at one step.  *)
(***************************************************************************)
EXTENDS KeyOrder, FiniteSets

CONSTANTS
    Caller,         \* the goroutines that use the queue
    NoCaller,       \* nobody: the mutex is free
    Message, NoMsg,
    DiskFaults,     \* may an access of the database fail?
    FirstIndex,     \* the index an earlier process left, 0 in a new directory
    NoIndex,        \* the key "queue:index" is missing
    MaxIndex        \* bound on the index, in place of the range of int64

ASSUME LevelDBAssumption ==
    /\ NoCaller \notin Caller
    /\ NoMsg \notin Message
    /\ DiskFaults \in BOOLEAN
    /\ FirstIndex \in Nat
    /\ MaxIndex \in Nat
    /\ FirstIndex <= MaxIndex
    /\ NoIndex \notin Nat

VARIABLES
    db,         \* the messages, by index
    index,      \* the value of "queue:index", or NoIndex
    qstate,     \* "down", "opening", "open", "closed"
    mutex,      \* LevelDBQueue.mutex: its holder, or NoCaller
    pc,         \* per goroutine: the statement it is about to execute
    msg,        \* per goroutine: the message it pushes or has read
    key,        \* per goroutine: the index it has read, or the key it pops
    acked,      \* history: messages whose Push returned nil, not popped since
    settled     \* history: db without the store of a Push in progress

vars == <<db, index, qstate, mutex, pc, msg, key, acked, settled>>

Init ==
    /\ db = [k \in {} |-> NoMsg]
    /\ index = IF FirstIndex = 0 THEN NoIndex ELSE FirstIndex
    /\ qstate = "down"
    /\ mutex = NoCaller
    /\ pc = [c \in Caller |-> "idle"]
    /\ msg = [c \in Caller |-> NoMsg]
    /\ key = [c \in Caller |-> 0]
    /\ acked = {}
    /\ settled = db

TypeOK ==
    /\ DOMAIN db \subseteq 0 .. MaxIndex
    /\ db \in [DOMAIN db -> Message]
    /\ index \in {NoIndex} \cup FirstIndex .. MaxIndex
    /\ qstate \in {"down", "opening", "open", "closed"}
    /\ mutex \in Caller \cup {NoCaller}
    /\ pc \in [Caller -> {"idle", "push", "pop", "close",
                          "store", "count", "delete"}]
    /\ msg \in [Caller -> Message \cup {NoMsg}]
    /\ key \in [Caller -> 0 .. MaxIndex]
    /\ acked \subseteq Message
    /\ settled \in [DOMAIN settled -> Message]

-----------------------------------------------------------------------------
(* Creation *)

\* leveldb.OpenFile succeeds; a damaged database is recovered with its
\* contents.
OpenFile ==
    /\ qstate = "down"
    /\ qstate' = "opening"
    /\ UNCHANGED <<db, index, mutex, pc, msg, key, acked, settled>>

\* A missing index is initialised, an existing one is left alone.
InitIndex ==
    /\ qstate = "opening"
    /\ qstate' = "open"
    /\ index' = IF index = NoIndex THEN 0 ELSE index
    /\ UNCHANGED <<db, mutex, pc, msg, key, acked, settled>>

\* Only ErrNotFound is looked at: after any other error of the Get the queue
\* is used as it is, possibly without an index.
InitIndexUnread ==
    /\ qstate = "opening"
    /\ DiskFaults
    /\ qstate' = "open"
    /\ UNCHANGED <<db, index, mutex, pc, msg, key, acked, settled>>

\* The Put of the index fails: there is no queue.
InitIndexError ==
    /\ qstate = "opening"
    /\ DiskFaults
    /\ index = NoIndex
    /\ qstate' = "down"
    /\ UNCHANGED <<db, index, mutex, pc, msg, key, acked, settled>>

-----------------------------------------------------------------------------
(* The operations *)

\* A goroutine calls an operation and asks for the mutex.
CallPush(c, m) ==
    /\ pc[c] = "idle" /\ qstate \in {"open", "closed"}
    /\ pc' = [pc EXCEPT ![c] = "push"]
    /\ msg' = [msg EXCEPT ![c] = m]
    /\ UNCHANGED <<db, index, qstate, mutex, key, acked, settled>>

CallPop(c) ==
    /\ pc[c] = "idle" /\ qstate \in {"open", "closed"}
    /\ pc' = [pc EXCEPT ![c] = "pop"]
    /\ UNCHANGED <<db, index, qstate, mutex, msg, key, acked, settled>>

CallClose(c) ==
    /\ pc[c] = "idle" /\ qstate \in {"open", "closed"}
    /\ pc' = [pc EXCEPT ![c] = "close"]
    /\ UNCHANGED <<db, index, qstate, mutex, msg, key, acked, settled>>

\* Mutant: a return that leaves the mutex locked.
ReturnLocked(c) ==
    /\ pc' = [pc EXCEPT ![c] = "idle"]
    /\ msg' = [msg EXCEPT ![c] = NoMsg]
    /\ UNCHANGED mutex

\* The deferred Unlock of every operation.
Return(c) ==
    /\ pc' = [pc EXCEPT ![c] = "idle"]
    /\ msg' = [msg EXCEPT ![c] = NoMsg]
    /\ mutex' = NoCaller

\* The operation cannot be carried out: the queue is closed, its first access
\* of the database fails, or a Push finds no index.
EnterError(c) ==
    /\ mutex = NoCaller
    /\ pc[c] \in {"push", "pop"}
    /\ qstate = "closed" \/ DiskFaults \/ (pc[c] = "push" /\ index = NoIndex)
    /\ Return(c)
    /\ UNCHANGED <<db, index, qstate, key, acked, settled>>

\* Mutant: the index is read without the mutex.
PushReadUnlocked(c) ==
    /\ pc[c] = "push"
    /\ qstate = "open"
    /\ index # NoIndex /\ index < MaxIndex
    /\ mutex' = c
    /\ key' = [key EXCEPT ![c] = index]
    /\ pc' = [pc EXCEPT ![c] = "store"]
    /\ UNCHANGED <<db, index, qstate, msg, acked, settled>>

\* Lock, and the Get of the index.
PushRead(c) ==
    /\ mutex = NoCaller
    /\ pc[c] = "push"
    /\ qstate = "open"
    /\ index # NoIndex /\ index < MaxIndex
    /\ mutex' = c
    /\ key' = [key EXCEPT ![c] = index]
    /\ pc' = [pc EXCEPT ![c] = "store"]
    /\ UNCHANGED <<db, index, qstate, msg, acked, settled>>

\* The Put of the message.
PushStore(c) ==
    /\ pc[c] = "store"
    /\ db' = Put(db, key[c], msg[c])
    /\ pc' = [pc EXCEPT ![c] = "count"]
    /\ UNCHANGED <<index, qstate, mutex, msg, key, acked, settled>>

PushStoreError(c) ==
    /\ pc[c] = "store"
    /\ DiskFaults
    /\ Return(c)
    /\ UNCHANGED <<db, index, qstate, key, acked, settled>>

\* Mutant: the index is counted up twice.
PushCountTwice(c) ==
    /\ pc[c] = "count"
    /\ index' = key[c] + 2
    /\ acked' = acked \cup {msg[c]}
    /\ settled' = db
    /\ Return(c)
    /\ UNCHANGED <<db, qstate, key>>

\* The Put of the index: Push returns nil.
PushCount(c) ==
    /\ pc[c] = "count"
    /\ index' = key[c] + 1
    /\ acked' = acked \cup {msg[c]}
    /\ settled' = db
    /\ Return(c)
    /\ UNCHANGED <<db, qstate, key>>

\* The message stays behind as an orphan at the index.
PushCountError(c) ==
    /\ pc[c] = "count"
    /\ DiskFaults
    /\ settled' = db
    /\ Return(c)
    /\ UNCHANGED <<db, index, qstate, key, acked>>

\* Lock, getMessageKeys, and the Get of the first message.
PopRead(c) ==
    /\ mutex = NoCaller
    /\ pc[c] = "pop"
    /\ qstate = "open"
    /\ \E k \in DOMAIN db :
           /\ IsFirst(db, k)
           /\ key' = [key EXCEPT ![c] = k]
           /\ msg' = [msg EXCEPT ![c] = db[k]]
    /\ mutex' = c
    /\ pc' = [pc EXCEPT ![c] = "delete"]
    /\ UNCHANGED <<db, index, qstate, acked, settled>>

PopEmpty(c) ==
    /\ mutex = NoCaller
    /\ pc[c] = "pop"
    /\ qstate = "open"
    /\ DOMAIN db = {}
    /\ Return(c)
    /\ UNCHANGED <<db, index, qstate, key, acked, settled>>

PopDelete(c) ==
    /\ pc[c] = "delete"
    /\ db' = Delete(db, key[c])
    /\ settled' = db'
    /\ acked' = acked \ {msg[c]}
    /\ Return(c)
    /\ UNCHANGED <<index, qstate, key>>

PopDeleteError(c) ==
    /\ pc[c] = "delete"
    /\ DiskFaults
    /\ Return(c)
    /\ UNCHANGED <<db, index, qstate, key, acked, settled>>

CloseDB(c) ==
    /\ mutex = NoCaller
    /\ pc[c] = "close"
    /\ qstate' = "closed"
    /\ Return(c)
    /\ UNCHANGED <<db, index, key, acked, settled>>

-----------------------------------------------------------------------------

\* The process ends: killed, or because main returns.  The goroutines and the
\* mutex are gone, the database is not.
Crash ==
    /\ qstate # "down"
    /\ qstate' = "down"
    /\ mutex' = NoCaller
    /\ pc' = [c \in Caller |-> "idle"]
    /\ msg' = [c \in Caller |-> NoMsg]
    /\ settled' = db
    /\ UNCHANGED <<db, index, key, acked>>

-----------------------------------------------------------------------------

\* The steps of an operation from the mutex to the return.
Step(c) ==
    \/ EnterError(c)
    \/ PushRead(c) \/ PushStore(c) \/ PushStoreError(c)
    \/ PushCount(c) \/ PushCountError(c)
    \/ PopRead(c) \/ PopEmpty(c) \/ PopDelete(c) \/ PopDeleteError(c)
    \/ CloseDB(c)

Next ==
    \/ OpenFile
    \/ InitIndex \/ InitIndexUnread \/ InitIndexError
    \/ \E c \in Caller :
           \/ \E m \in Message : CallPush(c, m)
           \/ CallPop(c)
           \/ CallClose(c)
           \/ Step(c)
    \/ Crash

Spec == Init /\ [][Next]_vars

\* A goroutine that may run runs, and Go's mutex hands over to a goroutine
\* that has waited long enough (its starvation mode).
Fairness == \A c \in Caller : SF_vars(Step(c))

FairSpec == Spec /\ Fairness

-----------------------------------------------------------------------------
(* Properties *)

\* Only the holder of the mutex is inside an operation, what it has read is
\* still true when it writes (the index of a Push, the key and the message of
\* a Pop), and the store of a Push in progress is at the index.
ReadsStayTrue ==
    \A c \in Caller : pc[c] \in {"store", "count", "delete"} =>
        /\ mutex = c
        /\ pc[c] \in {"store", "count"} => key[c] = index
        /\ pc[c] = "count" => db = Put(settled, index, msg[c])
        /\ pc[c] = "delete" => key[c] \in DOMAIN db /\ db[key[c]] = msg[c]

\* c may lock the mutex: an operation finds its way on every contents of the
\* database, the missing index and the first key among gaps included.
MayEnter(c) ==
    \/ pc[c] = "close" \/ qstate = "closed"
    \/ pc[c] = "push" /\ (index = NoIndex \/ index < MaxIndex)
    \/ pc[c] = "pop" /\ (DOMAIN db = {} \/ \E k \in DOMAIN db : IsFirst(db, k))

\* Nobody waits for a mutex that nobody gives back: while a goroutine is in an
\* operation, the holder of the mutex is at a write, which no guard stops, or
\* the mutex is free and the goroutine may lock it.  No error path and no end
\* of the process leaves it locked.  (The bound on the index aside.)
NobodyIsStuck ==
    \A c \in Caller :
        pc[c] # "idle" /\ index # MaxIndex =>
            IF mutex = NoCaller THEN MayEnter(c)
            ELSE pc[mutex] \in {"store", "count", "delete"}

\* Every operation returns, and with it the mutex: no error path keeps it.
\* The bound on the index keeps a Push waiting for ever, so it is left out.
CallsReturn ==
    \A c \in Caller :
        (pc[c] \in {"push", "pop", "close"} /\ index # MaxIndex)
            ~> (pc[c] = "idle" \/ index = MaxIndex)

Q == INSTANCE Queue WITH
        QueueType <- "leveldb",
        MayFallBack <- FALSE,
        backend <- "leveldb",
        db <- settled,
        index <- IF index = NoIndex THEN FirstIndex ELSE index,
        mem <- << >>,
        qstate <- IF qstate = "opening" THEN "down" ELSE qstate

\* The operations of the LevelDB queue are atomic, whatever the disk does and
\* whenever the process ends: its reads and writes implement Queue.
ImplementsQueue == Q!QueueSpec

=============================================================================
