------------------------------- MODULE Startup -------------------------------
(***************************************************************************)
(* How the program starts and ends: main and createQueue of                *)
(* cmd/tgforward/main.go, createLevelDBQueue of                            *)
(* internal/queue/leveldb_queue.go up to OpenFile, LoadConfig, and the     *)
(* unit deploy/systemd/tg-forward.service, which starts it again ten       *)
(* seconds after a failure.                                                *)
(*                                                                         *)
(* Several instances may run: the service and programs started by hand.    *)
(* They share the configuration file, and the two databases: the chat      *)
(* history, opened first, and the queue, whose LOCK file the code removes  *)
(* before it opens the database.  goleveldb locks the file it opens or     *)
(* creates under that name (flock), not the name: a lock on a removed file *)
(* keeps nobody out.                                                       *)
(***************************************************************************)
EXTENDS Naturals

CONSTANTS
    Instance,       \* running programs
    Service,        \* the one that systemd starts
    Other,          \* other programs that open the history
    Inode,          \* files that have been named LOCK
    None,
    Config,         \* the contents that the configuration file may have
    MaxEvents       \* bound on failures and on what administrators do

Section == {"telegram", "dingtalk", "queue", "log", "retry", "feishu", "metrics", "http"}

ASSUME StartupAssumption ==
    /\ Service \in Instance
    /\ None \notin Instance \cup Other \cup Inode \cup Config
    /\ Config \subseteq [sections : SUBSET Section, queue : {"memory", "leveldb"},
                         metrics : BOOLEAN]
    /\ MaxEvents \in Nat

VARIABLES
    config,     \* the configuration file
    pc,         \* instance -> where main is
    loaded,     \* instance -> AppConfig, None if there is none
    history,    \* who has the history open
    lockFile,   \* the file that is named LOCK in the directory of the queue
    queueLock,  \* instance -> the file by which it locks the queue
    backend,    \* instance -> its queue
    wanted,     \* does systemd want the service to run?
    events,     \* number of failures and of what administrators did
    faulted     \* history: the instances in whose start the disk failed

startupVars == <<config, pc, loaded, history, lockFile, queueLock, backend,
                 wanted, events, faulted>>

StartupInit ==
    /\ config \in Config
    /\ pc = [i \in Instance |-> "off"]
    /\ loaded = [i \in Instance |-> None]
    /\ history = None
    /\ lockFile \in Inode \cup {None}
    /\ queueLock = [i \in Instance |-> None]
    /\ backend = [i \in Instance |-> "none"]
    /\ wanted = FALSE
    /\ events = 0
    /\ faulted = {}

At(i, where) == pc[i] = where
Goto(i, where) == pc' = [pc EXCEPT ![i] = where]

\* Something that happens a bounded number of times.
Event == events < MaxEvents /\ events' = events + 1

-----------------------------------------------------------------------------
(* The end of an instance *)

\* Its memory is gone; the kernel closes its files, and with them its locks.
Release(i) ==
    /\ history' = IF history = i THEN None ELSE history
    /\ queueLock' = [queueLock EXCEPT ![i] = None]
    /\ backend' = [backend EXCEPT ![i] = "none"]
    /\ loaded' = [loaded EXCEPT ![i] = None]
    /\ faulted' = faulted \ {i}

\* Mutant: an error at the start ends main with status 0.
RefuseQuietly(i) ==
    /\ Goto(i, "off")
    /\ Release(i)
    /\ UNCHANGED <<config, lockFile, wanted>>

\* A panic, Fatalf or kill.  systemd will start the service again.
Refuse(i) ==
    /\ Goto(i, IF i = Service THEN "failed" ELSE "off")
    /\ Release(i)
    /\ UNCHANGED <<config, lockFile, wanted>>

-----------------------------------------------------------------------------
(* main *)

Launch(i) ==
    /\ i # Service
    /\ At(i, "off")
    /\ Event
    /\ Goto(i, "load")
    /\ UNCHANGED <<config, loaded, history, lockFile, queueLock, backend, wanted, faulted>>

\* The sections whose fields LoadConfig logs.
Logged == {"telegram", "dingtalk", "queue"}

\* main needs two more; a section that is missing is a nil pointer.
LoadConfig(i) ==
    /\ At(i, "load")
    /\ UNCHANGED events
    /\ IF Logged \cup {"log", "retry"} \subseteq config.sections
       THEN /\ loaded' = [loaded EXCEPT ![i] = config]
            /\ Goto(i, "history")
            /\ UNCHANGED <<config, history, lockFile, queueLock, backend, wanted, faulted>>
       ELSE Refuse(i)

\* Mutant: the history is opened without a lock.
OpenHistoryShared(i) ==
    /\ At(i, "history")
    /\ history' = i
    /\ Goto(i, "queue")
    /\ UNCHANGED <<config, loaded, lockFile, queueLock, backend, wanted, events, faulted>>

\* NewChatHistoryStorage.  Its LOCK file is not removed.
OpenHistory(i) ==
    /\ At(i, "history")
    /\ UNCHANGED events
    /\ IF history = None
       THEN /\ history' = i
            /\ Goto(i, "queue")
            /\ UNCHANGED <<config, loaded, lockFile, queueLock, backend, wanted, faulted>>
       ELSE Refuse(i)

\* createQueue goes on with a queue.
Created(i, b) ==
    /\ backend' = [backend EXCEPT ![i] = b]
    /\ Goto(i, "handler")
    /\ UNCHANGED <<config, loaded, history, wanted, events>>

\* createQueue, and createLevelDBQueue up to its look at LOCK.
CreateQueue(i) ==
    /\ At(i, "queue")
    /\ IF loaded[i].queue = "memory"
       THEN Created(i, "memory")
       ELSE /\ Goto(i, IF lockFile = None THEN "open" ELSE "remove")
            /\ UNCHANGED <<config, loaded, history, backend, wanted, events>>
    /\ UNCHANGED <<lockFile, queueLock, faulted>>

\* The LOCK file could be opened, which says nothing about its lock, and is
\* removed.  If it is gone, the queue is in memory.
RemoveLock(i) ==
    /\ At(i, "remove")
    /\ IF lockFile = None
       THEN Created(i, "memory") /\ UNCHANGED lockFile
       ELSE /\ lockFile' = None
            /\ Goto(i, "open")
            /\ UNCHANGED <<config, loaded, history, backend, wanted, events>>
    /\ UNCHANGED <<queueLock, faulted>>

Held == {queueLock[i] : i \in Instance} \ {None}

\* leveldb.OpenFile: opens LOCK, or creates it, and locks it.
OpenQueue(i) ==
    /\ At(i, "open")
    /\ \E f \in IF lockFile = None THEN Inode \ Held ELSE {lockFile} :
           /\ lockFile' = f
           /\ IF f \in Held
              THEN Created(i, "memory") /\ UNCHANGED queueLock
              ELSE Created(i, "leveldb") /\ queueLock' = [queueLock EXCEPT ![i] = f]
    /\ UNCHANGED faulted

\* The directory is not accessible, or the database cannot be opened or
\* recovered: the queue is in memory.
QueueFault(i) ==
    /\ pc[i] \in {"remove", "open"}
    /\ Event
    /\ backend' = [backend EXCEPT ![i] = "memory"]
    /\ Goto(i, "handler")
    /\ faulted' = faulted \cup {i}
    /\ UNCHANGED <<config, loaded, history, lockFile, queueLock, wanted>>

\* NewMessageHandler needs two more sections, and an answer of Telegram.
NewMessageHandler(i) ==
    /\ At(i, "handler")
    /\ UNCHANGED events
    /\ IF {"feishu", "metrics"} \subseteq loaded[i].sections
       THEN /\ Goto(i, "start")
            /\ UNCHANGED <<config, loaded, history, lockFile, queueLock, backend, wanted, faulted>>
       ELSE Refuse(i)

\* The goroutines have started when main logs metrics.http.
Start(i) ==
    /\ At(i, "start")
    /\ Goto(i, "started")
    /\ UNCHANGED <<config, loaded, history, lockFile, queueLock, backend, wanted, events, faulted>>

\* Mutant: the section is read although metrics are disabled.
LogMetricsAlways(i) ==
    /\ At(i, "started")
    /\ UNCHANGED events
    /\ IF "http" \in loaded[i].sections
       THEN /\ Goto(i, "run")
            /\ UNCHANGED <<config, loaded, history, lockFile, queueLock, backend, wanted, faulted>>
       ELSE Refuse(i)

LogMetrics(i) ==
    /\ At(i, "started")
    /\ UNCHANGED events
    /\ IF loaded[i].metrics => "http" \in loaded[i].sections
       THEN /\ Goto(i, "run")
            /\ UNCHANGED <<config, loaded, history, lockFile, queueLock, backend, wanted, faulted>>
       ELSE Refuse(i)

\* Mutant: the history is closed before Stop.
StopAfterHistory(i) ==
    /\ At(i, "run")
    /\ Event
    /\ Goto(i, "closed")
    /\ history' = IF history = i THEN None ELSE history
    /\ wanted' = (wanted /\ i # Service)
    /\ UNCHANGED <<config, loaded, lockFile, queueLock, backend, faulted>>

\* SIGINT or SIGTERM, and Stop, which closes the queue.  systemd takes the
\* end of the service for what was wanted.
Stop(i) ==
    /\ At(i, "run")
    /\ Event
    /\ Goto(i, "closed")
    /\ queueLock' = [queueLock EXCEPT ![i] = None]
    /\ wanted' = (wanted /\ i # Service)
    /\ UNCHANGED <<config, loaded, history, lockFile, backend, faulted>>

\* The deferred Close of the history, and the end of main.
Exit(i) ==
    /\ At(i, "closed")
    /\ Goto(i, "off")
    /\ Release(i)
    /\ UNCHANGED <<config, lockFile, wanted, events>>

\* A kill, a crash, or an error of Fatalf that is not one of the above.
Kill(i) ==
    /\ pc[i] \notin {"off", "failed"}
    /\ Event
    /\ Refuse(i)

Run(i) ==
    \/ LoadConfig(i) \/ OpenHistory(i)
    \/ CreateQueue(i) \/ RemoveLock(i) \/ OpenQueue(i)
    \/ NewMessageHandler(i) \/ Start(i) \/ LogMetrics(i)
    \/ Exit(i)

-----------------------------------------------------------------------------
(* systemd and the administrators *)

\* Restart=on-failure
Restart ==
    /\ At(Service, "failed")
    /\ wanted
    /\ Goto(Service, "load")
    /\ UNCHANGED <<config, loaded, history, lockFile, queueLock, backend, wanted, events, faulted>>

SystemctlStart ==
    /\ At(Service, "off")
    /\ Event
    /\ wanted' = TRUE
    /\ Goto(Service, "load")
    /\ UNCHANGED <<config, loaded, history, lockFile, queueLock, backend, faulted>>

\* Before main waits for the signal, SIGTERM kills the service.  (After that
\* it is Stop.)
SystemctlStop ==
    /\ pc[Service] \notin {"off", "run", "closed"}
    /\ Event
    /\ wanted' = FALSE
    /\ Goto(Service, "off")
    /\ Release(Service)
    /\ UNCHANGED <<config, lockFile>>

Edit ==
    /\ Event
    /\ config' \in Config \ {config}
    /\ UNCHANGED <<pc, loaded, history, lockFile, queueLock, backend, wanted, faulted>>

StartupNext ==
    \/ \E i \in Instance : Run(i) \/ Launch(i) \/ QueueFault(i) \/ Stop(i) \/ Kill(i)
    \/ Restart \/ SystemctlStart \/ SystemctlStop \/ Edit

StartupSpec == StartupInit /\ [][StartupNext]_startupVars

\* main does not wait for anybody up to its last line, and systemd restarts.
StartupFairness ==
    /\ \A i \in Instance : WF_startupVars(Run(i))
    /\ WF_startupVars(Restart)

-----------------------------------------------------------------------------
(* Properties *)

\* An instance has the queue in LevelDB only while it has the history open.
StartupTypeOK ==
    /\ config \in Config
    /\ pc \in [Instance -> {"off", "load", "history", "queue", "remove", "open",
                            "handler", "start", "started", "run", "closed", "failed"}]
    /\ loaded \in [Instance -> Config \cup {None}]
    /\ history \in Instance \cup Other \cup {None}
    /\ lockFile \in Inode \cup {None}
    /\ queueLock \in [Instance -> Inode \cup {None}]
    /\ \A i \in Instance : queueLock[i] # None => history = i
    /\ backend \in [Instance -> {"none", "memory", "leveldb"}]
    /\ wanted \in BOOLEAN
    /\ events \in 0 .. MaxEvents
    /\ faulted \subseteq Instance

\* Two instances never have the database of the queue open at the same time,
\* although its LOCK file is removed at every start.
OneProcessOnQueue ==
    \A i, j \in Instance :
        queueLock[i] # None /\ queueLock[j] # None => i = j

\* A queue that should be in LevelDB is in memory only because the disk
\* failed: no other instance, running, starting or ending, makes a start fall
\* back.
FallbackOnlyByFault ==
    \A i \in Instance :
        backend[i] = "memory" =>
            loaded[i].queue = "memory" \/ i \in faulted

=============================================================================
