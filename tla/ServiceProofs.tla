---------------------------- MODULE ServiceProofs ----------------------------
(***************************************************************************)
(* Proofs about Migrate and Startup: one process at a time on the queue    *)
(* and on the history.  The history is locked first, and its lock is kept  *)
(* while the LOCK file of the queue is removed and made again.  And the    *)
(* service: whenever it ends there is a reason.                            *)
(***************************************************************************)
EXTENDS Migrate, TLAPS

Holding == {"queue", "remove", "open", "handler", "start", "started", "run", "closed"}

\* The history is open from OpenHistory to the end, and the queue within.
Nested ==
    \A i \in Instance :
        /\ history = i <=> pc[i] \in Holding
        /\ queueLock[i] # None => pc[i] \in {"handler", "start", "started", "run"}

\* Nobody else touches the LOCK file while a start does.
LockSeen ==
    \A i \in Instance :
        /\ pc[i] = "open" => lockFile = None
        /\ pc[i] = "remove" => lockFile # None

Loaded ==
    \A i \in Instance : pc[i] \in Holding \cup {"history"} => loaded[i] \in Config

\* An instance that has not come to createQueue has no queue.
Idle ==
    \A i \in Instance :
        pc[i] \in {"off", "load", "history", "failed"} => backend[i] = "none"

StartupInv ==
    StartupTypeOK /\ Nested /\ LockSeen /\ Loaded /\ Idle /\ FallbackOnlyByFault

USE StartupAssumption, MigrateAssumption

\* A panic, Fatalf or kill leaves nothing of the instance behind.
LEMMA RefuseInv ==
    ASSUME StartupInv, NEW i \in Instance, Refuse(i), events' \in 0 .. MaxEvents
    PROVE  StartupInv'
BY SMTT(30) DEF StartupInv, StartupTypeOK, Nested, LockSeen, Loaded, Idle, FallbackOnlyByFault, Holding,
       Refuse, Release, Goto

LEMMA RunInv ==
    ASSUME StartupInv, NEW i \in Instance, Run(i)
    PROVE  StartupInv'
<1>0. events \in 0 .. MaxEvents
  BY DEF StartupInv, StartupTypeOK
<1>1. CASE LoadConfig(i)
  <2>1. CASE Refuse(i)
    BY <2>1, <1>0, <1>1, RefuseInv DEF LoadConfig
  <2>2. CASE ~ Refuse(i)
    <3>1. /\ pc[i] = "load"
          /\ loaded' = [loaded EXCEPT ![i] = config]
          /\ pc' = [pc EXCEPT ![i] = "history"]
          /\ UNCHANGED <<config, history, lockFile, queueLock, backend, wanted, events, faulted>>
      BY <2>2, <1>1 DEF LoadConfig, Goto, At
    <3>2. StartupTypeOK'
      BY <3>1 DEF StartupInv, StartupTypeOK
    <3>3. Nested' /\ LockSeen' /\ Loaded' /\ Idle'
      BY <3>1 DEF StartupInv, StartupTypeOK, Nested, LockSeen, Loaded, Idle, Holding
    <3>4. FallbackOnlyByFault'
      <4>1. backend[i] # "memory"
        BY <3>1 DEF StartupInv, Idle
      <4> QED
        BY <3>1, <4>1 DEF StartupInv, StartupTypeOK, FallbackOnlyByFault
    <3> QED BY <3>2, <3>3, <3>4 DEF StartupInv
  <2> QED BY <2>1, <2>2
<1>2. CASE OpenHistory(i)
  <2>1. CASE Refuse(i)
    BY <2>1, <1>0, <1>2, RefuseInv DEF OpenHistory
  <2>2. CASE ~ Refuse(i)
    BY <2>2, <1>2, SMTT(30)
       DEF StartupInv, StartupTypeOK, Nested, LockSeen, Loaded, Idle, FallbackOnlyByFault, Holding,
           OpenHistory, Goto, At
  <2> QED BY <2>1, <2>2
<1>3. CASE CreateQueue(i)
  BY <1>3, SMTT(30)
     DEF StartupInv, StartupTypeOK, Nested, LockSeen, Loaded, Idle, FallbackOnlyByFault, Holding,
         CreateQueue, Created, Goto, At
<1>4. CASE RemoveLock(i)
  BY <1>4, SMTT(30)
     DEF StartupInv, StartupTypeOK, Nested, LockSeen, Loaded, Idle, FallbackOnlyByFault, Holding,
         RemoveLock, Created, Goto, At
<1>5. CASE OpenQueue(i)
  <2>1. Held = {}
    BY <1>5 DEF OpenQueue, At, Held, StartupInv, StartupTypeOK, Nested, Holding
  <2> QED
    BY <1>5, <2>1, SMTT(30)
       DEF StartupInv, StartupTypeOK, Nested, LockSeen, Loaded, Idle, FallbackOnlyByFault, Holding,
           OpenQueue, Created, Goto, At
<1>6. CASE NewMessageHandler(i)
  <2>1. CASE Refuse(i)
    BY <2>1, <1>0, <1>6, RefuseInv DEF NewMessageHandler
  <2>2. CASE ~ Refuse(i)
    BY <2>2, <1>6, SMTT(30)
       DEF StartupInv, StartupTypeOK, Nested, LockSeen, Loaded, Idle, FallbackOnlyByFault, Holding,
           NewMessageHandler, Goto, At
  <2> QED BY <2>1, <2>2
<1>7. CASE Start(i)
  BY <1>7, SMTT(30)
     DEF StartupInv, StartupTypeOK, Nested, LockSeen, Loaded, Idle, FallbackOnlyByFault, Holding,
         Start, Goto, At
<1>8. CASE LogMetrics(i)
  <2>1. CASE Refuse(i)
    BY <2>1, <1>0, <1>8, RefuseInv DEF LogMetrics
  <2>2. CASE ~ Refuse(i)
    BY <2>2, <1>8, SMTT(30)
       DEF StartupInv, StartupTypeOK, Nested, LockSeen, Loaded, Idle, FallbackOnlyByFault, Holding,
           LogMetrics, Goto, At
  <2> QED BY <2>1, <2>2
<1>9. CASE Exit(i)
  BY <1>9, SMTT(30)
     DEF StartupInv, StartupTypeOK, Nested, LockSeen, Loaded, Idle, FallbackOnlyByFault, Holding,
         Exit, Release, Goto, At
<1> QED
  BY <1>1, <1>2, <1>3, <1>4, <1>5, <1>6, <1>7, <1>8, <1>9 DEF Run

LEMMA EventsBound ==
    ASSUME StartupInv, Event
    PROVE  events' \in 0 .. MaxEvents
BY DEF Event, StartupInv, StartupTypeOK

LEMMA StartupStep ==
    ASSUME StartupInv, StartupNext
    PROVE  StartupInv'
<1>1. ASSUME NEW i \in Instance, Run(i) PROVE StartupInv'
  BY <1>1, RunInv
<1>2. ASSUME NEW i \in Instance, Launch(i) PROVE StartupInv'
  BY <1>2, EventsBound, SMTT(30)
     DEF StartupInv, StartupTypeOK, Nested, LockSeen, Loaded, Idle, FallbackOnlyByFault, Holding,
         Launch, Goto, At
<1>3. ASSUME NEW i \in Instance, QueueFault(i) PROVE StartupInv'
  BY <1>3, EventsBound, SMTT(30)
     DEF StartupInv, StartupTypeOK, Nested, LockSeen, Loaded, Idle, FallbackOnlyByFault, Holding,
         QueueFault, Goto
<1>4. ASSUME NEW i \in Instance, Stop(i) PROVE StartupInv'
  BY <1>4, EventsBound, SMTT(30)
     DEF StartupInv, StartupTypeOK, Nested, LockSeen, Loaded, Idle, FallbackOnlyByFault, Holding,
         Stop, Goto, At
<1>5. ASSUME NEW i \in Instance, Kill(i) PROVE StartupInv'
  BY <1>5, EventsBound, RefuseInv DEF Kill
<1>6. CASE Restart
  BY <1>6, SMTT(30)
     DEF StartupInv, StartupTypeOK, Nested, LockSeen, Loaded, Idle, FallbackOnlyByFault, Holding,
         Restart, Goto, At
<1>7. CASE SystemctlStart
  BY <1>7, EventsBound, SMTT(30)
     DEF StartupInv, StartupTypeOK, Nested, LockSeen, Loaded, Idle, FallbackOnlyByFault, Holding,
         SystemctlStart, Goto, At
<1>8. CASE SystemctlStop
  <2>. USE <1>8 DEF SystemctlStop, Release, Goto, StartupInv, Holding
  <2>1. StartupTypeOK'
    BY EventsBound DEF StartupTypeOK, Nested
  <2>2. Nested'
    BY DEF StartupTypeOK, Nested
  <2>3. LockSeen' /\ Loaded' /\ Idle' /\ FallbackOnlyByFault'
    BY DEF StartupTypeOK, LockSeen, Loaded, Idle, FallbackOnlyByFault
  <2> QED BY <2>1, <2>2, <2>3
<1>9. CASE Edit
  BY <1>9, EventsBound, SMTT(30)
     DEF StartupInv, StartupTypeOK, Nested, LockSeen, Loaded, Idle, FallbackOnlyByFault, Holding, Edit
<1> QED
  BY <1>1, <1>2, <1>3, <1>4, <1>5, <1>6, <1>7, <1>8, <1>9 DEF StartupNext

-----------------------------------------------------------------------------
(* The tool beside the program *)

\* The tool has the history open while it scans, and no instance can save.
ToolHolds ==
    history = Tool <=> at \in {"scan", "close"}

ServiceInv == StartupInv /\ ToolHolds

\* The tool changes nothing of the instances: it takes the history when
\* nobody has it and gives back its own.
LEMMA ToolStep ==
    ASSUME ServiceInv, ToolStart \/ ToolRun \/ IterError \/ ToolKill
    PROVE  /\ UNCHANGED <<config, pc, loaded, lockFile, queueLock, backend, wanted, faulted>>
           /\ history' \in {history, None, Tool}
           /\ history \in Instance => history' = history
           /\ events' \in 0 .. MaxEvents
<1>1. Tool \notin Instance /\ None \notin Instance
  OBVIOUS
<1>2. events \in 0 .. MaxEvents
  BY DEF ServiceInv, StartupInv, StartupTypeOK
<1>3. Event => events' \in 0 .. MaxEvents
  BY EventsBound DEF ServiceInv
<1>4. CASE ToolStart
  BY <1>2, <1>3, <1>4 DEF ToolStart
<1>5. CASE ToolOpen
  BY <1>1, <1>2, <1>5 DEF ToolOpen, OnlyHistory, startupVars
<1>6. CASE Visit
  BY <1>2, <1>3, <1>6 DEF Visit, OnlyHistory, WriteBatch
<1>7. CASE Finish
  BY <1>2, <1>3, <1>7 DEF Finish, OnlyHistory, WriteBatch
<1>8. CASE ToolExit
  BY <1>1, <1>2, <1>8 DEF ToolExit, OnlyHistory, ServiceInv, ToolHolds
<1>9. CASE ToolKill
  BY <1>1, <1>3, <1>9 DEF ToolKill, OnlyHistory
<1>10. CASE IterError
  BY <1>3, <1>10 DEF IterError, OnlyHistory
<1> QED
  BY <1>4, <1>5, <1>6, <1>7, <1>8, <1>9, <1>10 DEF ToolRun

LEMMA ToolStepHolds ==
    ASSUME ServiceInv, ToolStart \/ ToolRun \/ IterError \/ ToolKill
    PROVE  ToolHolds'
<1>1. None # Tool
  OBVIOUS
<1>2. CASE ToolStart
  BY <1>2 DEF ToolStart, ServiceInv, ToolHolds
<1>3. CASE ToolOpen
  <2>1. at = "open" /\ history # Tool
    BY <1>3 DEF ToolOpen, ServiceInv, ToolHolds
  <2>2. CASE OnlyHistory(Tool) /\ at' = "scan"
    BY <2>2 DEF OnlyHistory, ToolHolds
  <2>3. CASE UNCHANGED startupVars /\ ToolEnd
    BY <2>1, <2>3 DEF startupVars, ToolEnd, ToolHolds
  <2> QED BY <1>3, <2>2, <2>3 DEF ToolOpen
<1>4. CASE Visit
  BY <1>4 DEF Visit, OnlyHistory, ServiceInv, ToolHolds
<1>5. CASE Finish
  <2>1. at = "scan" /\ at' = "close" /\ history' = history
    BY <1>5 DEF Finish, OnlyHistory
  <2> QED BY <2>1 DEF ServiceInv, ToolHolds
<1>6. CASE ToolExit
  BY <1>1, <1>6 DEF ToolExit, ToolEnd, OnlyHistory, ToolHolds
<1>7. CASE ToolKill
  BY <1>1, <1>7 DEF ToolKill, ToolEnd, OnlyHistory, ServiceInv, ToolHolds
<1>8. CASE IterError
  BY <1>8 DEF IterError, OnlyHistory, ServiceInv, ToolHolds
<1> QED
  BY <1>2, <1>3, <1>4, <1>5, <1>6, <1>7, <1>8 DEF ToolRun

\* An instance never has, takes or gives back the history of the tool.
LEMMA StartupLeavesTool ==
    ASSUME StartupInv, StartupNext
    PROVE  history' = Tool <=> history = Tool
<1>1. Tool \notin Instance /\ None # Tool
  OBVIOUS
<1>2. ASSUME NEW i \in Instance, Release(i) PROVE history' = Tool <=> history = Tool
  BY <1>1, <1>2 DEF Release
<1>3. ASSUME NEW i \in Instance, Run(i) PROVE history' = Tool <=> history = Tool
  BY <1>1, <1>2, <1>3
     DEF Run, LoadConfig, OpenHistory, CreateQueue, RemoveLock, OpenQueue, Created,
         NewMessageHandler, Start, LogMetrics, Exit, Refuse
<1>4. ASSUME NEW i \in Instance, Launch(i) \/ QueueFault(i) \/ Stop(i) \/ Kill(i)
      PROVE  history' = Tool <=> history = Tool
  BY <1>1, <1>2, <1>4 DEF Launch, QueueFault, Stop, Kill, Refuse
<1>5. CASE Restart \/ SystemctlStart \/ SystemctlStop \/ Edit
  BY <1>1, <1>2, <1>5 DEF Restart, SystemctlStart, SystemctlStop, Edit
<1> QED
  BY <1>3, <1>4, <1>5 DEF StartupNext

LEMMA ServiceInit ==
    Init => ServiceInv
<1> SUFFICES ASSUME Init PROVE ServiceInv
  OBVIOUS
<1>1. StartupTypeOK
  <2>1. /\ config \in Config
        /\ pc = [i \in Instance |-> "off"]
        /\ loaded = [i \in Instance |-> None]
        /\ history = None
        /\ lockFile \in Inode \cup {None}
        /\ queueLock = [i \in Instance |-> None]
        /\ backend = [i \in Instance |-> "none"]
        /\ wanted = FALSE
        /\ events = 0
        /\ faulted = {}
    BY DEF Init, StartupInit
  <2>2. events \in 0 .. MaxEvents
    BY <2>1
  <2>3. pc \in [Instance -> {"off", "load", "history", "queue", "remove", "open",
                            "handler", "start", "started", "run", "closed", "failed"}]
    BY <2>1
  <2>4. backend \in [Instance -> {"none", "memory", "leveldb"}]
    BY <2>1
  <2>5. loaded \in [Instance -> Config \cup {None}]
    BY <2>1
  <2>6. /\ queueLock \in [Instance -> Inode \cup {None}]
        /\ \A i \in Instance : queueLock[i] # None => history = i
    BY <2>1
  <2> QED
    BY <2>1, <2>2, <2>3, <2>4, <2>5, <2>6 DEF StartupTypeOK
<1>2. Nested /\ LockSeen /\ Loaded /\ Idle /\ FallbackOnlyByFault
  BY DEF Init, StartupInit, Nested, LockSeen, Loaded, Idle, FallbackOnlyByFault, Holding
<1>3. ToolHolds
  BY DEF Init, StartupInit, ToolHolds
<1> QED
  BY <1>1, <1>2, <1>3 DEF ServiceInv, StartupInv

LEMMA ServiceStep ==
    ServiceInv /\ [Next]_vars => ServiceInv'
<1> SUFFICES ASSUME ServiceInv, [Next]_vars PROVE ServiceInv'
  OBVIOUS
<1>1. CASE StartupNext /\ UNCHANGED <<records, toolVars>>
  BY <1>1, StartupStep, StartupLeavesTool DEF ServiceInv, ToolHolds, toolVars
<1>2. ASSUME NEW i \in Instance, NEW k \in Key, Save(i, k) PROVE ServiceInv'
  <2>1. StartupInv'
    BY <1>2, SMTT(30)
       DEF Save, startupVars, ServiceInv, StartupInv, StartupTypeOK, Nested, LockSeen,
           Loaded, Idle, FallbackOnlyByFault
  <2>2. history # Tool
    BY <1>2 DEF Save
  <2> QED
    BY <1>2, <2>1, <2>2 DEF Save, startupVars, ServiceInv, ToolHolds
<1>3. CASE ToolStart \/ ToolRun \/ IterError \/ ToolKill
  <2>1. ToolHolds'
    BY <1>3, ToolStepHolds
  <2>2. StartupInv'
    BY <1>3, ToolStep, SMTT(30)
       DEF ServiceInv, StartupInv, StartupTypeOK, Nested, LockSeen, Loaded, Idle, FallbackOnlyByFault
  <2> QED BY <2>1, <2>2 DEF ServiceInv
<1>4. CASE UNCHANGED vars
  BY <1>4, SMTT(30)
     DEF vars, startupVars, toolVars, ServiceInv, ToolHolds, StartupInv, StartupTypeOK, Nested,
         LockSeen, Loaded, Idle, FallbackOnlyByFault
<1> QED
  BY <1>1, <1>2, <1>3, <1>4 DEF Next

LEMMA ServiceInvariant ==
    Spec => []ServiceInv
BY ServiceInit, ServiceStep, PTL DEF Spec

\* Two programs never have the database of the queue open at the same time
\* (createLevelDBQueue removes its LOCK file, but under the lock of the
\* history, which NewChatHistoryStorage takes before).
THEOREM OneProcess ==
    Spec => []OneProcessOnQueue
<1>1. ServiceInv => OneProcessOnQueue
  BY DEF ServiceInv, StartupInv, StartupTypeOK, OneProcessOnQueue
<1> QED
  BY <1>1, ServiceInvariant, PTL

\* createQueue falls back to the memory queue only because the disk failed.
THEOREM FallbackByFault ==
    Spec => []FallbackOnlyByFault
<1>1. ServiceInv => FallbackOnlyByFault
  BY DEF ServiceInv, StartupInv
<1> QED
  BY <1>1, ServiceInvariant, PTL

-----------------------------------------------------------------------------
(* The service *)

\* systemd wants no service that has ended in order, or is about to.
WantedIsUp ==
    wanted => pc[Service] \notin {"off", "closed"}

\* Why the service may be down, as in DownForAReason.
Reason ==
    \/ pc'[Service] = "off" /\ ~ wanted'
    \/ /\ pc'[Service] = "failed"
       /\ \/ events' # events
          \/ ~ Sufficient(StartsWith)
          \/ history \notin {None, Service}

\* main in the service panics on a missing section or a history that is taken,
\* and ends in order only after a signal.
LEMMA RunReason ==
    ASSUME StartupInv, WantedIsUp, Run(Service)
    PROVE  WantedIsUp' /\ (ServiceDown => Reason)
<1>1. /\ pc \in [Instance -> {"off", "load", "history", "queue", "remove", "open",
                            "handler", "start", "started", "run", "closed", "failed"}]
      /\ Service \in Instance
  BY DEF StartupInv, StartupTypeOK
<1>2. ASSUME Refuse(Service)
      PROVE  pc'[Service] = "failed" /\ WantedIsUp'
  BY <1>1, <1>2 DEF Refuse, Goto, WantedIsUp
<1>3. ASSUME NEW where \in {"history", "queue", "remove", "open", "handler", "start",
                            "started", "run"},
             Goto(Service, where)
      PROVE  WantedIsUp' /\ ~ ServiceDown
  BY <1>1, <1>3 DEF Goto, WantedIsUp, ServiceDown
<1>4. CASE LoadConfig(Service)
  <2>1. ~ Sufficient(config) \/ Goto(Service, "history")
    BY <1>4 DEF LoadConfig, Logged, Sufficient
  <2>2. Refuse(Service) \/ Goto(Service, "history")
    BY <1>4 DEF LoadConfig
  <2> QED
    BY <1>2, <1>3, <1>4, <2>1, <2>2 DEF LoadConfig, At, Reason, StartsWith
<1>5. CASE OpenHistory(Service)
  <2>1. history # Service
    BY <1>1, <1>5 DEF OpenHistory, At, StartupInv, Nested, Holding
  <2> QED
    BY <1>2, <1>3, <1>5, <2>1 DEF OpenHistory, Reason
<1>6. CASE NewMessageHandler(Service)
  <2>1. ~ Sufficient(loaded[Service]) \/ Goto(Service, "start")
    BY <1>6 DEF NewMessageHandler, Sufficient
  <2>2. Refuse(Service) \/ Goto(Service, "start")
    BY <1>6 DEF NewMessageHandler
  <2> QED
    BY <1>2, <1>3, <1>6, <2>1, <2>2 DEF NewMessageHandler, At, Reason, StartsWith
<1>7. CASE LogMetrics(Service)
  <2>1. ~ Sufficient(loaded[Service]) \/ Goto(Service, "run")
    BY <1>7 DEF LogMetrics, Sufficient
  <2>2. Refuse(Service) \/ Goto(Service, "run")
    BY <1>7 DEF LogMetrics
  <2> QED
    BY <1>2, <1>3, <1>7, <2>1, <2>2 DEF LogMetrics, At, Reason, StartsWith
<1>8. CASE CreateQueue(Service) \/ RemoveLock(Service) \/ OpenQueue(Service) \/ Start(Service)
  BY <1>3, <1>8 DEF CreateQueue, RemoveLock, OpenQueue, Start, Created
<1>9. CASE Exit(Service)
  <2>1. ~ wanted /\ wanted' = wanted /\ pc'[Service] = "off"
    BY <1>1, <1>9 DEF Exit, At, Goto, WantedIsUp
  <2> QED
    BY <2>1 DEF WantedIsUp, Reason
<1> QED
  BY <1>4, <1>5, <1>6, <1>7, <1>8, <1>9 DEF Run

\* A step of somebody else.
LEMMA SameService ==
    ASSUME WantedIsUp, pc'[Service] = pc[Service], wanted' = wanted
    PROVE  WantedIsUp' /\ ~ ServiceDown
BY DEF WantedIsUp, ServiceDown

\* The steps of systemd, of administrators and of other instances.
LEMMA StartupReason ==
    ASSUME StartupInv, WantedIsUp, StartupNext
    PROVE  WantedIsUp' /\ (ServiceDown => Reason)
<1>1. /\ pc \in [Instance -> {"off", "load", "history", "queue", "remove", "open",
                            "handler", "start", "started", "run", "closed", "failed"}]
      /\ Service \in Instance /\ events \in Nat
  BY DEF StartupInv, StartupTypeOK
<1>3. Event => events' # events
  BY <1>1 DEF Event
<1>4. ASSUME NEW i \in Instance \ {Service},
             Run(i) \/ Launch(i) \/ QueueFault(i) \/ Stop(i) \/ Kill(i)
      PROVE  pc'[Service] = pc[Service] /\ wanted' = wanted
  <2>1. wanted' = wanted
    <3>1. CASE Stop(i)
      <4>1. wanted \in BOOLEAN
        BY DEF StartupInv, StartupTypeOK
      <4>2. wanted' = (wanted /\ i # Service)
        BY <3>1 DEF Stop
      <4> QED BY <4>1, <4>2
    <3> QED
      BY <1>4, <3>1
         DEF Run, LoadConfig, OpenHistory, CreateQueue, RemoveLock, OpenQueue, Created,
             NewMessageHandler, Start, LogMetrics, Exit, Refuse, Launch, QueueFault, Kill
  <2>2. \E where : Goto(i, where)
    BY <1>4
       DEF Run, LoadConfig, OpenHistory, CreateQueue, RemoveLock, OpenQueue, Created,
           NewMessageHandler, Start, LogMetrics, Exit, Refuse, Launch, QueueFault, Stop, Kill
  <2> QED BY <1>1, <2>1, <2>2 DEF Goto
<1>5. ~ Launch(Service)
  BY DEF Launch
<1>6. CASE QueueFault(Service)
  BY <1>1, <1>6 DEF QueueFault, Goto, WantedIsUp, ServiceDown
<1>7. CASE Stop(Service)
  BY <1>1, <1>7 DEF Stop, Goto, WantedIsUp, ServiceDown
<1>8. CASE Kill(Service)
  BY <1>1, <1>3, <1>8 DEF Kill, Refuse, Goto, WantedIsUp, Reason
<1>9. CASE Restart \/ SystemctlStart
  BY <1>1, <1>9 DEF Restart, SystemctlStart, Goto, WantedIsUp, ServiceDown
<1>10. CASE SystemctlStop
  BY <1>1, <1>10 DEF SystemctlStop, Goto, WantedIsUp, Reason
<1>11. CASE Edit
  BY <1>11, SameService DEF Edit
<1> QED
  BY <1>4, <1>5, <1>6, <1>7, <1>8, <1>9, <1>10, <1>11, RunReason, SameService DEF StartupNext

\* Every end of the service has a cause of its own step: nothing that earlier
\* starts have left in the databases, the LOCK file or the process makes it
\* fail again (main, createQueue and the unit's Restart=on-failure), for any
\* number of programs beside it.
THEOREM EndsForAReason ==
    Spec => DownForAReason
<1>1. Init => WantedIsUp
  BY DEF Init, StartupInit, WantedIsUp
<1>2. ASSUME ServiceInv, WantedIsUp, [Next]_vars
      PROVE  WantedIsUp' /\ (ServiceDown => Reason)
  <2>2. CASE StartupNext
    BY <1>2, <2>2, StartupReason DEF ServiceInv
  <2>3. CASE \E i \in Instance, k \in Key : Save(i, k)
    <3>1. pc' = pc /\ wanted' = wanted
      BY <2>3 DEF Save, startupVars
    <3> QED BY <1>2, <3>1, SameService
  <2>4. CASE ToolStart \/ ToolRun \/ IterError \/ ToolKill
    <3>1. pc' = pc /\ wanted' = wanted
      BY <1>2, <2>4, ToolStep
    <3> QED BY <1>2, <3>1, SameService
  <2>5. CASE UNCHANGED vars
    <3>1. pc' = pc /\ wanted' = wanted
      BY <2>5 DEF vars, startupVars
    <3> QED BY <1>2, <3>1, SameService
  <2> QED BY <1>2, <2>2, <2>3, <2>4, <2>5 DEF Next
<1>3. ServiceInv /\ WantedIsUp /\ [Next]_vars => [ServiceDown => Reason]_vars
  BY <1>2
<1>4. ServiceInv /\ WantedIsUp /\ [Next]_vars => WantedIsUp'
  BY <1>2
<1>5. DownForAReason <=> [][ServiceDown => Reason]_vars
  BY DEF DownForAReason, Reason
<1> QED
  BY <1>1, <1>3, <1>4, <1>5, ServiceInvariant, PTL DEF Spec

-----------------------------------------------------------------------------
(* The records *)

ToolTypeOK ==
    /\ records \in [Key -> Content]
    /\ at \in {"off", "open", "scan", "close"}
    /\ dryRun \in BOOLEAN
    /\ snapshot \in [Key -> Content]
    /\ next \in 1 .. NumRecords + 1
    /\ DOMAIN batch \subseteq 1 .. next - 1
    /\ \A k \in DOMAIN batch : batch[k] \in Form
    /\ updated \in 0 .. next - 1
    /\ missed \subseteq Key
    /\ at \in {"off", "open"} => next = 1

\* The batch has repaired images of the snapshot.
BatchFixed ==
    at = "scan" => \A k \in DOMAIN batch : /\ ~ dryRun
                                           /\ snapshot[k] \in Form
                                           /\ batch[k] = Fixed(k)

\* What has been visited is repaired, or in the batch, or there was an error.
VisitedRepaired ==
    at = "scan" /\ ~ dryRun =>
        \A k \in 1 .. next - 1 : k \in DOMAIN batch \/ k \in missed \/ Repaired(k)

RecordsInv ==
    ToolTypeOK /\ BatchFixed /\ ImageIsCurrent /\ VisitedRepaired /\ CompleteButForErrors

LEMMA FixedIsForm ==
    ASSUME ToolTypeOK, NEW k \in Key, snapshot[k] \in Form
    PROVE  Fixed(k) \in Form
BY DEF ToolTypeOK, Fixed, Form

\* What a batch of repaired images does to the records, written or not.
LEMMA BatchWritten ==
    ASSUME RecordsInv, at = "scan",
           NEW b, DOMAIN b \subseteq Key, WriteBatch(b),
           UNCHANGED <<dryRun, snapshot>>,
           \A k \in DOMAIN b : snapshot[k] \in Form /\ b[k] = Fixed(k)
    PROVE  /\ records' \in [Key -> Content]
           /\ missed' \subseteq Key
           /\ batch' = NoBatch
           /\ missed \subseteq missed' /\ \A k \in DOMAIN b : k \in missed' \/ Repaired(k)'
           /\ \A k \in Key \ DOMAIN b : records'[k] = records[k]
<1>1. \A k \in DOMAIN b : b[k] \in Form
  BY FixedIsForm DEF RecordsInv
<1>2. CASE /\ records' = [k \in Key |-> IF k \in DOMAIN b THEN b[k] ELSE records[k]]
           /\ UNCHANGED <<events, missed>>
  <2>1. ASSUME NEW k \in DOMAIN b PROVE Repaired(k)'
    <3>1. records'[k] = Fixed(k) /\ Fixed(k) \in Form
      BY <1>1, <1>2
    <3>2. Fixed(k).clean /\ (k \in Listed => Fixed(k).named)
      BY DEF Fixed
    <3> QED BY <3>1, <3>2, Zenon DEF Repaired
  <2>2. records' \in [Key -> Content]
    BY <1>1, <1>2 DEF RecordsInv, ToolTypeOK, Content
  <2>3. batch' = NoBatch
    BY DEF WriteBatch
  <2>4. missed' = missed /\ missed \subseteq Key
    BY <1>2 DEF RecordsInv, ToolTypeOK
  <2>5. \A k \in Key \ DOMAIN b : records'[k] = records[k]
    BY <1>2
  <2> QED BY <2>1, <2>2, <2>3, <2>4, <2>5
<1>3. CASE missed' = missed \cup DOMAIN b /\ UNCHANGED records
  <2>1. batch' = NoBatch
    BY DEF WriteBatch
  <2> QED
    BY <1>3, <2>1 DEF RecordsInv, ToolTypeOK
<1> QED
  BY <1>2, <1>3 DEF WriteBatch

\* A record that needs nothing, or that is visited, is repaired.
LEMMA VisitRecords ==
    ASSUME RecordsInv, Visit
    PROVE  RecordsInv'
<1>1. /\ at = "scan" /\ at' = "scan" /\ next \in Key /\ next' = next + 1
      /\ dryRun' = dryRun /\ snapshot' = snapshot
      /\ next \notin DOMAIN batch /\ next' \in 1 .. NumRecords + 1
      /\ records[next] = snapshot[next]
  BY DEF Visit, RecordsInv, ToolTypeOK, ImageIsCurrent, Key
<1>2. CASE ~ NeedsUpdate(snapshot[next])
  <2>1. /\ UNCHANGED <<records, batch, updated>>
        /\ missed' = missed \cup {k \in {next} : snapshot[k] = Broken}
    BY <1>2 DEF Visit
  <2>2. ASSUME NEW k, k = next PROVE k \in missed' \/ Repaired(k)'
    <3>1. snapshot[k] \in {Absent, Broken} \/ snapshot[k] \in Form
      BY <1>1, <2>2 DEF RecordsInv, ToolTypeOK, Content
    <3>2. CASE snapshot[k] = Broken
      BY <2>1, <2>2, <3>2
    <3>3. CASE snapshot[k] # Broken
      <4>1. records'[k] = snapshot[k]
        BY <1>1, <2>1, <2>2
      <4>2. snapshot[k] # Absent =>
                /\ snapshot[k] \in Form /\ snapshot[k].clean
                /\ k \in Listed => snapshot[k].named
        BY <1>2, <2>2, <3>1, <3>3 DEF NeedsUpdate
      <4> QED BY <4>1, <4>2, Zenon DEF Repaired
    <3> QED BY <3>2, <3>3
  <2>3. ToolTypeOK'
    <3>1. DOMAIN batch' \subseteq 1 .. next' - 1 /\ \A k \in DOMAIN batch' : batch'[k] \in Form
      BY <1>1, <2>1 DEF RecordsInv, ToolTypeOK
    <3>2. updated' \in 0 .. next' - 1
      BY <1>1, <2>1 DEF RecordsInv, ToolTypeOK
    <3> QED
      BY <1>1, <2>1, <3>1, <3>2 DEF RecordsInv, ToolTypeOK
  <2>4. BatchFixed' /\ ImageIsCurrent' /\ CompleteButForErrors'
    BY <1>1, <2>1
       DEF RecordsInv, BatchFixed, ImageIsCurrent, CompleteButForErrors, Fixed, ToolTypeOK, Key
  <2>5. VisitedRepaired'
    <3>1. \A k \in 1 .. next' - 1 : k = next \/ k \in 1 .. next - 1
      BY <1>1 DEF RecordsInv, ToolTypeOK
    <3>2. \A k : Repaired(k)' <=> Repaired(k)
      BY <2>1, Zenon DEF Repaired
    <3>3. missed \subseteq missed'
      BY <2>1
    <3>4. ASSUME ~ dryRun, NEW k \in 1 .. next - 1
          PROVE  k \in DOMAIN batch \/ k \in missed' \/ Repaired(k)'
      BY <1>1, <3>2, <3>3, <3>4, Zenon DEF RecordsInv, VisitedRepaired
    <3> QED
      BY <1>1, <2>1, <2>2, <3>1, <3>4, Zenon DEF VisitedRepaired
  <2> QED BY <2>3, <2>4, <2>5 DEF RecordsInv
<1>3. CASE NeedsUpdate(snapshot[next]) /\ dryRun
  <2>1. UNCHANGED <<records, batch, missed>> /\ updated' = updated + 1
    BY <1>3 DEF Visit
  <2>3. ToolTypeOK'
    BY <1>1, <2>1 DEF RecordsInv, ToolTypeOK
  <2>4. BatchFixed' /\ ImageIsCurrent' /\ VisitedRepaired' /\ CompleteButForErrors'
    BY <1>1, <1>3, <2>1
       DEF RecordsInv, BatchFixed, ImageIsCurrent, VisitedRepaired, CompleteButForErrors, Fixed,
           ToolTypeOK, Key
  <2> QED BY <2>3, <2>4 DEF RecordsInv
<1>4. CASE NeedsUpdate(snapshot[next]) /\ ~ dryRun
  <2> DEFINE b == [k \in DOMAIN batch \cup {next} |-> IF k = next THEN Fixed(k) ELSE batch[k]]
  <2>1. \/ WriteBatch(b)
        \/ batch' = b /\ UNCHANGED <<records, missed>>
    BY <1>4 DEF Visit
  <2>2. updated' = updated + 1
    BY <1>4 DEF Visit
  <2>3. DOMAIN b = DOMAIN batch \cup {next} /\ DOMAIN b \subseteq 1 .. next /\ DOMAIN b \subseteq Key
    BY <1>1 DEF RecordsInv, ToolTypeOK, Key
  <2>4. \A k \in DOMAIN b : snapshot[k] \in Form /\ b[k] = Fixed(k)
    BY <1>1, <1>4 DEF RecordsInv, BatchFixed, NeedsUpdate
  <2>5. \A k \in DOMAIN b : b[k] \in Form
    BY <2>3, <2>4, FixedIsForm DEF RecordsInv
  <2>6. CASE WriteBatch(b)
    <3> HIDE DEF b
    <3>1. /\ records' \in [Key -> Content]
          /\ missed' \subseteq Key
          /\ batch' = NoBatch
          /\ missed \subseteq missed' /\ \A k \in DOMAIN b : k \in missed' \/ Repaired(k)'
          /\ \A k \in Key \ DOMAIN b : records'[k] = records[k]
      BY <1>1, <2>3, <2>4, <2>6, BatchWritten
    <3>2. DOMAIN batch' = {}
      BY <3>1 DEF NoBatch
    <3>3. ToolTypeOK'
      BY <1>1, <2>2, <3>1, <3>2 DEF RecordsInv, ToolTypeOK
    <3>4. BatchFixed' /\ CompleteButForErrors'
      BY <1>1, <3>2 DEF BatchFixed, CompleteButForErrors
    <3>5. ImageIsCurrent'
      BY <1>1, <2>3, <3>1, <3>2 DEF RecordsInv, ImageIsCurrent, ToolTypeOK, Key
    <3>6. VisitedRepaired'
      <4> SUFFICES ASSUME ~ dryRun', NEW k \in 1 .. next' - 1, k \notin missed'
                   PROVE  Repaired(k)'
        BY DEF VisitedRepaired
      <4>1. CASE k \in DOMAIN b
        BY <3>1, <4>1
      <4>2. CASE k \notin DOMAIN b
        <5>1. k \in 1 .. next - 1 /\ k \in Key /\ k \notin DOMAIN batch
          BY <1>1, <2>3, <4>2 DEF Key, RecordsInv, ToolTypeOK
        <5>2. Repaired(k)
          BY <1>1, <3>1, <5>1 DEF RecordsInv, VisitedRepaired
        <5> QED
          BY <3>1, <4>2, <5>1, <5>2 DEF Repaired
      <4> QED BY <4>1, <4>2
    <3> QED BY <3>3, <3>4, <3>5, <3>6 DEF RecordsInv
  <2>7. CASE batch' = b /\ UNCHANGED <<records, missed>>
    <3>1. batch' = b /\ records' = records /\ missed' = missed
      BY <2>7
    <3> HIDE DEF b
    <3>2. ToolTypeOK'
      BY <1>1, <2>2, <2>3, <2>5, <3>1 DEF RecordsInv, ToolTypeOK
    <3>3. BatchFixed' /\ CompleteButForErrors'
      BY <1>1, <1>4, <2>4, <3>1 DEF BatchFixed, CompleteButForErrors, Fixed
    <3>4. ImageIsCurrent'
      BY <1>1, <2>3, <3>1 DEF RecordsInv, ImageIsCurrent, ToolTypeOK, Key
    <3>5. VisitedRepaired'
      BY <1>1, <2>3, <3>1 DEF RecordsInv, VisitedRepaired, Repaired, ToolTypeOK
    <3> QED BY <3>2, <3>3, <3>4, <3>5 DEF RecordsInv
  <2> QED BY <2>1, <2>6, <2>7
<1> QED BY <1>2, <1>3, <1>4

\* The iterator fails: the records it has not come to count as missed.
LEMMA IterErrorRecords ==
    ASSUME RecordsInv, IterError
    PROVE  RecordsInv'
<1>1. /\ at = "scan" /\ at' = "scan" /\ next \in Key /\ next' = NumRecords + 1
      /\ missed' = missed \cup next .. NumRecords
      /\ UNCHANGED <<records, dryRun, snapshot, batch, updated>>
  BY DEF IterError, RecordsInv, ToolTypeOK, Key
<1>2. ToolTypeOK'
  BY <1>1 DEF RecordsInv, ToolTypeOK, Key
<1>3. BatchFixed' /\ CompleteButForErrors'
  BY <1>1 DEF RecordsInv, BatchFixed, CompleteButForErrors, Fixed
<1>4. ImageIsCurrent'
  BY <1>1 DEF RecordsInv, ImageIsCurrent, Key
<1>5. VisitedRepaired'
  <2>1. \A k \in 1 .. next' - 1 : k \in 1 .. next - 1 \/ k \in missed'
    BY <1>1 DEF Key
  <2>2. \A k : Repaired(k)' <=> Repaired(k)
    BY <1>1, Zenon DEF Repaired
  <2> QED BY <1>1, <2>1, <2>2, Zenon DEF RecordsInv, VisitedRepaired
<1> QED BY <1>2, <1>3, <1>4, <1>5 DEF RecordsInv

LEMMA FinishRecords ==
    ASSUME RecordsInv, Finish
    PROVE  RecordsInv'
<1>1. /\ at = "scan" /\ at' = "close" /\ next = NumRecords + 1
      /\ dryRun' = dryRun /\ snapshot' = snapshot /\ next' = next /\ updated' = updated
      /\ DOMAIN batch \subseteq Key
  BY DEF Finish, RecordsInv, ToolTypeOK, Key
<1>2. BatchFixed' /\ ImageIsCurrent' /\ VisitedRepaired'
  BY <1>1 DEF BatchFixed, ImageIsCurrent, VisitedRepaired
<1>3. CASE WriteBatch(batch)
  <2>1. \A k \in DOMAIN batch : snapshot[k] \in Form /\ batch[k] = Fixed(k)
    BY <1>1 DEF RecordsInv, BatchFixed
  <2>2. /\ records' \in [Key -> Content]
        /\ missed' \subseteq Key
        /\ batch' = NoBatch
        /\ missed \subseteq missed' /\ \A k \in DOMAIN batch : k \in missed' \/ Repaired(k)'
        /\ \A k \in Key \ DOMAIN batch : records'[k] = records[k]
    BY <1>1, <1>3, <2>1, BatchWritten
  <2>3. DOMAIN batch' = {}
    BY <2>2 DEF NoBatch
  <2>4. ToolTypeOK'
    BY <1>1, <2>2, <2>3 DEF RecordsInv, ToolTypeOK
  <2>5. CompleteButForErrors'
    <3> SUFFICES ASSUME ~ dryRun', NEW k \in Key \ missed' PROVE Repaired(k)'
      BY DEF CompleteButForErrors
    <3>1. CASE k \in DOMAIN batch
      BY <2>2, <3>1
    <3>2. CASE k \notin DOMAIN batch
      <4>1. Repaired(k)
        BY <1>1, <2>2, <3>2 DEF RecordsInv, VisitedRepaired, Key, ToolTypeOK
      <4> QED
        BY <2>2, <3>2, <4>1 DEF Repaired
    <3> QED BY <3>1, <3>2
  <2> QED BY <1>2, <2>4, <2>5 DEF RecordsInv
<1>4. CASE ~ (~ dryRun /\ DOMAIN batch # {}) /\ UNCHANGED <<records, batch, missed>>
  <2>1. ToolTypeOK'
    BY <1>1, <1>4 DEF RecordsInv, ToolTypeOK
  <2>2. CompleteButForErrors'
    BY <1>1, <1>4
       DEF RecordsInv, VisitedRepaired, Repaired, CompleteButForErrors, Key, ToolTypeOK
  <2> QED BY <1>2, <2>1, <2>2 DEF RecordsInv
<1> QED BY <1>3, <1>4 DEF Finish

\* A run that begins or has ended has nothing in hand.
LEMMA EndRecords ==
    ASSUME RecordsInv, ToolEnd, records' = records
    PROVE  RecordsInv'
<1>1. /\ at' = "off" /\ dryRun' = FALSE /\ snapshot' = NoRecords /\ next' = 1
      /\ DOMAIN batch' = {} /\ updated' = 0 /\ missed' = {}
  BY DEF ToolEnd, NoBatch
<1>2. 1 \in 1 .. NumRecords + 1 /\ 0 \in 0 .. 0
  OBVIOUS
<1>3. ToolTypeOK'
  <2>1. records' \in [Key -> Content] /\ snapshot' \in [Key -> Content]
    BY <1>1 DEF RecordsInv, ToolTypeOK, NoRecords, Content
  <2>2. next' \in 1 .. NumRecords + 1 /\ updated' \in 0 .. next' - 1
    BY <1>1, <1>2
  <2> QED
    BY <1>1, <2>1, <2>2 DEF ToolTypeOK
<1>4. BatchFixed' /\ ImageIsCurrent' /\ VisitedRepaired' /\ CompleteButForErrors'
  BY <1>1 DEF BatchFixed, ImageIsCurrent, VisitedRepaired, CompleteButForErrors
<1> QED BY <1>3, <1>4 DEF RecordsInv

LEMMA RecordsInit ==
    Init => RecordsInv
<1> SUFFICES ASSUME Init PROVE RecordsInv
  OBVIOUS
<1>1. /\ at = "off" /\ dryRun = FALSE /\ snapshot = NoRecords /\ next = 1
      /\ DOMAIN batch = {} /\ updated = 0 /\ missed = {}
  BY DEF Init, NoBatch
<1>2. 1 \in 1 .. NumRecords + 1 /\ 0 \in 0 .. 0
  OBVIOUS
<1>3. records \in [Key -> Content]
  BY DEF Init
<1>4. ToolTypeOK
  <2>1. snapshot \in [Key -> Content]
    BY <1>1 DEF NoRecords, Content
  <2>2. next \in 1 .. NumRecords + 1 /\ updated \in 0 .. next - 1
    BY <1>1, <1>2
  <2> QED
    BY <1>1, <1>3, <2>1, <2>2 DEF ToolTypeOK
<1>5. BatchFixed /\ ImageIsCurrent /\ VisitedRepaired /\ CompleteButForErrors
  BY <1>1 DEF BatchFixed, ImageIsCurrent, VisitedRepaired, CompleteButForErrors
<1> QED BY <1>4, <1>5 DEF RecordsInv

LEMMA RecordsStep ==
    ServiceInv /\ RecordsInv /\ [Next]_vars => RecordsInv'
<1> SUFFICES ASSUME ServiceInv, RecordsInv, [Next]_vars PROVE RecordsInv'
  OBVIOUS
<1>1. ASSUME UNCHANGED <<records, toolVars>> PROVE RecordsInv'
  BY <1>1 DEF toolVars, RecordsInv, ToolTypeOK, BatchFixed, ImageIsCurrent, VisitedRepaired,
              CompleteButForErrors, Fixed, Repaired
<1>2. ASSUME NEW i \in Instance, NEW k \in Key, Save(i, k) PROVE RecordsInv'
  <2>1. at \notin {"scan", "close"}
    <3>1. history # Tool
      BY <1>2 DEF Save
    <3> QED BY <3>1 DEF ServiceInv, ToolHolds
  <2>2. records' \in [Key -> Content]
    BY <1>2 DEF Save, RecordsInv, ToolTypeOK, Content, Form
  <2>3. UNCHANGED <<at, dryRun, snapshot, next, batch, updated, missed>>
    BY <1>2 DEF Save
  <2>4. ToolTypeOK'
    BY <2>2, <2>3 DEF RecordsInv, ToolTypeOK
  <2>5. BatchFixed' /\ ImageIsCurrent' /\ VisitedRepaired' /\ CompleteButForErrors'
    BY <2>1, <2>3 DEF BatchFixed, ImageIsCurrent, VisitedRepaired, CompleteButForErrors
  <2> QED BY <2>4, <2>5 DEF RecordsInv
<1>3. CASE ToolStart
  <2>1. /\ at = "off" /\ at' = "open" /\ dryRun' \in BOOLEAN
        /\ UNCHANGED <<records, snapshot, next, batch, updated, missed>>
    BY <1>3 DEF ToolStart
  <2>2. ToolTypeOK'
    BY <2>1 DEF RecordsInv, ToolTypeOK
  <2>3. BatchFixed' /\ ImageIsCurrent' /\ VisitedRepaired' /\ CompleteButForErrors'
    BY <2>1 DEF BatchFixed, ImageIsCurrent, VisitedRepaired, CompleteButForErrors
  <2> QED BY <2>2, <2>3 DEF RecordsInv
<1>4. CASE ToolOpen
  <2>1. CASE ToolEnd /\ records' = records
    BY <2>1, EndRecords
  <2>2. CASE /\ at = "open" /\ at' = "scan" /\ snapshot' = records
             /\ UNCHANGED <<records, dryRun, next, batch, updated, missed>>
    <3>1. next = 1 /\ DOMAIN batch = {}
      BY <2>2 DEF RecordsInv, ToolTypeOK
    <3>2. ToolTypeOK'
      BY <2>2 DEF RecordsInv, ToolTypeOK
    <3>3. BatchFixed' /\ ImageIsCurrent' /\ VisitedRepaired' /\ CompleteButForErrors'
      BY <2>2, <3>1 DEF BatchFixed, ImageIsCurrent, VisitedRepaired, CompleteButForErrors
    <3> QED BY <3>2, <3>3 DEF RecordsInv
  <2> QED BY <1>4, <2>1, <2>2 DEF ToolOpen
<1>5. CASE Visit
  BY <1>5, VisitRecords
<1>6. CASE Finish
  BY <1>6, FinishRecords
<1>7. CASE ToolExit \/ ToolKill
  BY <1>7, EndRecords DEF ToolExit, ToolKill
<1>8. CASE UNCHANGED vars
  BY <1>1, <1>8 DEF vars
<1>9. CASE IterError
  BY <1>9, IterErrorRecords
<1> QED
  BY <1>1, <1>2, <1>3, <1>4, <1>5, <1>6, <1>7, <1>8, <1>9 DEF Next, ToolRun

LEMMA RecordsInvariant ==
    Spec => []RecordsInv
BY RecordsInit, RecordsStep, ServiceInvariant, PTL DEF Spec

\* Types.
THEOREM ServiceTypes ==
    Spec => []TypeOK
<1>1. ServiceInv /\ RecordsInv => TypeOK
  BY DEF ServiceInv, StartupInv, RecordsInv, ToolTypeOK, TypeOK
<1> QED
  BY <1>1, ServiceInvariant, RecordsInvariant, PTL

\* The records that the migration tool writes back are made from the current
\* contents of the history: while it has the lock, the program saves nothing.
THEOREM ImagesAreCurrent ==
    Spec => []ImageIsCurrent
<1>1. RecordsInv => ImageIsCurrent
  BY DEF RecordsInv
<1> QED
  BY <1>1, RecordsInvariant, PTL

\* A run of the tool leaves nothing to repair but what its log has an error
\* about (a record that cannot be parsed, a batch that is not written, the
\* records behind a failure of the iterator), whatever the size of a batch,
\* the number of records and the interrupted runs before it.
THEOREM MigrationComplete ==
    Spec => []CompleteButForErrors
<1>1. RecordsInv => CompleteButForErrors
  BY DEF RecordsInv
<1> QED
  BY <1>1, RecordsInvariant, PTL

=============================================================================
