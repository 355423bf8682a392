------------------------------- MODULE Migrate -------------------------------
(***************************************************************************)
(* The migration tool (cmd/migrate/main.go) beside the program: it opens   *)
(* the chat history, goes through a snapshot of its records, and writes    *)
(* those that lack the name of the group or have text that cannot be read  *)
(* back in batches.  It may be killed, fail to read or to write, come upon *)
(* a record that is no message, and be run again.                          *)
(*                                                                         *)
(* A record is known by whether it can be parsed, has a name, and has a    *)
(* text that is clean.                                                     *)
(***************************************************************************)
EXTENDS Startup, Sequences, Functions

CONSTANTS
    Tool,           \* the tool
    NumRecords,     \* the keys of the records are 1 .. NumRecords
    Listed,         \* keys of the chats in telegram.chat_ids
    BatchSize,      \* 1000 in the code
    OldRecords,     \* what earlier versions may have left
    Absent,         \* no record
    Broken          \* a record that cannot be parsed

Key == 1 .. NumRecords
Form == [named : BOOLEAN, clean : BOOLEAN]
Content == Form \cup {Absent, Broken}

ASSUME MigrateAssumption ==
    /\ Tool \in Other \ Instance
    /\ NumRecords \in Nat /\ Listed \subseteq Key
    /\ BatchSize \in Nat \ {0}
    /\ OldRecords \subseteq [Key -> Content]
    /\ Absent \notin Form /\ Broken \notin Form \cup {Absent}

VARIABLES
    records,    \* the contents of the history
    at,         \* where the tool is
    dryRun,     \* its flag
    snapshot,   \* what its iterator sees
    next,       \* the key it visits next
    batch,      \* the records it is going to write
    updated,    \* its counter
    missed      \* history: the keys that an error in the log of this run is about

toolVars == <<at, dryRun, snapshot, next, batch, updated, missed>>
vars == <<startupVars, records, toolVars>>

NoBatch == << >>
NoRecords == [k \in Key |-> Absent]

Init ==
    /\ StartupInit
    /\ records \in OldRecords
    /\ at = "off"
    /\ dryRun = FALSE
    /\ snapshot = NoRecords
    /\ next = 1
    /\ batch = NoBatch
    /\ updated = 0
    /\ missed = {}

-----------------------------------------------------------------------------
(* The program saves records *)

\* SaveMessage of an instance whose goroutines run.  The text is clean; the
\* title that GetChat returns may be empty.
Save(i, k) ==
    /\ pc[i] \in {"started", "run", "closed"}
    /\ history = i
    /\ \E b \in BOOLEAN :
           records' = [records EXCEPT ![k] = [named |-> b, clean |-> TRUE]]
    /\ UNCHANGED <<startupVars, at, dryRun, snapshot, next, batch, updated, missed>>

-----------------------------------------------------------------------------
(* The tool *)

OnlyHistory(h) ==
    /\ history' = h
    /\ UNCHANGED <<config, pc, loaded, lockFile, queueLock, backend, wanted, faulted>>

ToolStart ==
    /\ at = "off"
    /\ Event
    /\ at' = "open"
    /\ dryRun' \in BOOLEAN
    /\ UNCHANGED <<config, pc, loaded, history, lockFile, queueLock, backend, wanted,
                   faulted, records, snapshot, next, batch, updated, missed>>

\* Its state is gone.
ToolEnd ==
    /\ at' = "off"
    /\ dryRun' = FALSE
    /\ snapshot' = NoRecords
    /\ next' = 1
    /\ batch' = NoBatch
    /\ updated' = 0
    /\ missed' = {}

\* The sections that validateConfig looks at.
Checked == {"telegram", "dingtalk", "queue"}

\* LoadConfig with its checks, and OpenFile; errors are fatal.
ToolOpen ==
    /\ at = "open"
    /\ IF history = None /\ Checked \subseteq config.sections
       THEN /\ OnlyHistory(Tool)
            /\ at' = "scan"
            /\ snapshot' = records
            /\ UNCHANGED <<events, records, dryRun, next, batch, updated, missed>>
       ELSE /\ UNCHANGED <<startupVars, records>>
            /\ ToolEnd

NeedsUpdate(r) == r \in Form /\ (~ r.named \/ ~ r.clean)

\* groupNames has the chats of the configuration only.
Fixed(k) == [named |-> snapshot[k].named \/ k \in Listed, clean |-> TRUE]

\* db.Write and Reset: what a failing batch had is not kept.  The error is
\* logged, and the run goes on.
WriteBatch(b) ==
    /\ batch' = NoBatch
    /\ \/ /\ records' = [k \in Key |-> IF k \in DOMAIN b THEN b[k] ELSE records[k]]
          /\ UNCHANGED <<events, missed>>
       \/ /\ Event
          /\ missed' = missed \cup DOMAIN b
          /\ UNCHANGED records

\* One turn of the loop.  A record that cannot be parsed is logged and left.
Visit ==
    /\ at = "scan"
    /\ next <= NumRecords
    /\ next' = next + 1
    /\ IF ~ NeedsUpdate(snapshot[next])
       THEN /\ missed' = missed \cup {k \in {next} : snapshot[k] = Broken}
            /\ UNCHANGED <<events, records, batch, updated>>
       ELSE /\ updated' = updated + 1
            /\ IF dryRun
               THEN UNCHANGED <<events, records, batch, missed>>
               ELSE LET b == [k \in DOMAIN batch \cup {next} |->
                                 IF k = next THEN Fixed(k) ELSE batch[k]]
                    IN  IF updated' % BatchSize = 0
                        THEN WriteBatch(b)
                        ELSE batch' = b /\ UNCHANGED <<events, records, missed>>
    /\ OnlyHistory(history)
    /\ UNCHANGED <<at, dryRun, snapshot>>

\* The iterator fails: Next ends the loop, as if there were no more records.
\* The error is logged after the last batch, and the run ends as any other.
IterError ==
    /\ at = "scan"
    /\ next <= NumRecords
    /\ Event
    /\ next' = NumRecords + 1
    /\ missed' = missed \cup next .. NumRecords
    /\ OnlyHistory(history)
    /\ UNCHANGED <<records, at, dryRun, snapshot, batch, updated>>

\* Mutant: the last batch is forgotten.
FinishEarly ==
    /\ at = "scan"
    /\ next > NumRecords
    /\ at' = "close"
    /\ UNCHANGED <<startupVars, records, batch, missed, dryRun, snapshot, next, updated>>

\* The last batch.
Finish ==
    /\ at = "scan"
    /\ next > NumRecords
    /\ at' = "close"
    /\ IF ~ dryRun /\ DOMAIN batch # {}
       THEN WriteBatch(batch)
       ELSE UNCHANGED <<events, records, batch, missed>>
    /\ OnlyHistory(history)
    /\ UNCHANGED <<dryRun, snapshot, next, updated>>

ToolExit ==
    /\ at = "close"
    /\ OnlyHistory(None)
    /\ UNCHANGED <<events, records>>
    /\ ToolEnd

ToolKill ==
    /\ at # "off"
    /\ Event
    /\ OnlyHistory(IF history = Tool THEN None ELSE history)
    /\ UNCHANGED records
    /\ ToolEnd

-----------------------------------------------------------------------------

ToolRun == ToolOpen \/ Visit \/ Finish \/ ToolExit

Next ==
    \/ StartupNext /\ UNCHANGED <<records, toolVars>>
    \/ \E i \in Instance, k \in Key : Save(i, k)
    \/ ToolStart \/ ToolRun \/ IterError \/ ToolKill

Spec == Init /\ [][Next]_vars

\* The tool waits for nobody either.
Fairness == StartupFairness /\ WF_vars(ToolRun)

FairSpec == Spec /\ Fairness

-----------------------------------------------------------------------------
(* Properties *)

TypeOK ==
    /\ StartupTypeOK
    /\ records \in [Key -> Content]
    /\ at \in {"off", "open", "scan", "close"}
    /\ dryRun \in BOOLEAN
    /\ snapshot \in [Key -> Content]
    /\ next \in 1 .. NumRecords + 1
    /\ DOMAIN batch \subseteq 1 .. next - 1
    /\ \A k \in DOMAIN batch : batch[k] \in Form
    /\ updated \in 0 .. NumRecords
    /\ missed \subseteq Key

\* What the tool is going to write back is made from the current contents: no
\* record changes between the snapshot and its batch, so that none that the
\* program saves is replaced by an older one.
ImageIsCurrent ==
    at = "scan" =>
        \A k \in Key : k >= next \/ k \in DOMAIN batch => records[k] = snapshot[k]

\* A record that is there can be read back, and has the name of its chat if
\* the configuration knows it.
Repaired(k) ==
    records[k] # Absent =>
        records[k] \in Form /\ records[k].clean /\ (k \in Listed => records[k].named)

\* A run that comes to its end has repaired every record but those its log has
\* an error about (docs/migrate.md:106): the ones that cannot be parsed, those
\* of a batch that was not written, and all from where the iterator failed.
\* Whatever runs before it were interrupted (line 107), and whatever the
\* number of records is against the size of a batch.
CompleteButForErrors ==
    at = "close" /\ ~ dryRun => \A k \in Key \ missed : Repaired(k)

\* The service comes back after every failure: it runs, or it is not wanted,
\* or its configuration lacks a section, or a program started by hand has the
\* history.
Sufficient(c) ==
    {"telegram", "dingtalk", "queue", "log", "retry", "feishu", "metrics"} \subseteq c.sections
        /\ (c.metrics => "http" \in c.sections)

ServiceComesBack ==
    []<>(\/ pc[Service] = "run"
         \/ ~ wanted
         \/ ~ Sufficient(config)
         \/ history \in Instance \ {Service})

\* What the service starts with, from LoadConfig on.
StartsWith == IF pc[Service] = "load" THEN config ELSE loaded[Service]

ServiceDown == pc'[Service] # pc[Service] /\ pc'[Service] \in {"off", "failed"}

\* The service ends for a reason: with status 0 only when systemd or a signal
\* stopped it, and with a failure only when something happened to it, a section
\* of its configuration is missing, or another process has the history.  No
\* state that earlier starts and ends left behind (the LOCK file, a queue, a
\* configuration edited since) makes it fail again and again.
DownForAReason ==
    [][ServiceDown =>
          \/ pc'[Service] = "off" /\ ~ wanted'
          \/ /\ pc'[Service] = "failed"
             /\ \/ events' # events
                \/ ~ Sufficient(StartsWith)
                \/ history \notin {None, Service}]_vars

=============================================================================
