# Verification of tg-forward-to-xx

TLA+ specifications of the program that forwards the messages of Telegram
groups to DingTalk, Feishu, Bark and HarmonyOS, with the TLC configurations
that check them and the TLAPS proofs about them. Everything is written from
the Go source; paths below are relative to `src/`.

    tlc -config MCHandler.cfg MCHandler        one run
    tlapm MessageHandlerProofs.tla             one proof module

`PROJECT.json` maps each definition to the source lines it models and lists
the runs, the hazards of the code with the properties that would catch them,
the disagreements found, and a mutant of the code for every property.

## Inventory

| Component | State | Operations | What makes it correct |
|---|---|---|---|
| Queue interface (`internal/queue/queue.go`) | factories by name | Push, Pop, Peek, Size, Close | operations are atomic; refuses everything when closed |
| Memory queue (`memory_queue.go`) | slice, mutex, closed flag | the same | first in, first out |
| LevelDB queue (`leveldb_queue.go`) | database (`msg:<index>`, `queue:index`), mutex, closed flag | the same, and opening or recovering the database | an accepted message stays until popped; order; survives a restart; one process at a time |
| Message handler (`internal/handlers/message_handler.go`) | `msgChan`, `stopChan`, `stopped`, three goroutines | receive, forward, retry pass, Stop | no message forgotten or sent again once settled; attempts bounded; every message settled |
| Process (`cmd/tgforward/main.go`, `deploy/systemd`) | - | createQueue with fallback, start, signal, Stop, exit, restart | ends without losing what was persisted; comes back after a failure |
| Message (`internal/models`) | Attempts, contents | JSON | Attempts survives the queue |
| Chat history (`internal/storage/chat_history.go`, `internal/api`) | LevelDB keyed by chat and time | save, range queries, CSV export | queries find the records of their chat and time; exports independent |
| Metrics (`internal/metrics`) | counters under an RWMutex, reporter | update, read, report, stop | no deadlock; stops once |
| Notifiers (`internal/bot`, `internal/notifier`) | none | send | no failure keeps a message from the others; no duplicates; bounded time |
| Telegram long poll (library, `message_handler.go:80-87`) | offset, update channel | get updates | no update skipped |
| S3 (`internal/storage/s3.go`) | none | upload | - |
| Configuration (`internal/config`, `config`) | two separate globals | load | defaults valid |
| Migration (`cmd/migrate`) | LevelDB of the history, a snapshot, a batch | rewrite records in batches | complete; repeatable; replaces nothing newer |

The updater goroutine puts the messages of the target chats into `msgChan`
(capacity 100) and drops them when it is full. The worker takes them out and
calls `processMessage`; when that returns an error it counts an attempt and
pushes the message into the queue. On each tick the retry goroutine takes as
many messages as the queue has, gives up those that have used their attempts,
calls `processMessage` for the others, and pushes back those that fail. main
waits for a signal and calls `Stop`, which closes `stopChan` and the queue and
joins nobody. The metrics reporter reads the size of the queue. `processMessage`
and the updater both write to the chat history, which the HTTP API reads.

The hard parts are the goroutines that Stop does not wait for, the two writes
of a Push, the Pop that deletes before the message has been sent, the order of
the keys, the pass that pops while others push, the restarts, the lock of the
counters, which the worker and the retry goroutine share with the reporter,
the calls of a try that fail one by one, the file that exports share, and the
two databases that service, other programs and migration tool compete for.

## Modules

    KeyOrder <- Queue <- MessageHandler (INSTANCE Delivery) <- MCHandler
       ^
       +-- LevelDBQueue (INSTANCE Queue) <- MCLevelDBQueue

    KeyOrderProofs <- QueueProofs (of Queue) <- MessageHandlerProofs
       ^
       +-- LevelDBQueueProofs (of LevelDBQueue)

    Metrics <- MCMetrics, MetricsProofs
    Notify <- MCNotify, NotifyProofs
    ChatHistory <- HistoryAPI <- MCHistory, HistoryProofs
    Startup <- Migrate <- MCService, ServiceProofs

Delivery and Queue are abstract specifications: MessageHandler implements the
first and uses the second, LevelDBQueue implements the second.

**KeyOrder** defines the order that `sort.Strings` gives the keys `msg:%d`, on
the indexes: numerals of the same length compare as numbers, otherwise the
shorter one is compared with the leading digits of the longer one. `Numeral` and
`LexLess` are the strings themselves and their order, with which KeyOrderProofs
compares it. The
powers of ten are a function on the exponents 0 to 19, as `^` is more than the
provers know. It also has `Put`, `Delete` and `IsFirst` on a store (a function from indexes to messages).

**Queue** is what the queue promises its clients: each operation is one atomic
step. `db` and `index` are the LevelDB contents and survive the process, `mem`
is the slice. `PushOk` is a Push that returns nil. `PushTorn` is a Push whose
second Put fails, `DieInPush` one that the end of the process interrupts
between the two Puts: both leave an *orphan*, a message at the current index,
which Pop delivers if the next Push does not overwrite it. `Open` may choose
the memory queue, as createQueue does when the database cannot be opened.
`acked` is a history variable: what LevelDB accepted and no Pop handed out.

**LevelDBQueue** is the same queue at the grain of the code: goroutines that
ask for the mutex, the Get of the index, the Put of the message, the Put of
the index, the scan and the Delete of Pop, each of which may fail, and the end
of the process anywhere. It includes the missing index of a new directory and
the `Get` at opening whose errors other than ErrNotFound are ignored.
`ImplementsQueue` is the refinement. A Push takes effect at its second Put, its
failure or the crash, so the abstract `db` is `settled`, the contents without
a store in progress; an unopened database maps to `down`.

**MessageHandler** composes the queue with the three goroutines, `msgChan`,
Stop and main. Each goroutine is a record: where it is and the message it
holds. A `select` whose other case is ready may still choose it after
`stopChan` is closed, as in Go. `phase` follows main: `run`, `stop` (stopChan
closed), `closed` (queue closed), `final` (history closed), `down`. The size of
a pass is read a second time after the tick, as in the code. `fate` and
`popped` are history variables. `fate` is `done` when `processMessage` returned
nil, `abandoned` when the attempts are used up, `ignored` for other chats;
`dropped` (msgChan full), `refused` (Push wrote nothing), `overwritten` (an
orphan replaced) and `killed` (in memory when the process ended) are losses.
A message whose Push was torn stays `live`: the code logs a failure, but it is
still in the database.

Here `processMessage` is one call with two outcomes, and takes as long as it
likes; Notify looks into it.

**Delivery** is what the handler promises for a message, without goroutines,
channel and queue: it arrives once, is tried while it is live, and ends done,
given up or lost, for good. Only a message whose tries are used up is given up,
only one never tried is dropped, only one that failed meets a queue that
refuses it. `ImplementsDelivery` is the refinement, with `fate` and `attempts`
as they are.

**Notify** is `processMessage` call by call: GetChat, DingTalk, Feishu, each
Bark key, each Harmony user, the write to the history. The worker makes the
first try of a message and the retry goroutine the others; in between it is in
the queue, here a set (MessageHandler has the real one). Each call is a state
of its own, so that the process can end and the other goroutine move in the
middle. A request may have reached its peer whatever it reports (`Request`),
as a timeout or a lost answer leaves that open. Only GetChat and the write
make a try fail. `BarkPanic` is the slice of a key that is too short. `got`,
`asked` and `unsaved` are history variables.

**ChatHistory** is the database of records and its two writers. A key is a
pair of unsigned words, as in `makeKey`: int64 is the range `-Half .. Half-1`,
and a negative chat or time is a large word. The updater saves a message when
its update arrives, under Telegram's date, a whole second; `processMessage`
saves it again under `CreatedAt`. `Build` lets the clock advance: two messages
are not built in one nanosecond. An update may arrive any number of times.
`Interrupt` is the end of the process for the writers.

**HistoryAPI** adds the HTTP requests: queries, and exports through a temporary
file. A file is an inode with rows; `files` are the names. `os.Create` empties
a file that exists, a row is written at the writer's own offset (`Over`), and a
file that has been removed lives on for those who have it open. The rows of an
export are written in one step, as the CSV writer flushes at the end; one with
more than its 4096 bytes writes in several, which `WriteError` has for the
failing case only. `Exit` is the end of the process: main waits for no request
(`main.go:231-239`), and the deferred Remove of an export does not run, so that
its file stays. `left` is a history variable: the names of the files that an
export has left because it failed or was cut off like this. A query or an
export may fail at any access, and `faulty` are the exports that did. `Rows` is the sequence that the iterator yields: the records
of the chat and interval, of the user if one is asked for, in the order of
their keys.

**Startup** is main from LoadConfig to its end, for the service and for
programs started by hand, on one configuration file. `OpenHistory` takes the
history database or ends the program. The queue's directory has a LOCK file,
which the code removes before OpenFile; goleveldb's flock is on the file and
not on the name, so `lockFile` (the name) and `queueLock` (the file an instance
has locked) are separate. A missing section is a nil pointer, which panics where
it is first used; `LogMetrics` is the last such place, after the goroutines have
started. `Refuse` is every end that systemd takes for a failure.

**Migrate** adds the tool: snapshot, batches of `BatchSize`, the last batch,
dry runs, failing writes and kills, while instances start, save records and
end. A record is known by whether it can be parsed (`Broken` cannot), has a
group name, and has readable text. `IterError` is a failing iterator: the loop
ends as if there were no more records, and the run goes on to its last batch and
its report. `missed` is a history variable: the keys that an error in the log of
the run is about.

**Metrics** is the counters behind their RWMutex, as Go implements it: a
writer that waits keeps new readers out, and an Unlock admits all readers that
have waited. The worker and the retry goroutine make the updates that follow
the two outcomes of `processMessage`; the reporter stores the size of the queue
and calls `GetMetrics`, whose own read lock and the five nested ones are steps.
An update and its Unlock are one step, as nobody can see what is in between.
`seen` is a history variable: the counters that a GetMetrics has read.

## Runs

| Run | Question | States |
|---|---|---|
| leveldb | reads stay true until the write that uses them, operations atomic, nobody waits for a mutex that nobody gives back, all of them return | 29 464 |
| handler | types, one place per message, attempts bounded, accepted messages kept and unmoved, order within a width, fates final, Delivery implemented, a pass of the memory queue takes a message once | 608 551 |
| handler_live | once no more messages arrive, every one is settled or lost in the end | 119 529 |
| metrics | types, GetMetrics returns one moment, only a nested read lock can stop the goroutines | 281 972 |
| notify | a try calls every peer or none, a peer is called again only after a failed save, every call but GetChat and DingTalk returns | 201 981 |
| history | ranges are chats and times, what is processed is found, a user query returns a message once, an answer to a query has all of its records, once and in the order of time, answers keep to their chat, an export that meets no other is right, a file is left only by a failure or the end of the process | 210 809 |
| service | one instance on the queue, fallback only by a fault of the disk, the tool replaces nothing newer and leaves nothing to repair but what its log has an error about, the service ends only for a reason and comes back | 869 721 |
| handler_pass_leveldb | *violated*: a pass takes a message once, with LevelDB | |
| handler_persist | *violated*: a persisted message outlives an orderly restart | |
| metrics_stuck | *violated*: every use of the counters returns | |
| notify_retry | *violated*: a message that is done has reached every peer | |
| history_export | *violated*: an export answers with the records it found | |

### Bounds

- Three messages (two where one is retried against another): enough for the
  updater, the worker and the retry goroutine to hold one each, for msgChan
  of capacity 1 to be full while the worker is busy, and for two messages in
  the queue while a third arrives. In `handler` one of the three is of
  another chat.
- `FirstIndex = 8`: the first three stores are at 8, 9 and 10, where the
  order of the keys changes. 8 is what eight pushes and pops of an earlier
  process leave. `leveldb` uses 0, the new directory.
- `MaxIndex` stands for the range of int64. It is 20 for the handler, which
  never reaches it: the attempts bound the pushes. `leveldb` (3) does reach
  it; there a Push that would go beyond it does not take place, and
  `CallsReturn` leaves it out.
- `MaxAttempts = 2` gives one retry and one abandonment, 3 (`handler` and
  `handler_pass_leveldb`) lets a message be sent twice in a pass if the code
  allows it.
- `MaxStarts = 2` allows one crash or Stop and one restart; the fallback can
  happen at either start.
- The runs of the handler do not look for deadlocks: a process that has been
  started `MaxStarts` times and has ended stays down. Nor do those of the
  counters, which stop when all rounds are made, and can be stuck before:
  `StuckOnlyByNesting` says how.
- `MaxCalls = 2` rounds for each of the three goroutines: two updates can
  queue up behind a GetMetrics, and a second one follow it.
- `notify`: one Bark key, short, and one Harmony user, so that each client has
  a call before and after it and the panic can happen between two others.
  Two messages keep both goroutines busy, `MaxStarts = 2` as above.
- `history`: `Half = 4` gives words of three bits, of which the chats and
  queries use all values; a second has two clock values, so that a record can
  be at a whole second and beside one; `MaxTime = 2` lets a request be made in
  either second. One message is enough, as every record of it that replaces
  another does so whatever the message, and it is written any number of times.
  Two requests share a file in every order; they are interchangeable, and the
  symmetry is sound as no property tells them apart.
- `service`: `MaxEvents = 4` counts failures, starts and stops of programs by
  hand, signals and edits of the configuration; the restarts of systemd are not
  counted. Four are a second program, the tool, and two failures. Three
  records make a full batch of two and a rest; the third is of a chat that is
  not configured. At the beginning all three need repair, or the second cannot be
  parsed, or there is one only; the program may save any of them meanwhile. The five configurations are one that suffices, three that
  end main at its three places (the example of `README.md`, without `retry`, in
  LoadConfig; without `feishu` in NewMessageHandler; without `http` where
  metrics are logged), and one in memory that suffices without `http`, as its
  metrics are disabled.
- Notify, HistoryAPI and Migrate stop when their starts, requests or events are
  used up, so that these runs do not look for deadlocks.

### Fairness

`handler_live` assumes weak fairness of the send to msgChan, of the worker and
of the retry goroutine. Go runs a goroutine that can run; the ticker fires
again and again. That a send returns is an assumption on the peers: the
Telegram and DingTalk clients have no timeout, and a peer that never answers
stops a goroutine for ever. Nothing is assumed of Telegram, the signal or
crashes. The run has no disk faults: a Pop that fails for ever settles nothing.
Weak fairness of the retry goroutine as a whole suffices although its steps
compete with the worker's for the queue, because a step on the queue is
atomic.

The run has three messages with two attempts each, so that it says what happens
once no more arrive, and nothing about arrivals without end. A pass takes as
many messages as there were when it began, in the order of the keys, and a
failed message comes back under a new key: as long as messages keep failing,
those at 10 to 89, at 100 to 899 and so on come before one at 9, which pass
after pass may leave where it is.

`leveldb` assumes strong fairness of each goroutine's step: a goroutine may
find the mutex taken again and again, and Go's mutex then goes into its
starvation mode and hands over to the one that waits.

`metrics_stuck` assumes the same strong fairness for the RWMutex, and the
goroutines are stuck all the same.

`notify` assumes weak fairness of the calls with a timeout: Feishu
(`feishu.go:166`), Bark and Harmony have ten seconds, LevelDB is local.
Nothing is assumed of GetChat and of DingTalk, and `TimedCallsReturn` says what
holds all the same.

`service` assumes weak fairness of each instance's steps, of the tool's, and
of the restart: main waits for nobody before its last line, and systemd
restarts ten seconds after a failure. Nothing is assumed of signals,
administrators and failures.

## Findings

- GetMetrics takes its read lock again in the methods it calls
  (`metrics.go:170`). When a message is counted in between, the reporter waits
  for the writer and the writer for the reporter: no message is processed or
  retried any more, the updater fills msgChan and then drops everything, and
  nothing is logged. It needs `metrics.enabled`.
- The keys are strings: `msg:10` sorts before `msg:9`
  (`leveldb_queue.go:310`), so Pop does not take the oldest message.
- Therefore a message that fails in a retry pass may be taken again by the
  same pass, and use up its attempts without the interval between retries.
- Pop deletes before the message is sent and Stop waits for nobody: an
  orderly restart loses the message under retry, against `README.md:17`.
- A message whose forwarding fails is saved, counted as processed and never
  tried again (`message_handler.go:541`), against `README.md:111`: only GetChat
  and the history can make processMessage fail.
- Two exports of one chat in one second share a file (`api/chat_history.go:151`),
  and one answers with the records of the other.

Without a run of their own, as they are one step long: a message that finds
msgChan full is dropped, against `README.md:162`; max_attempts counts the first
try, so that there is one retry fewer than `config.go:95` says; `msg:10` sorts
before `msg:9`; the configuration of `README.md:221` makes the program panic at
every start, as it has no retry and no feishu section; the tool rewrites the
records of chats that are not configured at every run, against
`docs/migrate.md:108`.

Also without a run, as what they show is an omission of the code or has no
document against it:

- A query returns all its records. `docs/API.md:78-79` and `133-134` give it a
  `limit`, 100 if it is not said, and an `offset`; the handlers read neither
  (`api/chat_history.go:26-118`). `QueriesAreComplete` says what the code does. The
  `end_time` that line 77 calls optional is required (`api/chat_history.go:47`).
- Of two messages that are sent to a chat in one second the updater keeps one
  record, as the key is the chat and the second (`storage/chat_history.go:219`).
  The records of processMessage have other times and stay (`ProcessedIsFound`).
- An orderly stop in the middle of an export leaves its temporary file, as a
  failure does; nothing but another export of that chat and second removes it
  (`LeftOnlyByFailure`).
- An export on a full disk answers 200 with the rows that were written, as
  nobody looks at the error of the Flush (`storage/chat_history.go:140`).
- When messages keep arriving and failing, a message stored at 9 may be passed
  over by pass after pass, see Fairness.
- The tool reports that the migration is complete after an error of its
  iterator, a batch that was not written or a record that it could not parse;
  only the line of the log tells (`CompleteButForErrors`).

## Proofs

TLAPS proves the following for every value of the constants (every set of
messages, bound, queue type, capacity and limit, with and without faults,
fallback and crashes) from the named assumptions of the modules, such as
`QueueAssumption` and `HandlerAssumption`, which TLC evaluates on every run.

**KeyOrderProofs.** For every index below 10^19, which an int64 is. The order
that KeyOrder computes with leading digits is the lexicographic order of the
numerals (`KeysSortLikeStrings`): numerals with a common prefix have the same
leading numbers (`SamePrefix`), and what is smaller in its first digits stays
smaller with more of them (`SmallerPrefix`). `NumeralsAreDecimal` says that the
numerals are the ones which repeated division prints. `KeysAreOrdered`: the order is
total, and `OneFirstKey`: a store that is not empty has exactly one first key,
since the keys sort by a number of their own (`Rank`, the numeral filled up with
zeros). The inductions over digits are done by the least counterexample
(`LeastNumber`).

**QueueProofs.** `QueueInv` (types, `KeysUpToIndex`, `AckedKept`) is
inductive. A Put writes at the index only, and an accepted message lies below
it, so no Put can replace one; that is why `AckedKept` says *below the index*
and not merely *stored*. From it: `AckedMessagesKept`, `IndexAboveKeys`,
`AcceptedMessagesStay` and `FirstInFirstOutWithinWidth`. `PopHasOneMessage`, with
KeyOrderProofs: while LevelDB holds a message there is one that Pop hands out,
and no choice of it, if the index stays an int64.

**MessageHandlerProofs.** `StepUsesQueue` shows that each step of the handler
is one operation of the queue or leaves it alone; with it the handler
implements `QueueSpec` (a lemma, as it only says how the model is built) and inherits `QueueInv`
(`HandlerKeepsAcked`, `HandlerIndexAboveKeys`) and the properties of its steps
(`HandlerKeepsInPlace`, `HandlerOldestFirst`), and with the handler's own types this is `TypeInv` (`TypeCorrect`).
`EveryMessageInOnePlace` is the main result: with `TypeInv`, `OnePlace` is
inductive. It needs that the stores and the channel hold no message twice
(`IsInjective`), or a receive would leave a copy behind; the lemmas on `Append`,
`Tail`, `Put` and `Delete` say what they do to the set of messages held.
`FatesAreFinal` follows: a step decides the fate only of messages it holds,
and those are live. `AttemptsAreBounded` needs more than the bound itself: a
message that has not reached the worker has no attempts, and one under retry
is below the limit because `RetryPop` looked. `HandlerImplementsDelivery` is the
refinement: every step of the handler is one of Delivery, or leaves fates and
attempts alone. It takes the converse of that last fact as well (`TriedInv`: what
waits in the queue, an orphan included, has been tried), for a push to refuse or
overwrite only what Delivery lets it. `MemoryOncePerPass` rests on `PassInv`:
what is left of a pass is at the head of the slice and new to the pass, as both
goroutines append behind it; that the slice holds no message twice
(`OnePlace`) keeps it so after a Pop.

**LevelDBQueueProofs.** For any number of goroutines. `LevelDBInv` adds to
`ReadsStayTrue` what its steps rest on: the queue is open while somebody holds
the mutex, the key that a Pop is about to delete is still the first, and the
database is the one Queue shows while no Push is between its two writes
(`Alone` has the consequence used everywhere: nobody else is inside).
`LevelDBImplementsQueue` follows: an operation takes effect at its last write
(`WriteIsOperation`), a crash between the writes of a Push is a `DieInPush`,
any other a `Die`, and every other step is invisible to the clients. With it
the theorems about Queue and MessageHandler rest on the real reads and writes.
`MutexComesBack` is the safety half of CallsReturn: whoever holds the mutex is at
a write (`HolderInside`), and when it is free each goroutine that waits may lock
it. A Pop then looks for the first key, and there is one by `OneFirstKey` as
long as the index has at most 19 digits, which is all an int64 can have.

**MetricsProofs.** The invariant `Locks` says where the read locks are: one for
a GetMetrics, one for its nested call, none for a goroutine that waits. An
update that finds no reader therefore finds no GetMetrics that has read
anything, so what it has read stays what the counters are (`Reads`), and
`MetricsOfOneMoment` follows. `OnlyNestingStops`: a goroutine that cannot move
has a writer before it, that writer a reader before it, and this reader can
only be one that waits again. Both hold for any number of reporters.

**NotifyProofs.** For any number of keys, users and messages. `NotifyInv` has
`Progress` (what a try has called is what is not left to call), `OneTry` (no
two goroutines try one message) and `Fresh` (while no save of a message has
failed, what its requests have reached is what its present try has called).
`EveryPeerOrNone` is `Progress` at the end of the list; `DuplicatesOnlyBySave`
needs `Fresh`, and that the peers of a plan are different.

**HistoryProofs.** For words of any width and any number of chats, messages and
requests. A record is under the key of its chat and time (`HistoryTypes`), and
keys compare like chats and times from 1970 on, from which `RangesAreRight`.
`SavedIsFound`: receipts have different times, as the clock moves on with each
`Build`, and an update writes at whole seconds only. `OncePerUserQuery`: what
processMessage writes has the name with an `@`, and what the updater writes for
a message has always the same time. `FilesAreRemoved`: a file
that has a name has an export under way that will remove what has this name, or
was left by one that failed or that the process did not outlive.
`QueriesFindAll`: what a query answers is the set of its records, each once, in
the order of time; the store is finite, so that the sequence in key order exists
(`RowsFacts`), and keys sort like times within a chat (`OrderOfTimes`).
`AnswersKeepToTheirChat` and `AloneIsRight` are about exports, whose files other
requests may truncate, fill and remove in between. `APIInv` says whose rows a
file can have: a file has one name for good (`OneName`), so all who write it are
of its chat (`OneChat`), and the requests that ever met under a name know it
(`Met`: two exports that share a name are marked as such); an export that met nobody has its own rows in its file (`Alone`), for
any number of requests and in every order of their steps.

**ServiceProofs.** For any number of instances, LOCK files, configurations and
events. `StartupInv` says that an instance is at the queue only while it has the
history (`Nested`), and that nobody else touches LOCK between its look at it and
OpenFile (`LockSeen`). From these `OneProcess` and
`FallbackByFault`: it is the history, opened before and closed after, that makes
the removal of LOCK harmless. `RecordsInv`, for the tool: it has the history
from its snapshot on, so that no record changes but by its own batches
(`ImagesAreCurrent`), what it has visited is repaired, in the batch, or met an
error that was logged, and so only the latter is left at its end
(`MigrationComplete`). `EndsForAReason` is the safety
half of ServiceComesBack: each way of main to its end is tied to an event, a
missing section or the history of another process; that it is not the history of
its own earlier life is `Nested`. Status 0 means a stop, as systemd does not want
a service that has ended in order (`WantedIsUp`).

Model-checked only: the liveness properties (`EventuallySettled`, `CallsReturn`,
`TimedCallsReturn`, `ServiceComesBack`), as TLAPS does not do ENABLED and fairness.
Every other property of a passing run is a theorem.

## Not modelled, and the plan

- A torn or lost write below the level of one Put: a crash here is one of the
  process, not of the machine. `RecoverFile` is taken to return what was there.
- The updates inside tgbotapi: an update that is lost there has never arrived.
  One that is delivered again is a new message for MessageHandler and Notify,
  and the same for ChatHistory.
- Contents: texts, signatures, the image links, the S3 upload; logging, flags,
  the reporter's file and its Stop.
- The metrics HTTP server, which is never created; `internal/bot/telegram.go`
  and `forwardToDingTalk`, which nobody calls.

What is left: the contents (the link that Feishu is given, the text of Harmony).
