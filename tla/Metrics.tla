------------------------------ MODULE Metrics ------------------------------
(***************************************************************************)
(* The counters of the program (internal/metrics/metrics.go) and the       *)
(* goroutines that use them: the worker and the retry goroutine count the  *)
(* messages they have processed (message_handler.go:155-165, 514-523), the *)
(* reporter stores the size of the queue and reads everything with         *)
(* GetMetrics (reporter.go:86-108).                                        *)
(*                                                                         *)
(* The counters are behind a sync.RWMutex.  A Lock announces itself, which *)
(* stops new readers, and waits until the present readers have left; an    *)
(* Unlock admits every reader that has been waiting.  GetMetrics holds the *)
(* read lock and calls five methods that take it again.                    *)
(***************************************************************************)
EXTENDS Naturals, Sequences

CONSTANTS
    Worker, Retry,  \* the goroutines that process messages
    Reporter,       \* the goroutines that collect and report
    NoOne,          \* no writer
    Sizes,          \* the sizes the queue may have
    MaxCalls        \* bound on the rounds of a goroutine, in place of int64

Goroutine == {Worker, Retry} \cup Reporter

ASSUME MetricsAssumption ==
    /\ Worker # Retry
    /\ Worker \notin Reporter /\ Retry \notin Reporter
    /\ NoOne \notin Goroutine
    /\ Sizes \subseteq Nat /\ Sizes # {}
    /\ MaxCalls \in Nat

VARIABLES
    counters,   \* the fields of QueueMetrics
    writer,     \* the goroutine that has announced a Lock, or NoOne
    holds,      \* per goroutine: how many read locks it holds
    waiting,    \* the goroutines whose RLock waits for the writer
    pc,         \* per goroutine: where it is
    todo,       \* per goroutine: the updates it still has to make
    nested,     \* per goroutine: the nested calls GetMetrics still has to make
    seen,       \* history: the counters that the current GetMetrics has read
    calls       \* per goroutine: its rounds so far

vars == <<counters, writer, holds, waiting, pc, todo, nested, seen, calls>>

Field == {"processed", "failed", "retried", "retryCount", "latency", "size"}

\* GetAverageLatency, GetThroughput, GetSuccessRate, GetAverageRetryCount and
\* GetQueuePressure.
NestedCalls == 5

\* The updates after a processMessage that succeeded, and after one that did
\* not: the worker counts the failure only if its Push succeeded.
Rounds(g) ==
    {<<"processed", "latency">>} \cup
    (IF g = Worker
     THEN {<<"failed", "retryCount", "latency">>, <<"latency">>}
     ELSE {<<"retried", "retryCount", "latency">>})

Init ==
    /\ counters = [f \in Field |-> 0]
    /\ writer = NoOne
    /\ holds = [g \in Goroutine |-> 0]
    /\ waiting = {}
    /\ pc = [g \in Goroutine |-> "idle"]
    /\ todo = [g \in Goroutine |-> << >>]
    /\ nested = [g \in Goroutine |-> 0]
    /\ seen = [g \in Goroutine |-> {}]
    /\ calls = [g \in Goroutine |-> 0]

TypeOK ==
    /\ counters \in [Field -> Nat]
    /\ writer \in Goroutine \cup {NoOne}
    /\ holds \in [Goroutine -> 0 .. 2]
    /\ waiting \subseteq Reporter
    /\ pc \in [Goroutine -> {"idle", "update", "lock", "get", "read", "nested"}]
    /\ todo \in [Goroutine -> Seq(Field)]
    /\ nested \in [Goroutine -> 0 .. NestedCalls]
    /\ seen \in [Goroutine -> SUBSET [Field -> Nat]]
    /\ calls \in [Goroutine -> 0 .. MaxCalls]

-----------------------------------------------------------------------------
(* The lock *)

NoReaders == \A g \in Goroutine : holds[g] = 0

RLock(g) ==
    IF writer = NoOne
    THEN /\ holds' = [holds EXCEPT ![g] = @ + 1]
         /\ UNCHANGED waiting
    ELSE /\ waiting' = waiting \cup {g}
         /\ UNCHANGED holds

RUnlock(g) == holds' = [holds EXCEPT ![g] = @ - 1]

\* Unlock: the readers that have been waiting hold the lock now.
Unlock ==
    /\ writer' = NoOne
    /\ holds' = [g \in Goroutine |->
                    IF g \in waiting THEN holds[g] + 1 ELSE holds[g]]
    /\ waiting' = {}

-----------------------------------------------------------------------------
(* Updates *)

\* A processMessage of the worker or the retry goroutine has returned.
Processed(g) ==
    /\ g \in {Worker, Retry}
    /\ pc[g] = "idle" /\ calls[g] < MaxCalls
    /\ \E round \in Rounds(g) : todo' = [todo EXCEPT ![g] = round]
    /\ pc' = [pc EXCEPT ![g] = "update"]
    /\ calls' = [calls EXCEPT ![g] = @ + 1]
    /\ UNCHANGED <<counters, writer, holds, waiting, nested, seen>>

\* The reporter's tick: it has read the size of the queue.  When Size returns
\* an error, nothing happens.
Collect(g) ==
    /\ g \in Reporter
    /\ pc[g] = "idle" /\ calls[g] < MaxCalls
    /\ todo' = [todo EXCEPT ![g] = <<"size">>]
    /\ pc' = [pc EXCEPT ![g] = "update"]
    /\ calls' = [calls EXCEPT ![g] = @ + 1]
    /\ UNCHANGED <<counters, writer, holds, waiting, nested, seen>>

\* Lock announces the writer.
Lock(g) ==
    /\ pc[g] = "update"
    /\ writer = NoOne
    /\ writer' = g
    /\ pc' = [pc EXCEPT ![g] = "lock"]
    /\ UNCHANGED <<counters, holds, waiting, todo, nested, seen, calls>>

\* Where g goes when an update has been made.
AfterUpdate(g) ==
    IF Len(todo[g]) > 1 THEN "update" ELSE IF g \in Reporter THEN "get" ELSE "idle"

\* Mutant: the update does not wait for the readers.
UpdateAmongReaders(g) ==
    /\ pc[g] = "lock"
    /\ \E n \in IF Head(todo[g]) = "size" THEN Sizes
                ELSE {counters[Head(todo[g])] + 1} :
           counters' = [counters EXCEPT ![Head(todo[g])] = n]
    /\ Unlock
    /\ todo' = [todo EXCEPT ![g] = Tail(@)]
    /\ pc' = [pc EXCEPT ![g] = AfterUpdate(g)]
    /\ UNCHANGED <<nested, seen, calls>>

\* Mutant: an update that returns with the lock.
UpdateLocked(g) ==
    /\ pc[g] = "lock"
    /\ NoReaders
    /\ \E n \in IF Head(todo[g]) = "size" THEN Sizes
                ELSE {counters[Head(todo[g])] + 1} :
           counters' = [counters EXCEPT ![Head(todo[g])] = n]
    /\ todo' = [todo EXCEPT ![g] = Tail(@)]
    /\ pc' = [pc EXCEPT ![g] = AfterUpdate(g)]
    /\ UNCHANGED <<writer, holds, waiting, nested, seen, calls>>

\* Lock returns; the update and the deferred Unlock.  Nobody can tell when in
\* between the counters change.
Update(g) ==
    /\ pc[g] = "lock"
    /\ NoReaders
    /\ \E n \in IF Head(todo[g]) = "size" THEN Sizes
                ELSE {counters[Head(todo[g])] + 1} :
           counters' = [counters EXCEPT ![Head(todo[g])] = n]
    /\ Unlock
    /\ todo' = [todo EXCEPT ![g] = Tail(@)]
    /\ pc' = [pc EXCEPT ![g] = AfterUpdate(g)]
    /\ UNCHANGED <<nested, seen, calls>>

-----------------------------------------------------------------------------
(* GetMetrics *)

GetMetrics(g) ==
    /\ pc[g] = "get"
    /\ RLock(g)
    /\ pc' = [pc EXCEPT ![g] = "read"]
    /\ nested' = [nested EXCEPT ![g] = NestedCalls]
    /\ seen' = [seen EXCEPT ![g] = {}]
    /\ UNCHANGED <<counters, writer, todo, calls>>

\* One of the five methods takes the read lock again.
CallNested(g) ==
    /\ pc[g] = "read" /\ g \notin waiting
    /\ nested[g] > 0
    /\ RLock(g)
    /\ pc' = [pc EXCEPT ![g] = "nested"]
    /\ nested' = [nested EXCEPT ![g] = @ - 1]
    /\ UNCHANGED <<counters, writer, todo, seen, calls>>

\* Mutant: a nested method returns without its RUnlock.
ReturnNestedLocked(g) ==
    /\ pc[g] = "nested" /\ g \notin waiting
    /\ seen' = [seen EXCEPT ![g] = @ \cup {counters}]
    /\ pc' = [pc EXCEPT ![g] = "read"]
    /\ UNCHANGED <<counters, writer, holds, waiting, todo, nested, calls>>

\* It reads its counters, and its deferred RUnlock.
ReturnNested(g) ==
    /\ pc[g] = "nested" /\ g \notin waiting
    /\ seen' = [seen EXCEPT ![g] = @ \cup {counters}]
    /\ RUnlock(g)
    /\ pc' = [pc EXCEPT ![g] = "read"]
    /\ UNCHANGED <<counters, writer, waiting, todo, nested, calls>>

\* The other counters, and the deferred RUnlock of GetMetrics.
ReturnMetrics(g) ==
    /\ pc[g] = "read" /\ g \notin waiting
    /\ nested[g] = 0
    /\ seen' = [seen EXCEPT ![g] = @ \cup {counters}]
    /\ RUnlock(g)
    /\ pc' = [pc EXCEPT ![g] = "idle"]
    /\ UNCHANGED <<counters, writer, waiting, todo, nested, calls>>

-----------------------------------------------------------------------------

\* The steps of a call that has begun.
Step(g) ==
    \/ Lock(g) \/ Update(g)
    \/ GetMetrics(g) \/ CallNested(g) \/ ReturnNested(g) \/ ReturnMetrics(g)

Next == \E g \in Goroutine : Processed(g) \/ Collect(g) \/ Step(g)

Spec == Init /\ [][Next]_vars

\* A goroutine that can go on does, and one that asks for the lock again and
\* again found taken gets it in the end, as Go's mutex sees to.
Fairness == \A g \in Goroutine : SF_vars(Step(g))

FairSpec == Spec /\ Fairness

-----------------------------------------------------------------------------
(* Properties *)

\* All that GetMetrics returns has been read from the counters of one moment,
\* the rates as well as the counts they are computed from.
OneSnapshot == \A g \in Goroutine : \A a, b \in seen[g] : a = b

\* Some goroutine in a call can take a step.
SomeoneMoves ==
    \E g \in Goroutine :
        \/ pc[g] = "update" /\ writer = NoOne
        \/ pc[g] = "lock" /\ NoReaders
        \/ pc[g] \in {"get", "read", "nested"} /\ g \notin waiting

\* A goroutine that holds the read lock, waits for it again behind a writer,
\* and keeps the writer from getting its own.
WaitsForItself == \E g \in waiting : holds[g] > 0 /\ writer # NoOne

\* The goroutines that use the counters are stuck only when a GetMetrics waits
\* for itself: nothing else about the lock can stop the program.
StuckOnlyByNesting ==
    (\E g \in Goroutine : pc[g] # "idle") => SomeoneMoves \/ WaitsForItself

\* GetMetrics gets all counters (metrics.go:164): every use of the counters
\* returns.
UsesReturn == \A g \in Goroutine : pc[g] # "idle" ~> pc[g] = "idle"

=============================================================================
