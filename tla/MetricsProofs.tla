--------------------------- MODULE MetricsProofs ---------------------------
(***************************************************************************)
(* Proofs about the counters, for any number of reporters: what GetMetrics *)
(* returns is of one moment, and the only way to get stuck is a GetMetrics *)
(* that waits for its own read lock.                                       *)
(***************************************************************************)
EXTENDS Metrics, TLAPS

-----------------------------------------------------------------------------
(* Types *)

\* A goroutine that updates has an update left to make, and reads nothing.
Busy == \A g \in Goroutine : pc[g] \in {"update", "lock"} => todo[g] # << >>

\* Only a reporter reads.
ReportersRead ==
    \A g \in Goroutine : pc[g] \in {"get", "read", "nested"} => g \in Reporter

\* Where the read locks are: one for a GetMetrics, one for its nested call, a
\* goroutine that waits not counted; and no goroutine waits without a writer.
Locks ==
    /\ \A g \in Goroutine :
          holds[g] = IF pc[g] = "read" THEN IF g \in waiting THEN 0 ELSE 1
                     ELSE IF pc[g] = "nested" THEN IF g \in waiting THEN 1 ELSE 2
                     ELSE 0
    /\ \A g \in waiting : pc[g] \in {"read", "nested"}
    /\ \A g \in Goroutine : pc[g] = "lock" <=> writer = g
    /\ waiting # {} => writer # NoOne

\* What a GetMetrics has read so far is what the counters are now, and it has
\* read nothing while it waits for its first lock.
Reads ==
    \A g \in Goroutine :
        /\ pc[g] \in {"read", "nested"} => seen[g] \subseteq {counters}
        /\ pc[g] = "read" /\ g \in waiting => seen[g] = {}

\* The inductive invariant.
MetricsInv == TypeOK /\ Busy /\ ReportersRead /\ Locks /\ Reads /\ OneSnapshot

\* The invariant holds at the start.
LEMMA InitMetricsInv == Init => MetricsInv
  BY MetricsAssumption
  DEF Init, MetricsInv, TypeOK, Busy, ReportersRead, Locks, Reads, OneSnapshot,
      Goroutine, Field, NestedCalls

\* The updates of a round are fields.
LEMMA RoundTypes ==
  ASSUME NEW g \in Goroutine, NEW round \in Rounds(g)
  PROVE  round \in Seq(Field) /\ round # << >>
  <1>1. /\ <<"processed", "latency">> \in Seq(Field)
        /\ <<"latency">> \in Seq(Field)
    BY DEF Field
  <1>2. /\ <<"failed", "retryCount", "latency">> \in Seq(Field)
        /\ <<"retried", "retryCount", "latency">> \in Seq(Field)
    BY DEF Field
  <1>3. \/ round = <<"processed", "latency">>
        \/ round = <<"latency">>
        \/ round = <<"failed", "retryCount", "latency">>
        \/ round = <<"retried", "retryCount", "latency">>
    BY DEF Rounds
  <1>4. /\ <<"processed", "latency">> # << >> /\ <<"latency">> # << >>
        /\ <<"failed", "retryCount", "latency">> # << >>
        /\ <<"retried", "retryCount", "latency">> # << >>
    OBVIOUS
  <1> QED  BY <1>1, <1>2, <1>3, <1>4

\* Taking the read lock, or waiting for it.
LEMMA RLockTypes ==
  ASSUME MetricsInv, NEW g \in Reporter, holds[g] < 2, RLock(g)
  PROVE  /\ holds' \in [Goroutine -> 0 .. 2]
         /\ waiting' \subseteq Reporter
  <1>1. /\ holds \in [Goroutine -> 0 .. 2] /\ waiting \subseteq Reporter
        /\ g \in Goroutine
    BY DEF MetricsInv, TypeOK, Goroutine
  <1> QED  BY <1>1 DEF RLock

-----------------------------------------------------------------------------
(* The steps *)

\* The beginning of a round.
LEMMA BeginKeepsInv ==
  ASSUME MetricsInv, NEW g \in Goroutine, Processed(g) \/ Collect(g)
  PROVE  MetricsInv'
  <1> USE DEF MetricsInv
  <1>1. /\ pc[g] = "idle" /\ calls[g] < MaxCalls
        /\ pc' = [pc EXCEPT ![g] = "update"]
        /\ calls' = [calls EXCEPT ![g] = @ + 1]
        /\ UNCHANGED <<counters, writer, holds, waiting, nested, seen>>
    BY DEF Processed, Collect
  <1>2. PICK round \in Seq(Field) : round # << >> /\ todo' = [todo EXCEPT ![g] = round]
    <2>1. CASE Processed(g)
      BY <2>1, RoundTypes DEF Processed
    <2>2. CASE Collect(g)
      <3>1. <<"size">> \in Seq(Field) /\ <<"size">> # << >>
        BY DEF Field
      <3> QED  BY <2>2, <3>1 DEF Collect
    <2> QED  BY <2>1, <2>2
  <1>3. TypeOK'
    BY <1>1, <1>2, MetricsAssumption DEF TypeOK
  <1>4. Busy' /\ ReportersRead'
    BY <1>1, <1>2 DEF TypeOK, Busy, ReportersRead
  <1>5. Locks' /\ Reads' /\ OneSnapshot'
    BY <1>1 DEF TypeOK, Locks, Reads, OneSnapshot
  <1> QED  BY <1>3, <1>4, <1>5

\* A writer announces itself.
LEMMA LockKeepsInv ==
  ASSUME MetricsInv, NEW g \in Goroutine, Lock(g)
  PROVE  MetricsInv'
  <1> USE DEF MetricsInv, Lock
  <1>1. TypeOK'
    BY DEF TypeOK
  <1>2. Busy' /\ ReportersRead'
    BY DEF TypeOK, Busy, ReportersRead
  <1>3. Locks'
    BY MetricsAssumption DEF TypeOK, Locks
  <1>4. Reads' /\ OneSnapshot'
    BY DEF TypeOK, Reads, OneSnapshot
  <1> QED  BY <1>1, <1>2, <1>3, <1>4

\* An update finds no reader inside GetMetrics but those that have read
\* nothing yet, and admits them.
LEMMA UpdateKeepsInv ==
  ASSUME MetricsInv, NEW g \in Goroutine, Update(g)
  PROVE  MetricsInv'
  <1> USE DEF MetricsInv
  <1>1. /\ pc[g] = "lock" /\ writer = g /\ todo[g] \in Seq(Field) /\ todo[g] # << >>
        /\ \A h \in Goroutine : holds[h] = 0
    BY DEF Update, NoReaders, Locks, TypeOK, Busy
  <1>2. /\ Head(todo[g]) \in Field /\ Tail(todo[g]) \in Seq(Field)
        /\ Len(todo[g]) > 1 => Tail(todo[g]) # << >>
    BY <1>1
  <1>3. /\ writer' = NoOne /\ waiting' = {}
        /\ holds' = [h \in Goroutine |-> IF h \in waiting THEN holds[h] + 1 ELSE holds[h]]
        /\ todo' = [todo EXCEPT ![g] = Tail(@)]
        /\ pc' = [pc EXCEPT ![g] = AfterUpdate(g)]
        /\ UNCHANGED <<nested, seen, calls>>
    BY DEF Update, Unlock
  <1>4. counters' \in [Field -> Nat]
    BY <1>2, MetricsAssumption DEF Update, TypeOK
  <1>5. \A h \in Goroutine : holds'[h] = IF h \in waiting THEN 1 ELSE 0
    BY <1>1, <1>3
  <1>6. /\ AfterUpdate(g) \in {"update", "idle", "get"}
        /\ AfterUpdate(g) = "update" => Len(todo[g]) > 1
        /\ AfterUpdate(g) = "get" => g \in Reporter
    BY DEF AfterUpdate
  <1>7. TypeOK'
    <2>1. holds' \in [Goroutine -> 0 .. 2]
      BY <1>3, <1>5
    <2> QED  BY <1>2, <1>3, <1>4, <1>6, <2>1 DEF TypeOK
  <1>8. Busy' /\ ReportersRead'
    BY <1>1, <1>2, <1>3, <1>6 DEF TypeOK, Busy, ReportersRead
  <1>9. \A h \in Goroutine : /\ pc[h] # "nested"
                             /\ pc[h] = "read" <=> h \in waiting
    BY <1>1 DEF Locks, TypeOK
  <1>10. Locks'
    <2>1. \A h \in Goroutine : h # g => pc'[h] = pc[h]
      BY <1>3 DEF TypeOK
    <2>2. pc'[g] \in {"update", "idle", "get"} /\ g \notin waiting
      BY <1>1, <1>3, <1>6, <1>9 DEF TypeOK
    <2> QED  BY <1>1, <1>3, <1>5, <1>9, <2>1, <2>2, MetricsAssumption DEF Locks
  <1>11. Reads' /\ OneSnapshot'
    BY <1>3, <1>6, <1>9 DEF TypeOK, Reads, OneSnapshot
  <1> QED  BY <1>7, <1>8, <1>10, <1>11

\* GetMetrics begins.
LEMMA GetMetricsKeepsInv ==
  ASSUME MetricsInv, NEW g \in Goroutine, GetMetrics(g)
  PROVE  MetricsInv'
  <1> USE DEF MetricsInv, GetMetrics
  <1>1. g \in Reporter /\ holds[g] = 0 /\ g \notin waiting
    BY DEF ReportersRead, Locks
  <1>2. holds' \in [Goroutine -> 0 .. 2] /\ waiting' \subseteq Reporter
    BY <1>1, RLockTypes
  <1>3. TypeOK'
    <2>1. /\ pc' \in [Goroutine -> {"idle", "update", "lock", "get", "read", "nested"}]
          /\ seen' \in [Goroutine -> SUBSET [Field -> Nat]]
      BY DEF TypeOK
    <2>2. nested' \in [Goroutine -> 0 .. NestedCalls]
      BY DEF TypeOK, NestedCalls
    <2> QED  BY <1>2, <2>1, <2>2 DEF TypeOK
  <1>4. Busy' /\ ReportersRead'
    BY <1>1 DEF TypeOK, Busy, ReportersRead
  <1>5. Locks'
    BY <1>1 DEF TypeOK, Locks, RLock, Goroutine
  <1>6. Reads' /\ OneSnapshot'
    BY DEF TypeOK, Reads, OneSnapshot, RLock
  <1> QED  BY <1>3, <1>4, <1>5, <1>6

\* A nested call takes the read lock again, or waits for it.
LEMMA CallNestedKeepsInv ==
  ASSUME MetricsInv, NEW g \in Goroutine, CallNested(g)
  PROVE  MetricsInv'
  <1> USE DEF MetricsInv, CallNested
  <1>1. g \in Reporter /\ holds[g] = 1 /\ g \notin waiting
    BY DEF ReportersRead, Locks
  <1>2. holds' \in [Goroutine -> 0 .. 2] /\ waiting' \subseteq Reporter
    BY <1>1, RLockTypes
  <1>3. TypeOK'
    <2>1. pc' \in [Goroutine -> {"idle", "update", "lock", "get", "read", "nested"}]
      BY DEF TypeOK
    <2>2. nested' \in [Goroutine -> 0 .. NestedCalls]
      BY DEF TypeOK, NestedCalls
    <2> QED  BY <1>2, <2>1, <2>2 DEF TypeOK
  <1>4. Busy' /\ ReportersRead'
    BY <1>1 DEF TypeOK, Busy, ReportersRead
  <1>5. Locks'
    BY <1>1 DEF TypeOK, Locks, RLock, Goroutine
  <1>6. Reads' /\ OneSnapshot'
    BY DEF TypeOK, Reads, OneSnapshot, RLock
  <1> QED  BY <1>3, <1>4, <1>5, <1>6

\* A nested call, or GetMetrics itself, reads and returns.
LEMMA ReturnKeepsInv ==
  ASSUME MetricsInv, NEW g \in Goroutine, ReturnNested(g) \/ ReturnMetrics(g)
  PROVE  MetricsInv'
  <1> USE DEF MetricsInv
  <1>1. /\ pc[g] \in {"read", "nested"} /\ g \notin waiting /\ g \in Reporter
        /\ holds[g] = IF pc[g] = "nested" THEN 2 ELSE 1
        /\ pc' = [pc EXCEPT ![g] = IF pc[g] = "nested" THEN "read" ELSE "idle"]
        /\ holds' = [holds EXCEPT ![g] = @ - 1]
        /\ seen' = [seen EXCEPT ![g] = @ \cup {counters}]
        /\ UNCHANGED <<counters, writer, waiting, todo, nested, calls>>
    BY DEF ReturnNested, ReturnMetrics, RUnlock, Locks, ReportersRead
  <1>2. TypeOK'
    BY <1>1 DEF TypeOK
  <1>3. Busy' /\ ReportersRead'
    BY <1>1 DEF TypeOK, Busy, ReportersRead
  <1>4. Locks'
    BY <1>1 DEF TypeOK, Locks
  <1>5. Reads' /\ OneSnapshot'
    BY <1>1 DEF TypeOK, Reads, OneSnapshot
  <1> QED  BY <1>2, <1>3, <1>4, <1>5

\* Every step keeps the invariant.
LEMMA NextMetricsInv == MetricsInv /\ [Next]_vars => MetricsInv'
  <1> SUFFICES ASSUME MetricsInv, [Next]_vars
               PROVE  MetricsInv'
    OBVIOUS
  <1>1. CASE UNCHANGED vars
    BY <1>1 DEF vars, MetricsInv, TypeOK, Busy, ReportersRead, Locks, Reads, OneSnapshot
  <1>2. ASSUME NEW g \in Goroutine, Processed(g) \/ Collect(g)
        PROVE  MetricsInv'
    BY <1>2, BeginKeepsInv
  <1>3. ASSUME NEW g \in Goroutine, Step(g)
        PROVE  MetricsInv'
    BY <1>3, LockKeepsInv, UpdateKeepsInv, GetMetricsKeepsInv, CallNestedKeepsInv,
       ReturnKeepsInv DEF Step
  <1> QED  BY <1>1, <1>2, <1>3 DEF Next

\* The invariant in every reachable state.
LEMMA MetricsInvariant == Spec => []MetricsInv
  BY InitMetricsInv, NextMetricsInv, PTL DEF Spec

-----------------------------------------------------------------------------

\* Type correctness of the counters and their lock (metrics.go).
THEOREM MetricsTypes == Spec => []TypeOK
  <1>1. MetricsInv => TypeOK
    BY DEF MetricsInv
  <1> QED  BY <1>1, MetricsInvariant, PTL

\* What GetMetrics returns has been read at one moment, however many updates
\* and other reporters there are: the outer read lock makes it so.
THEOREM MetricsOfOneMoment == Spec => []OneSnapshot
  <1>1. MetricsInv => OneSnapshot
    BY DEF MetricsInv
  <1> QED  BY <1>1, MetricsInvariant, PTL

\* If the goroutines are stuck, one of them is a GetMetrics that waits for the
\* read lock it holds, behind a writer that waits for it.
THEOREM OnlyNestingStops == Spec => []StuckOnlyByNesting
  <1>1. MetricsInv => StuckOnlyByNesting
    <2> SUFFICES ASSUME MetricsInv, NEW g \in Goroutine, pc[g] # "idle",
                        ~ SomeoneMoves
                 PROVE  WaitsForItself
      BY DEF StuckOnlyByNesting
    <2>1. writer # NoOne
      <3>1. CASE pc[g] = "update"
        BY <3>1 DEF SomeoneMoves
      <3>2. CASE pc[g] = "lock"
        BY <3>2, MetricsAssumption DEF MetricsInv, Locks
      <3>3. CASE pc[g] \in {"get", "read", "nested"}
        BY <3>3 DEF SomeoneMoves, MetricsInv, Locks
      <3> QED  BY <3>1, <3>2, <3>3 DEF MetricsInv, TypeOK
    <2>2. writer \in Goroutine /\ pc[writer] = "lock"
      BY <2>1 DEF MetricsInv, TypeOK, Locks
    <2>3. PICK r \in Goroutine : holds[r] # 0
      BY <2>2 DEF SomeoneMoves, NoReaders
    <2>4. pc[r] \in {"read", "nested"} /\ holds[r] > 0
      BY <2>3 DEF MetricsInv, TypeOK, Locks
    <2>5. r \in waiting
      BY <2>4 DEF SomeoneMoves
    <2> QED  BY <2>1, <2>4, <2>5 DEF WaitsForItself
  <1> QED  BY <1>1, MetricsInvariant, PTL

=============================================================================
