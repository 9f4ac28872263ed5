------------------------- MODULE AsyncRunnerProofs -------------------------
(***************************************************************************)
(* Proofs about AsyncRunner, for any number of producers, workers and      *)
(* closers, any queue size and any number of submit() calls.               *)
(***************************************************************************)
EXTENDS AsyncRunner, FiniteSetTheorems, TLAPS

(* What put_nowait and get do to the contents of a queue.                  *)

\* Appending e adds e to the contents.
LEMMA AppendContents ==
    ASSUME NEW q \in Seq(Nat), NEW e \in Nat
    PROVE  /\ Append(q, e) \in Seq(Nat)
           /\ Len(Append(q, e)) = Len(q) + 1
           /\ Contents(Append(q, e)) = Contents(q) \cup {e}
<1>1. /\ Append(q, e) \in Seq(Nat)
      /\ Len(Append(q, e)) = Len(q) + 1
      /\ DOMAIN q = 1..Len(q)
      /\ DOMAIN Append(q, e) = 1..(Len(q) + 1)
      /\ Len(q) \in Nat
  OBVIOUS
<1>2. /\ \A k \in 1..Len(q) : Append(q, e)[k] = q[k]
      /\ Append(q, e)[Len(q) + 1] = e
  OBVIOUS
<1>3. Contents(Append(q, e)) \subseteq Contents(q) \cup {e}
  <2> SUFFICES ASSUME NEW k \in 1..(Len(q) + 1)
               PROVE  Append(q, e)[k] \in Contents(q) \cup {e}
    BY <1>1 DEF Contents
  <2>1. CASE k \in 1..Len(q)
    BY <2>1, <1>1, <1>2 DEF Contents
  <2>2. CASE k = Len(q) + 1
    BY <2>2, <1>2
  <2>3. QED
    BY <2>1, <2>2, <1>1
<1>4. Contents(q) \subseteq Contents(Append(q, e))
  BY <1>1, <1>2 DEF Contents
<1>5. e \in Contents(Append(q, e))
  BY <1>1, <1>2 DEF Contents
<1>6. QED
  BY <1>1, <1>3, <1>4, <1>5

\* Appending an entry that is a sentinel or is new keeps callables unique.
LEMMA AppendEachOnce ==
    ASSUME NEW q \in Seq(Nat), NEW e \in Nat, EachOnce(q),
           e = STOP \/ e \notin Contents(q)
    PROVE  EachOnce(Append(q, e))
<1>1. /\ DOMAIN q = 1..Len(q)
      /\ DOMAIN Append(q, e) = 1..(Len(q) + 1)
      /\ Len(q) \in Nat
      /\ \A k \in 1..Len(q) : Append(q, e)[k] = q[k]
      /\ Append(q, e)[Len(q) + 1] = e
  OBVIOUS
<1> SUFFICES ASSUME NEW i \in 1..(Len(q) + 1), NEW j \in 1..(Len(q) + 1),
                    i # j, Append(q, e)[i] = Append(q, e)[j]
             PROVE  Append(q, e)[i] = STOP
  BY <1>1 DEF EachOnce
<1>2. CASE i \in 1..Len(q) /\ j \in 1..Len(q)
  BY <1>1, <1>2 DEF EachOnce
<1>3. CASE i = Len(q) + 1 \/ j = Len(q) + 1
  BY <1>1, <1>3 DEF Contents
<1>4. QED
  BY <1>1, <1>2, <1>3

\* Taking the head removes it from the contents, once and for all if it is a
\* callable.
LEMMA TailContents ==
    ASSUME NEW q \in Seq(Nat), q # <<>>, EachOnce(q)
    PROVE  /\ Head(q) \in Nat
           /\ Tail(q) \in Seq(Nat)
           /\ Len(Tail(q)) = Len(q) - 1
           /\ Len(q) > 0
           /\ EachOnce(Tail(q))
           /\ Contents(q) = Contents(Tail(q)) \cup {Head(q)}
           /\ Head(q) # STOP => Head(q) \notin Contents(Tail(q))
<1>1. /\ Len(q) \in Nat \ {0}
      /\ Head(q) = q[1]
      /\ Head(q) \in Nat
      /\ Tail(q) \in Seq(Nat)
      /\ Len(Tail(q)) = Len(q) - 1
      /\ DOMAIN q = 1..Len(q)
      /\ DOMAIN Tail(q) = 1..(Len(q) - 1)
  OBVIOUS
<1>2. \A k \in 1..(Len(q) - 1) : Tail(q)[k] = q[k + 1]
  OBVIOUS
<1>3. EachOnce(Tail(q))
  <2> SUFFICES ASSUME NEW i \in 1..(Len(q) - 1), NEW j \in 1..(Len(q) - 1),
                      i # j, Tail(q)[i] = Tail(q)[j]
               PROVE  Tail(q)[i] = STOP
    BY <1>1 DEF EachOnce
  <2>1. /\ i + 1 \in 1..Len(q)
        /\ j + 1 \in 1..Len(q)
        /\ q[i + 1] = q[j + 1]
        /\ i + 1 # j + 1
    BY <1>1, <1>2
  <2>2. QED
    BY <2>1, <1>1, <1>2 DEF EachOnce
<1>4. Contents(q) \subseteq Contents(Tail(q)) \cup {Head(q)}
  <2> SUFFICES ASSUME NEW k \in 1..Len(q)
               PROVE  q[k] \in Contents(Tail(q)) \cup {Head(q)}
    BY <1>1 DEF Contents
  <2>1. CASE k = 1
    BY <2>1, <1>1
  <2>2. CASE k # 1
    <3>1. k - 1 \in 1..(Len(q) - 1) /\ Tail(q)[k - 1] = q[k]
      BY <2>2, <1>1, <1>2
    <3>2. QED
      BY <3>1, <1>1 DEF Contents
  <2>3. QED
    BY <2>1, <2>2
<1>5. Contents(Tail(q)) \cup {Head(q)} \subseteq Contents(q)
  <2>1. \A k \in 1..(Len(q) - 1) : k + 1 \in 1..Len(q)
    BY <1>1
  <2>2. 1 \in 1..Len(q)
    BY <1>1
  <2>3. QED
    BY <2>1, <2>2, <1>1, <1>2 DEF Contents
<1>6. ASSUME Head(q) # STOP, Head(q) \in Contents(Tail(q))
      PROVE  FALSE
  <2>1. PICK k \in 1..(Len(q) - 1) : Tail(q)[k] = Head(q)
    BY <1>1, <1>6 DEF Contents
  <2>2. /\ k + 1 \in DOMAIN q
        /\ 1 \in DOMAIN q
        /\ k + 1 # 1
        /\ q[k + 1] = q[1]
    BY <2>1, <1>1, <1>2
  <2>3. q[1] = STOP
    BY <2>2 DEF EachOnce
  <2>4. QED
    BY <2>3, <1>1, <1>6
<1>7. QED
  BY <1>1, <1>3, <1>4, <1>5, <1>6

-----------------------------------------------------------------------------
(* The inductive invariant.                                                *)

\* UnfinishedExact needs the types; ItemConserved needs to know that the items
\* a worker runs are items; LockDiscipline makes an eviction exclusive.
RunnerInv == TypeOK /\ LockDiscipline /\ UnfinishedExact /\ ItemConserved

\* Moving one thread in or out of a set of threads changes its size by one.
LEMMA CountThreads ==
    ASSUME NEW T, IsFiniteSet(T), NEW S \in SUBSET T, NEW t \in T
    PROVE  /\ Cardinality(S) \in Nat
           /\ t \notin S => Cardinality(S \cup {t}) = Cardinality(S) + 1
           /\ t \in S => Cardinality(S \ {t}) = Cardinality(S) - 1
           /\ t \in S => Cardinality(S) >= 1
<1>1. IsFiniteSet(S)
  BY FS_Subset
<1>2. /\ Cardinality(S) \in Nat
      /\ Cardinality(S \ {t}) \in Nat
  BY <1>1, FS_CardinalityType, FS_RemoveElement
<1>3. Cardinality(S \cup {t}) = IF t \in S THEN Cardinality(S) ELSE Cardinality(S) + 1
  BY <1>1, FS_AddElement
<1>4. Cardinality(S \ {t}) = IF t \in S THEN Cardinality(S) - 1 ELSE Cardinality(S)
  BY <1>1, FS_RemoveElement
<1>5. t \in S => Cardinality(S) >= 1
  BY <1>2, <1>4
<1>6. QED
  BY <1>2, <1>3, <1>4, <1>5

\* The counts of threads that are holding an entry are naturals.
LEMMA CountsAreNat ==
    /\ Cardinality(Holding) \in Nat
    /\ Cardinality(Evicting) \in Nat
    /\ Cardinality(Workers) \in Nat
<1>1. Holding \in SUBSET Workers /\ Evicting \in SUBSET Producers
  BY DEF Holding, Evicting
<1>2. QED
  BY <1>1, FS_Subset, FS_CardinalityType, RunnerAssumption

\* Initially nothing is queued, held or evicted.
LEMMA InitRunnerInv == Init => RunnerInv
<1> SUFFICES ASSUME Init PROVE RunnerInv
  OBVIOUS
<1>1. TypeOK
  <2>1. queue \in Seq(Nat) /\ Len(queue) <= QueueSize
    BY RunnerAssumption DEF Init
  <2>2. /\ lock \in Producers \cup {NoThread}
        /\ ppc \in [Producers -> {"idle", "put", "lock", "drop", "evicted", "retry"}]
        /\ wpc \in [Workers -> {"get", "run", "finish", "stop", "exited"}]
        /\ held \in [Workers -> Nat \cup {NoItem}]
        /\ cpc \in [Closers -> {"open", "drain", "settle", "post", "returned"}]
        /\ clean \in [Closers -> BOOLEAN]
    BY DEF Init
  <2>3. stops \in [Closers -> 0..Cardinality(Workers)] /\ calls \in 0..MaxCalls
    BY RunnerAssumption, CountsAreNat DEF Init
  <2>4. QED
    BY <2>1, <2>2, <2>3 DEF Init, TypeOK
<1>2. LockDiscipline
  BY RunnerAssumption DEF Init, LockDiscipline
<1>3. UnfinishedExact
  <2>1. Holding = {} /\ Evicting = {} /\ Len(queue) = 0
    BY DEF Init, Holding, Evicting
  <2>2. QED
    BY <2>1, FS_EmptySet DEF Init, UnfinishedExact
<1>4. ItemConserved
  <2>1. Contents(queue) = {} /\ Running = {} /\ Items = {}
    BY DEF Init, Contents, Running, Items
  <2>2. QED
    BY <2>1 DEF Init, ItemConserved, Queued, EachOnce
<1>5. QED
  BY <1>1, <1>2, <1>3, <1>4 DEF RunnerInv

\* The types are preserved, given that an owed task_done() has been counted.
LEMMA TypeStep == RunnerInv /\ [Next]_vars => TypeOK'
<1> SUFFICES ASSUME RunnerInv, [Next]_vars PROVE TypeOK'
  OBVIOUS
<1> USE DEF RunnerInv, TypeOK, queueVars, dropVars, workerVars, closerVars, producerVars
<1>1. ASSUME NEW p \in Producers,
             SubmitRefused(p) \/ SubmitAdmitted(p) \/ TryPutFull(p)
               \/ AcquireDropLock(p) \/ DropNothing(p)
      PROVE  TypeOK'
  <2>1. CASE SubmitRefused(p)
    BY <2>1, RunnerAssumption DEF SubmitRefused
  <2>2. CASE SubmitAdmitted(p)
    BY <2>2, RunnerAssumption DEF SubmitAdmitted
  <2>3. CASE TryPutFull(p)
    BY <2>3 DEF TryPutFull
  <2>4. CASE AcquireDropLock(p)
    BY <2>4 DEF AcquireDropLock
  <2>5. CASE DropNothing(p)
    BY <2>5 DEF DropNothing
  <2>6. QED
    BY <1>1, <2>1, <2>2, <2>3, <2>4, <2>5
<1>2. ASSUME NEW p \in Producers, TryPut(p) \/ RetryPut(p)
      PROVE  TypeOK'
  <2>1. /\ Len(queue) < QueueSize
        /\ queue' = Append(queue, puts + 1)
        /\ unfinished' = unfinished + 1
        /\ puts' = puts + 1
    BY <1>2 DEF TryPut, RetryPut, Put
  <2>2. puts + 1 \in Nat /\ queue \in Seq(Nat) /\ Len(queue) \in Nat
    OBVIOUS
  <2>3. queue' \in Seq(Nat) /\ Len(queue') <= QueueSize
    BY <2>1, <2>2, AppendContents, RunnerAssumption
  <2>4. CASE TryPut(p)
    BY <2>1, <2>2, <2>3, <2>4 DEF TryPut
  <2>5. CASE RetryPut(p)
    BY <2>1, <2>2, <2>3, <2>5 DEF RetryPut
  <2>6. QED
    BY <1>2, <2>4, <2>5
<1>3. ASSUME NEW p \in Producers, DropOldest(p)
      PROVE  TypeOK'
  <2>1. /\ queue' \in Seq(Nat)
        /\ Len(queue') <= QueueSize
        /\ Head(queue) \in Nat
    BY <1>3, TailContents, RunnerAssumption DEF DropOldest, ItemConserved
  <2>2. evictedStops' \in Nat
    BY <1>3 DEF DropOldest
  <2>3. evicted' \subseteq Nat
    BY <1>3, <2>1 DEF DropOldest
  <2>4. QED
    BY <1>3, <2>1, <2>2, <2>3 DEF DropOldest
<1>4. ASSUME NEW p \in Producers, FinishDrop(p)
      PROVE  TypeOK'
  <2>1. p \in Evicting
    BY <1>4 DEF FinishDrop, Evicting
  <2>2. Cardinality(Evicting) >= 1
    BY <2>1, CountThreads, RunnerAssumption DEF Evicting
  <2>3. unfinished - 1 \in Nat
    BY <2>2, CountsAreNat DEF UnfinishedExact
  <2>4. QED
    BY <1>4, <2>3 DEF FinishDrop, MarkDrop
<1>5. ASSUME NEW p \in Producers, RetryPutFull(p)
      PROVE  TypeOK'
  BY <1>5 DEF RetryPutFull, MarkDrop
<1>6. ASSUME NEW w \in Workers, Get(w)
      PROVE  TypeOK'
  <2>1. /\ queue' \in Seq(Nat)
        /\ Len(queue') <= QueueSize
        /\ Head(queue) \in Nat
    BY <1>6, TailContents, RunnerAssumption DEF Get, ItemConserved
  <2>2. QED
    BY <1>6, <2>1 DEF Get
<1>7. ASSUME NEW w \in Workers, RunItem(w)
      PROVE  TypeOK'
  <2>1. held[w] \in Items
    BY <1>7 DEF RunItem, ItemConserved, Running
  <2>2. held[w] \in Nat
    BY <2>1 DEF Items
  <2>3. QED
    BY <1>7, <2>2 DEF RunItem
<1>8. ASSUME NEW w \in Workers, TaskDone(w)
      PROVE  TypeOK'
  <2>1. w \in Holding
    BY <1>8 DEF TaskDone, Holding
  <2>2. Cardinality(Holding) >= 1
    BY <2>1, CountThreads, RunnerAssumption DEF Holding
  <2>3. unfinished - 1 \in Nat
    BY <2>2, CountsAreNat DEF UnfinishedExact
  <2>4. QED
    BY <1>8, <2>3 DEF TaskDone
<1>9. ASSUME NEW c \in Closers,
             CloseFirst(c) \/ CloseAgain(c) \/ DrainEmptied(c) \/ DrainSettled(c)
               \/ DrainTimesOut(c) \/ PostStopFull(c) \/ JoinWorkers(c)
      PROVE  TypeOK'
  <2>1. CASE CloseFirst(c)
    BY <2>1, CountsAreNat DEF CloseFirst
  <2>2. CASE CloseAgain(c)
    BY <2>2, CountsAreNat DEF CloseAgain
  <2>3. CASE DrainEmptied(c)
    BY <2>3, CountsAreNat DEF DrainEmptied
  <2>4. CASE DrainSettled(c)
    BY <2>4, CountsAreNat DEF DrainSettled, DrainReturns
  <2>5. CASE DrainTimesOut(c)
    BY <2>5, CountsAreNat DEF DrainTimesOut, DrainReturns
  <2>6. CASE PostStopFull(c)
    BY <2>6, CountsAreNat DEF PostStopFull
  <2>7. CASE JoinWorkers(c)
    BY <2>7, CountsAreNat DEF JoinWorkers
  <2>8. QED
    BY <1>9, <2>1, <2>2, <2>3, <2>4, <2>5, <2>6, <2>7
<1>10. ASSUME NEW c \in Closers, PostStop(c)
       PROVE  TypeOK'
  <2>1. /\ queue' \in Seq(Nat)
        /\ Len(queue') <= QueueSize
    BY <1>10, AppendContents, RunnerAssumption DEF PostStop, Put, STOP
  <2>2. stops' \in [Closers -> 0..Cardinality(Workers)]
    <3>1. stops[c] \in 0..Cardinality(Workers) /\ stops[c] > 0
      BY <1>10 DEF PostStop
    <3>2. stops[c] - 1 \in 0..Cardinality(Workers)
      BY <3>1, CountsAreNat
    <3>3. QED
      BY <3>2, <1>10 DEF PostStop
  <2>3. unfinished' \in Nat
    BY <1>10 DEF PostStop, Put
  <2>4. QED
    BY <1>10, <2>1, <2>2, <2>3 DEF PostStop
<1>11. CASE EmitDropLog
  BY <1>11 DEF EmitDropLog
<1>12. CASE UNCHANGED vars
  BY <1>12 DEF vars
<1>13. QED
  BY <1>1, <1>2, <1>3, <1>4, <1>5, <1>6, <1>7, <1>8, <1>9, <1>10, <1>11, <1>12
     DEF Next, SubmitStep, WorkerStep, CloserStep

\* The lock stays with the one producer inside the critical section.
LEMMA LockStep == RunnerInv /\ [Next]_vars => LockDiscipline'
<1> SUFFICES ASSUME RunnerInv, [Next]_vars PROVE LockDiscipline'
  OBVIOUS
<1> USE RunnerAssumption
        DEF RunnerInv, TypeOK, LockDiscipline, queueVars, dropVars, workerVars,
            closerVars, producerVars
<1>1. ASSUME NEW p \in Producers, SubmitRefused(p) \/ SubmitAdmitted(p) \/ SubmitStep(p)
      PROVE  LockDiscipline'
  <2>1. CASE SubmitRefused(p)
    BY <2>1 DEF SubmitRefused
  <2>2. CASE SubmitAdmitted(p)
    BY <2>2 DEF SubmitAdmitted
  <2>3. CASE TryPut(p)
    BY <2>3 DEF TryPut
  <2>4. CASE TryPutFull(p)
    BY <2>4 DEF TryPutFull
  <2>5. CASE AcquireDropLock(p)
    BY <2>5 DEF AcquireDropLock
  <2>6. CASE DropOldest(p)
    BY <2>6 DEF DropOldest
  <2>7. CASE DropNothing(p)
    BY <2>7 DEF DropNothing
  <2>8. CASE FinishDrop(p)
    BY <2>8 DEF FinishDrop
  <2>9. CASE RetryPut(p)
    BY <2>9 DEF RetryPut
  <2>10. CASE RetryPutFull(p)
    BY <2>10 DEF RetryPutFull
  <2>11. QED
    BY <1>1, <2>1, <2>2, <2>3, <2>4, <2>5, <2>6, <2>7, <2>8, <2>9, <2>10 DEF SubmitStep
<1>2. ASSUME UNCHANGED <<lock, ppc>>
      PROVE  LockDiscipline'
  BY <1>2
<1>3. ASSUME NEW w \in Workers, WorkerStep(w)
      PROVE  UNCHANGED <<lock, ppc>>
  BY <1>3 DEF WorkerStep, Get, RunItem, TaskDone
<1>4. ASSUME NEW c \in Closers, CloserStep(c)
      PROVE  UNCHANGED <<lock, ppc>>
  BY <1>4 DEF CloserStep, CloseFirst, CloseAgain, DrainEmptied, DrainSettled,
     DrainTimesOut, DrainReturns, PostStop, PostStopFull, JoinWorkers
<1>5. CASE EmitDropLog
  BY <1>5, <1>2 DEF EmitDropLog
<1>6. CASE UNCHANGED vars
  BY <1>6, <1>2 DEF vars
<1>7. QED
  BY <1>1, <1>2, <1>3, <1>4, <1>5, <1>6 DEF Next

\* Every step keeps unfinished_tasks equal to the entries still to answer for.
LEMMA CountStep == RunnerInv /\ [Next]_vars => UnfinishedExact'
<1> SUFFICES ASSUME RunnerInv, [Next]_vars PROVE UnfinishedExact'
  OBVIOUS
<1> USE DEF queueVars, dropVars, workerVars, closerVars, producerVars
<1>0. /\ TypeOK /\ UnfinishedExact /\ EachOnce(queue)
      /\ queue \in Seq(Nat) /\ Len(queue) \in Nat /\ puts + 1 \in Nat /\ STOP \in Nat
      /\ Holding \in SUBSET Workers /\ Evicting \in SUBSET Producers
      /\ IsFiniteSet(Workers) /\ IsFiniteSet(Producers)
  BY RunnerAssumption
     DEF RunnerInv, TypeOK, ItemConserved, Holding, Evicting, STOP
<1>1. ASSUME UNCHANGED <<queue, unfinished>>, Holding' = Holding, Evicting' = Evicting
      PROVE  UnfinishedExact'
  BY <1>0, <1>1 DEF UnfinishedExact
<1>2. ASSUME NEW e \in Nat, Put(e), Holding' = Holding, Evicting' = Evicting
      PROVE  UnfinishedExact'
  <2>1. Len(queue') = Len(queue) + 1
    BY <1>0, <1>2, AppendContents DEF Put
  <2>2. QED
    BY <1>0, <1>2, <2>1, CountsAreNat DEF UnfinishedExact, Put
<1>3. ASSUME wpc' = wpc PROVE Holding' = Holding
  BY <1>3 DEF Holding
<1>4. ASSUME ppc' = ppc PROVE Evicting' = Evicting
  BY <1>4 DEF Evicting
<1>5. ASSUME NEW p \in Producers, SubmitRefused(p) \/ SubmitAdmitted(p) \/ SubmitStep(p)
      PROVE  UnfinishedExact'
  <2>1. ASSUME NEW here, NEW there, here # "evicted", there # "evicted",
               ppc[p] = here, ppc' = [ppc EXCEPT ![p] = there]
        PROVE  Evicting' = Evicting
    BY <2>1, <1>0 DEF Evicting, TypeOK
  <2>2. CASE SubmitRefused(p)
    BY <2>2, <1>1, <1>3, <1>4 DEF SubmitRefused
  <2>3. CASE SubmitAdmitted(p)
    BY <2>3, <2>1, <1>1, <1>3 DEF SubmitAdmitted
  <2>4. CASE TryPut(p)
    BY <2>4, <2>1, <1>0, <1>2, <1>3 DEF TryPut
  <2>5. CASE TryPutFull(p)
    BY <2>5, <2>1, <1>1, <1>3 DEF TryPutFull
  <2>6. CASE AcquireDropLock(p)
    BY <2>6, <2>1, <1>1, <1>3 DEF AcquireDropLock
  <2>7. CASE DropOldest(p)
    <3>1. Evicting' = Evicting \cup {p} /\ p \notin Evicting
      BY <2>7, <1>0 DEF DropOldest, Evicting, TypeOK
    <3>2. Cardinality(Evicting') = Cardinality(Evicting) + 1
      BY <3>1, <1>0, CountThreads
    <3>3. Len(queue') = Len(queue) - 1
      BY <2>7, <1>0, TailContents DEF DropOldest
    <3>4. Holding' = Holding /\ unfinished' = unfinished
      BY <2>7, <1>3 DEF DropOldest
    <3>5. QED
      BY <3>2, <3>3, <3>4, <1>0, CountsAreNat DEF UnfinishedExact
  <2>8. CASE DropNothing(p)
    BY <2>8, <2>1, <1>1, <1>3 DEF DropNothing
  <2>9. CASE FinishDrop(p)
    <3>1. Evicting' = Evicting \ {p} /\ p \in Evicting
      BY <2>9, <1>0 DEF FinishDrop, Evicting, TypeOK
    <3>2. Cardinality(Evicting') = Cardinality(Evicting) - 1
      BY <3>1, <1>0, CountThreads
    <3>3. Holding' = Holding /\ queue' = queue /\ unfinished' = unfinished - 1
      BY <2>9, <1>3 DEF FinishDrop
    <3>4. QED
      BY <3>2, <3>3, <1>0, CountsAreNat DEF UnfinishedExact
  <2>10. CASE RetryPut(p)
    BY <2>10, <2>1, <1>0, <1>2, <1>3 DEF RetryPut
  <2>11. CASE RetryPutFull(p)
    BY <2>11, <2>1, <1>1, <1>3 DEF RetryPutFull
  <2>12. QED
    BY <1>5, <2>2, <2>3, <2>4, <2>5, <2>6, <2>7, <2>8, <2>9, <2>10, <2>11 DEF SubmitStep
<1>6. ASSUME NEW w \in Workers, WorkerStep(w)
      PROVE  UnfinishedExact'
  <2>1. Evicting' = Evicting
    BY <1>6, <1>4 DEF WorkerStep, Get, RunItem, TaskDone
  <2>2. CASE Get(w)
    <3>1. Holding' = Holding \cup {w} /\ w \notin Holding
      BY <2>2, <1>0 DEF Get, Holding, TypeOK
    <3>2. Cardinality(Holding') = Cardinality(Holding) + 1
      BY <3>1, <1>0, CountThreads
    <3>3. Len(queue') = Len(queue) - 1
      BY <2>2, <1>0, TailContents DEF Get
    <3>4. unfinished' = unfinished
      BY <2>2 DEF Get
    <3>5. QED
      BY <2>1, <3>2, <3>3, <3>4, <1>0, CountsAreNat DEF UnfinishedExact
  <2>3. CASE RunItem(w)
    <3>1. Holding' = Holding
      BY <2>3, <1>0 DEF RunItem, Holding, TypeOK
    <3>2. QED
      BY <2>1, <2>3, <3>1, <1>1 DEF RunItem
  <2>4. CASE TaskDone(w)
    <3>1. Holding' = Holding \ {w} /\ w \in Holding
      BY <2>4, <1>0 DEF TaskDone, Holding, TypeOK
    <3>2. Cardinality(Holding') = Cardinality(Holding) - 1
      BY <3>1, <1>0, CountThreads
    <3>3. queue' = queue /\ unfinished' = unfinished - 1
      BY <2>4 DEF TaskDone
    <3>4. QED
      BY <2>1, <3>2, <3>3, <1>0, CountsAreNat DEF UnfinishedExact
  <2>5. QED
    BY <1>6, <2>2, <2>3, <2>4 DEF WorkerStep
<1>7. ASSUME NEW c \in Closers, CloserStep(c)
      PROVE  UnfinishedExact'
  <2>1. Evicting' = Evicting /\ Holding' = Holding
    BY <1>7, <1>3, <1>4
       DEF CloserStep, CloseFirst, CloseAgain, DrainEmptied, DrainSettled,
           DrainTimesOut, DrainReturns, PostStop, PostStopFull, JoinWorkers
  <2>2. CASE PostStop(c)
    BY <2>1, <2>2, <1>0, <1>2 DEF PostStop
  <2>3. CASE ~PostStop(c)
    <3>1. UNCHANGED <<queue, unfinished>>
      BY <1>7, <2>3
         DEF CloserStep, CloseFirst, CloseAgain, DrainEmptied, DrainSettled,
             DrainTimesOut, DrainReturns, PostStopFull, JoinWorkers
    <3>2. QED
      BY <3>1, <2>1, <1>1
  <2>4. QED
    BY <2>2, <2>3
<1>8. CASE EmitDropLog
  BY <1>8, <1>1, <1>3, <1>4 DEF EmitDropLog
<1>9. CASE UNCHANGED vars
  BY <1>9, <1>1, <1>3, <1>4 DEF vars
<1>10. QED
  BY <1>5, <1>6, <1>7, <1>8, <1>9 DEF Next

\* Every step moves a callable from one place to the next, or leaves it.
LEMMA ConservedStep == RunnerInv /\ [Next]_vars => ItemConserved'
<1> SUFFICES ASSUME RunnerInv, [Next]_vars PROVE ItemConserved'
  OBVIOUS
<1> USE DEF queueVars, dropVars, workerVars, closerVars, producerVars
<1>0. /\ TypeOK /\ ItemConserved /\ EachOnce(queue)
      /\ queue \in Seq(Nat) /\ puts \in Nat /\ puts + 1 \in Nat
      /\ STOP \in Nat /\ STOP \notin Items
  BY DEF RunnerInv, TypeOK, ItemConserved, STOP, Items
<1>1. ASSUME UNCHANGED <<queue, puts, wpc, held, finished, evicted>>
      PROVE  ItemConserved'
  <2>1. Items' = Items /\ Queued' = Queued /\ Running' = Running /\ EachOnce(queue')
    BY <1>0, <1>1 DEF Items, Queued, Running
  <2>2. QED
    BY <1>0, <1>1, <2>1 DEF ItemConserved
<1>2. ASSUME Put(puts + 1), puts' = puts + 1, UNCHANGED <<wpc, held, finished, evicted>>
      PROVE  ItemConserved'
  <2>1. Items' = Items \cup {puts + 1} /\ puts + 1 \notin Items /\ puts + 1 # STOP
    BY <1>0, <1>2 DEF Items, STOP
  <2>2. Contents(queue') = Contents(queue) \cup {puts + 1}
    BY <1>0, <1>2, AppendContents DEF Put
  <2>3. Queued' = Queued \cup {puts + 1}
    BY <2>1, <2>2 DEF Queued
  <2>4. puts + 1 \notin Contents(queue)
    BY <1>0, <2>1 DEF ItemConserved, Queued
  <2>5. EachOnce(queue')
    BY <1>0, <1>2, <2>4, AppendEachOnce DEF Put
  <2>6. Running' = Running
    BY <1>2 DEF Running
  <2>7. QED
    BY <1>0, <1>2, <2>1, <2>3, <2>5, <2>6 DEF ItemConserved
<1>3. ASSUME Put(STOP), UNCHANGED <<puts, wpc, held, finished, evicted>>
      PROVE  ItemConserved'
  <2>1. Contents(queue') = Contents(queue) \cup {STOP}
    BY <1>0, <1>3, AppendContents DEF Put
  <2>2. EachOnce(queue')
    BY <1>0, <1>3, AppendEachOnce DEF Put
  <2>3. Queued' = Queued /\ Running' = Running /\ Items' = Items
    BY <1>3, <2>1 DEF Queued, Running, Items
  <2>4. QED
    BY <1>0, <1>3, <2>2, <2>3 DEF ItemConserved
<1>4. ASSUME queue # <<>>, queue' = Tail(queue)
      PROVE  /\ EachOnce(queue')
             /\ Queued = Queued' \cup ({Head(queue)} \ {STOP})
             /\ Head(queue) # STOP => Head(queue) \in Queued /\ Head(queue) \notin Queued'
  <2>1. /\ EachOnce(queue')
        /\ Contents(queue) = Contents(queue') \cup {Head(queue)}
        /\ Head(queue) # STOP => Head(queue) \notin Contents(queue')
    BY <1>0, <1>4, TailContents
  <2>2. QED
    BY <2>1 DEF Queued
<1>5. ASSUME NEW p \in Producers, SubmitRefused(p) \/ SubmitAdmitted(p) \/ SubmitStep(p)
      PROVE  ItemConserved'
  <2>1. CASE TryPut(p) \/ RetryPut(p)
    BY <2>1, <1>2 DEF TryPut, RetryPut
  <2>2. CASE DropOldest(p)
    <3>1. UNCHANGED <<puts, wpc, held, finished>> /\ queue # <<>> /\ queue' = Tail(queue)
          /\ evicted' = evicted \cup ({Head(queue)} \ {STOP})
      BY <2>2 DEF DropOldest
    <3>2. Running' = Running /\ Items' = Items
      BY <3>1 DEF Running, Items
    <3>3. EachOnce(queue')
          /\ Queued = Queued' \cup ({Head(queue)} \ {STOP})
          /\ (Head(queue) # STOP => Head(queue) \in Queued /\ Head(queue) \notin Queued')
      BY <3>1, <1>4
    <3>4. \A v, w \in Workers : v # w /\ wpc'[v] = "run" /\ wpc'[w] = "run"
                                => held'[v] # held'[w]
      BY <3>1, <1>0 DEF ItemConserved
    <3>5. QED
      BY <3>1, <3>2, <3>3, <3>4, <1>0 DEF ItemConserved
  <2>3. CASE ~(TryPut(p) \/ RetryPut(p) \/ DropOldest(p))
    <3>1. UNCHANGED <<queue, puts, wpc, held, finished, evicted>>
      BY <1>5, <2>3 DEF SubmitRefused, SubmitAdmitted, SubmitStep, TryPutFull,
         AcquireDropLock, DropNothing, FinishDrop, RetryPutFull
    <3>2. QED
      BY <3>1, <1>1
  <2>4. QED
    BY <2>1, <2>2, <2>3
<1>6. ASSUME NEW w \in Workers, WorkerStep(w)
      PROVE  ItemConserved'
  <2>0. Items' = Items /\ evicted' = evicted
    BY <1>6 DEF WorkerStep, Get, RunItem, TaskDone, Items
  <2>1. CASE Get(w)
    <3>1. queue # <<>> /\ queue' = Tail(queue) /\ finished' = finished /\ wpc[w] = "get"
          /\ held' = [held EXCEPT ![w] = Head(queue)]
          /\ wpc' = [wpc EXCEPT ![w] = IF Head(queue) = STOP THEN "stop" ELSE "run"]
      BY <2>1 DEF Get
    <3>2. /\ EachOnce(queue')
          /\ Queued = Queued' \cup ({Head(queue)} \ {STOP})
          /\ Head(queue) # STOP => Head(queue) \in Queued /\ Head(queue) \notin Queued'
      BY <3>1, <1>4
    <3>3. \A v \in Workers \ {w} : wpc'[v] = wpc[v] /\ held'[v] = held[v]
      BY <3>1, <1>0 DEF TypeOK
    <3>4. /\ held'[w] = Head(queue)
          /\ wpc'[w] = "run" <=> Head(queue) # STOP
      BY <3>1, <1>0 DEF TypeOK
    <3>5. Running' = Running \cup ({Head(queue)} \ {STOP})
      <4>1. CASE Head(queue) = STOP
        BY <4>1, <3>1, <3>3, <3>4 DEF Running
      <4>2. CASE Head(queue) # STOP
        BY <4>2, <3>1, <3>3, <3>4 DEF Running
      <4>3. QED
        BY <4>1, <4>2
    <3>6. \A v \in Workers : wpc[v] = "run" => held[v] \in Running
      BY DEF Running
    <3>7. ASSUME NEW u \in Workers, NEW v \in Workers, u # v,
                 wpc'[u] = "run", wpc'[v] = "run"
          PROVE  held'[u] # held'[v]
      <4>1. CASE u # w /\ v # w
        BY <4>1, <3>7, <3>3, <1>0 DEF ItemConserved
      <4>2. CASE u = w
        BY <4>2, <3>7, <3>2, <3>3, <3>4, <3>6, <1>0 DEF ItemConserved
      <4>3. CASE v = w
        BY <4>3, <3>7, <3>2, <3>3, <3>4, <3>6, <1>0 DEF ItemConserved
      <4>4. QED
        BY <4>1, <4>2, <4>3
    <3>8. QED
      BY <3>1, <3>2, <3>5, <3>7, <2>0, <1>0 DEF ItemConserved
  <2>2. CASE RunItem(w)
    <3>1. queue' = queue /\ held' = held /\ finished' = finished \cup {held[w]}
          /\ wpc[w] = "run" /\ wpc' = [wpc EXCEPT ![w] = "finish"]
      BY <2>2 DEF RunItem
    <3>2. /\ \A v \in Workers \ {w} : wpc'[v] = wpc[v]
          /\ wpc'[w] = "finish"
      BY <3>1, <1>0 DEF TypeOK
    <3>3. \A v \in Workers \ {w} : wpc[v] = "run" => held[v] # held[w]
      BY <3>1, <1>0 DEF ItemConserved
    <3>4. Running = Running' \cup {held[w]} /\ held[w] \notin Running'
      BY <3>1, <3>2, <3>3 DEF Running
    <3>5. Queued' = Queued /\ EachOnce(queue')
      BY <3>1, <1>0 DEF Queued
    <3>6. \A u, v \in Workers : u # v /\ wpc'[u] = "run" /\ wpc'[v] = "run"
                                => held'[u] # held'[v]
      BY <3>1, <3>2, <1>0 DEF ItemConserved
    <3>7. QED
      BY <3>1, <3>4, <3>5, <3>6, <2>0, <1>0 DEF ItemConserved
  <2>3. CASE TaskDone(w)
    <3>1. queue' = queue /\ finished' = finished /\ held' = [held EXCEPT ![w] = NoItem]
          /\ wpc[w] # "run"
          /\ wpc' = [wpc EXCEPT ![w] = IF wpc[w] = "stop" THEN "exited" ELSE "get"]
      BY <2>3 DEF TaskDone
    <3>2. /\ \A v \in Workers \ {w} : wpc'[v] = wpc[v] /\ held'[v] = held[v]
          /\ wpc'[w] # "run"
      BY <3>1, <1>0 DEF TypeOK
    <3>3. Running' = Running
      BY <3>1, <3>2 DEF Running
    <3>4. Queued' = Queued /\ EachOnce(queue')
      BY <3>1, <1>0 DEF Queued
    <3>5. \A u, v \in Workers : u # v /\ wpc'[u] = "run" /\ wpc'[v] = "run"
                                => held'[u] # held'[v]
      BY <3>1, <3>2, <1>0 DEF ItemConserved
    <3>6. QED
      BY <3>1, <3>3, <3>4, <3>5, <2>0, <1>0 DEF ItemConserved
  <2>4. QED
    BY <1>6, <2>1, <2>2, <2>3 DEF WorkerStep
<1>7. ASSUME NEW c \in Closers, CloserStep(c)
      PROVE  ItemConserved'
  <2>1. CASE PostStop(c)
    BY <2>1, <1>3 DEF PostStop
  <2>2. CASE ~PostStop(c)
    <3>1. UNCHANGED <<queue, puts, wpc, held, finished, evicted>>
      BY <1>7, <2>2
         DEF CloserStep, CloseFirst, CloseAgain, DrainEmptied, DrainSettled,
             DrainTimesOut, DrainReturns, PostStopFull, JoinWorkers
    <3>2. QED
      BY <3>1, <1>1
  <2>3. QED
    BY <2>1, <2>2
<1>8. CASE EmitDropLog
  BY <1>8, <1>1 DEF EmitDropLog
<1>9. CASE UNCHANGED vars
  BY <1>9, <1>1 DEF vars
<1>10. QED
  BY <1>5, <1>6, <1>7, <1>8, <1>9 DEF Next

-----------------------------------------------------------------------------
(* The theorems.                                                           *)

\* The inductive invariant holds in every reachable state.
THEOREM RunnerInvariant == Spec => []RunnerInv
<1>1. Init => RunnerInv
  BY InitRunnerInv
<1>2. RunnerInv /\ [Next]_vars => RunnerInv'
  BY TypeStep, LockStep, CountStep, ConservedStep DEF RunnerInv
<1>3. QED
  BY <1>1, <1>2, PTL DEF Spec

\* Types: in particular unfinished_tasks never goes below zero, so task_done()
\* never raises in a worker or in submit().
THEOREM RunnerTyped == Spec => []TypeOK
<1>1. RunnerInv => TypeOK
  BY DEF RunnerInv
<1>2. QED
  BY <1>1, RunnerInvariant, PTL

\* unfinished_tasks is exactly the entries queued or taken and not answered for.
THEOREM UnfinishedIsExact == Spec => []UnfinishedExact
<1>1. RunnerInv => UnfinishedExact
  BY DEF RunnerInv
<1>2. QED
  BY <1>1, RunnerInvariant, PTL

\* No accepted callable is lost, run twice, or both run and evicted.
THEOREM ItemsConserved == Spec => []ItemConserved
<1>1. RunnerInv => ItemConserved
  BY DEF RunnerInv
<1>2. QED
  BY <1>1, RunnerInvariant, PTL

\* A drain that reports a clean result leaves no accepted callable behind.
THEOREM CleanDrainIsClean == Spec => CleanDrainSettles
<1>1. ASSUME RunnerInv, NEW c \in Closers, DrainSettled(c)
      PROVE  Items \subseteq finished \cup evicted
  <2>1. /\ Len(queue) \in Nat /\ unfinished = 0 /\ queue \in Seq(Nat)
        /\ UnfinishedExact /\ ItemConserved
    BY <1>1 DEF RunnerInv, TypeOK, DrainSettled
  <2>2. Len(queue) = 0 /\ Cardinality(Holding) = 0
    BY <2>1, CountsAreNat DEF UnfinishedExact
  <2>3. IsFiniteSet(Holding)
    BY FS_Subset, RunnerAssumption DEF Holding
  <2>4. Holding = {}
    BY <2>2, <2>3, FS_EmptySet
  <2>5. Running = {}
    BY <2>4 DEF Running, Holding
  <2>6. Queued = {}
    BY <2>1, <2>2 DEF Queued, Contents
  <2>7. QED
    BY <2>1, <2>5, <2>6 DEF ItemConserved
<1>2. RunnerInv /\ [Next]_vars
        => [\A c \in Closers : DrainSettled(c) => Items \subseteq finished \cup evicted]_vars
  BY <1>1
<1>3. QED
  BY <1>2, RunnerInvariant, PTL DEF Spec, CleanDrainSettles

-----------------------------------------------------------------------------
(* The dropped diagnostic.                                                 *)

\* DropCountExact is about cardinalities, so the evicted items must be finitely many.
DropInv == IsFiniteSet(evicted) /\ DropCountExact

\* Initially nothing was dropped.
LEMMA InitDropInv == Init => DropInv
<1> SUFFICES ASSUME Init PROVE DropInv
  OBVIOUS
<1>1. Evicting = {} /\ evicted = {}
  BY DEF Init, Evicting
<1>2. QED
  BY <1>1, FS_EmptySet DEF Init, DropInv, DropCountExact

\* A step that leaves the counters, the evicted entries and the evictions under way.
LEMMA DropsKept ==
    ASSUME DropInv,
           UNCHANGED <<dropped, evicted, evictedStops, overflowed>>, Evicting' = Evicting
    PROVE  DropInv'
BY DEF DropInv, DropCountExact

\* Every eviction is counted when it is marked, and every second queue.Full at once.
LEMMA DropStep == RunnerInv /\ DropInv /\ [Next]_vars => DropInv'
<1> SUFFICES ASSUME RunnerInv, DropInv, [Next]_vars PROVE DropInv'
  OBVIOUS
<1> USE DEF queueVars, dropVars, workerVars, closerVars, producerVars
<1>a. /\ TypeOK /\ ItemConserved /\ EachOnce(queue) /\ queue \in Seq(Nat)
      /\ Evicting \in SUBSET Producers /\ IsFiniteSet(Producers)
  BY RunnerAssumption DEF RunnerInv, TypeOK, ItemConserved, Evicting
<1>0. /\ DropCountExact /\ IsFiniteSet(evicted)
      /\ Cardinality(evicted) \in Nat /\ Cardinality(Evicting) \in Nat
      /\ dropped \in Nat /\ overflowed \in Nat /\ evictedStops \in Nat
  BY FS_CardinalityType, CountsAreNat DEF RunnerInv, TypeOK, DropInv
<1>1. ASSUME ppc' = ppc PROVE Evicting' = Evicting
  BY <1>1 DEF Evicting
<1>2. ASSUME NEW p \in Producers, SubmitRefused(p) \/ SubmitAdmitted(p) \/ SubmitStep(p)
      PROVE  DropInv'
  <2>1. ASSUME NEW here, NEW there, here # "evicted", there # "evicted",
               ppc[p] = here, ppc' = [ppc EXCEPT ![p] = there]
        PROVE  Evicting' = Evicting
    BY <2>1, <1>a DEF Evicting, TypeOK
  <2>2. CASE SubmitRefused(p)
    BY <2>2, <1>1, DropsKept DEF SubmitRefused
  <2>3. CASE SubmitAdmitted(p)
    BY <2>3, <2>1, DropsKept DEF SubmitAdmitted
  <2>4. CASE TryPut(p)
    BY <2>4, <2>1, DropsKept DEF TryPut
  <2>5. CASE TryPutFull(p)
    BY <2>5, <2>1, DropsKept DEF TryPutFull
  <2>6. CASE AcquireDropLock(p)
    BY <2>6, <2>1, DropsKept DEF AcquireDropLock
  <2>7. CASE DropOldest(p)
    <3>1. Evicting' = Evicting \cup {p} /\ p \notin Evicting
      BY <2>7, <1>a DEF DropOldest, Evicting, TypeOK
    <3>2. Cardinality(Evicting') = Cardinality(Evicting) + 1
      BY <3>1, <1>a, CountThreads
    <3>3. UNCHANGED <<dropped, overflowed>>
      BY <2>7 DEF DropOldest
    <3>4. CASE Head(queue) = STOP
      <4>1. evicted' = evicted /\ evictedStops' = evictedStops + 1
        BY <2>7, <3>4 DEF DropOldest
      <4>2. QED
        BY <4>1, <3>2, <3>3, <1>0 DEF DropInv, DropCountExact
    <3>5. CASE Head(queue) # STOP
      <4>1. evicted' = evicted \cup {Head(queue)} /\ evictedStops' = evictedStops
        BY <2>7, <3>5 DEF DropOldest
      <4>2. Head(queue) \in Queued
        BY <2>7, <3>5, <1>a, TailContents DEF DropOldest, Queued
      <4>3. Head(queue) \notin evicted
        BY <4>2, <1>a DEF ItemConserved
      <4>4. IsFiniteSet(evicted') /\ Cardinality(evicted') = Cardinality(evicted) + 1
        BY <4>1, <4>3, <1>0, FS_AddElement
      <4>5. QED
        BY <4>1, <4>4, <3>2, <3>3, <1>0 DEF DropInv, DropCountExact
    <3>6. QED
      BY <3>4, <3>5
  <2>8. CASE DropNothing(p)
    BY <2>8, <2>1, DropsKept DEF DropNothing
  <2>9. CASE FinishDrop(p)
    <3>1. Evicting' = Evicting \ {p} /\ p \in Evicting
      BY <2>9, <1>a DEF FinishDrop, Evicting, TypeOK
    <3>2. Cardinality(Evicting') = Cardinality(Evicting) - 1
      BY <3>1, <1>a, CountThreads
    <3>3. UNCHANGED <<evicted, evictedStops, overflowed>> /\ dropped' = dropped + 1
      BY <2>9 DEF FinishDrop, MarkDrop
    <3>4. QED
      BY <3>2, <3>3, <1>0 DEF DropInv, DropCountExact
  <2>10. CASE RetryPut(p)
    BY <2>10, <2>1, DropsKept DEF RetryPut
  <2>11. CASE RetryPutFull(p)
    <3>1. Evicting' = Evicting
      BY <2>11, <2>1 DEF RetryPutFull
    <3>2. /\ UNCHANGED <<evicted, evictedStops>>
          /\ dropped' = dropped + 1 /\ overflowed' = overflowed + 1
      BY <2>11 DEF RetryPutFull, MarkDrop
    <3>3. QED
      BY <3>1, <3>2, <1>0 DEF DropInv, DropCountExact
  <2>12. QED
    BY <1>2, <2>2, <2>3, <2>4, <2>5, <2>6, <2>7, <2>8, <2>9, <2>10, <2>11 DEF SubmitStep
<1>3. ASSUME NEW w \in Workers, WorkerStep(w)
      PROVE  DropInv'
  BY <1>3, <1>1, DropsKept DEF WorkerStep, Get, RunItem, TaskDone
<1>4. ASSUME NEW c \in Closers, CloserStep(c)
      PROVE  DropInv'
  <2>1. ppc' = ppc /\ UNCHANGED <<dropped, evicted, evictedStops, overflowed>>
    BY <1>4
       DEF CloserStep, CloseFirst, CloseAgain, DrainEmptied, DrainSettled,
           DrainTimesOut, DrainReturns, PostStop, PostStopFull, JoinWorkers
  <2>2. QED
    BY <2>1, <1>1, DropsKept
<1>5. CASE EmitDropLog
  BY <1>5, <1>1, DropsKept DEF EmitDropLog
<1>6. CASE UNCHANGED vars
  BY <1>6, <1>1, DropsKept DEF vars
<1>7. QED
  BY <1>2, <1>3, <1>4, <1>5, <1>6 DEF Next

\* The dropped diagnostic is exact: one for each evicted entry and for each callable
\* that was answered False because the queue was full twice.
THEOREM DropsAreCounted == Spec => []DropCountExact
<1>1. RunnerInv /\ DropInv /\ [Next]_vars => DropInv'
  BY DropStep
<1>2. DropInv => DropCountExact
  BY DEF DropInv
<1>3. QED
  BY <1>1, <1>2, InitDropInv, RunnerInvariant, PTL DEF Spec

-----------------------------------------------------------------------------
(* The contract.  The queue holds work in the order it was accepted, so    *)
(* its head is the oldest that waits: this is the invariant of the         *)
(* refinement, together with RunnerInv.                                    *)

Ordered(q) == \A i, j \in DOMAIN q : i < j /\ q[i] # STOP /\ q[j] # STOP => q[i] < q[j]

\* A put keeps the order when what is put is a sentinel or newer than all there is.
LEMMA AppendOrdered ==
    ASSUME NEW q \in Seq(Nat), NEW e \in Nat, Ordered(q),
           e = STOP \/ \A n \in Contents(q) : n < e
    PROVE  Ordered(Append(q, e))
<1>1. /\ DOMAIN q = 1..Len(q) /\ Len(q) \in Nat
      /\ DOMAIN Append(q, e) = 1..(Len(q) + 1)
      /\ \A k \in 1..Len(q) : Append(q, e)[k] = q[k] /\ q[k] \in Contents(q)
      /\ Append(q, e)[Len(q) + 1] = e
  BY DEF Contents
<1> SUFFICES ASSUME NEW i \in 1..(Len(q) + 1), NEW j \in 1..(Len(q) + 1), i < j,
                    Append(q, e)[i] # STOP, Append(q, e)[j] # STOP
             PROVE  Append(q, e)[i] < Append(q, e)[j]
  BY <1>1 DEF Ordered
<1>2. i \in 1..Len(q)
  BY <1>1
<1>3. CASE j \in 1..Len(q)
  BY <1>1, <1>2, <1>3 DEF Ordered
<1>4. CASE j = Len(q) + 1
  BY <1>1, <1>2, <1>4
<1>5. QED
  BY <1>1, <1>3, <1>4

\* A get keeps the order, and takes the oldest work unless it takes a sentinel.
LEMMA TailOrdered ==
    ASSUME NEW q \in Seq(Nat), q # <<>>, Ordered(q)
    PROVE  /\ Ordered(Tail(q))
           /\ Head(q) # STOP => \A n \in Contents(q) \ {STOP} : Head(q) <= n
<1>1. /\ DOMAIN q = 1..Len(q) /\ Len(q) \in Nat \ {0} /\ Head(q) = q[1]
      /\ DOMAIN Tail(q) = 1..(Len(q) - 1)
      /\ \A k \in 1..Len(q) : q[k] \in Nat
  OBVIOUS
<1>2. \A k \in 1..(Len(q) - 1) : Tail(q)[k] = q[k + 1] /\ k + 1 \in 1..Len(q)
  OBVIOUS
<1>3. Ordered(Tail(q))
  <2> SUFFICES ASSUME NEW i \in 1..(Len(q) - 1), NEW j \in 1..(Len(q) - 1), i < j,
                      Tail(q)[i] # STOP, Tail(q)[j] # STOP
               PROVE  Tail(q)[i] < Tail(q)[j]
    BY <1>1 DEF Ordered
  <2>1. i + 1 < j + 1
    OBVIOUS
  <2>2. QED
    BY <2>1, <1>1, <1>2 DEF Ordered
<1>4. ASSUME Head(q) # STOP, NEW n \in Contents(q) \ {STOP} PROVE Head(q) <= n
  <2>1. PICK k \in 1..Len(q) : q[k] = n
    BY <1>1, <1>4 DEF Contents
  <2>2. CASE k = 1
    BY <2>1, <2>2, <1>1
  <2>3. CASE k # 1
    <3>1. 1 \in DOMAIN q /\ k \in DOMAIN q /\ 1 < k
      BY <2>3, <1>1
    <3>2. q[1] < q[k]
      BY <3>1, <2>1, <1>1, <1>4 DEF Ordered
    <3>3. QED
      BY <3>2, <2>1, <1>1
  <2>4. QED
    BY <2>2, <2>3
<1>5. QED
  BY <1>3, <1>4

\* There is no more work in a queue than the queue is long.
LEMMA WorkFits ==
    ASSUME NEW q \in Seq(Nat)
    PROVE  /\ IsFiniteSet(Contents(q) \ {STOP})
           /\ Cardinality(Contents(q) \ {STOP}) \in Nat
           /\ Cardinality(Contents(q) \ {STOP}) <= Len(q)
<1>0. Len(q) \in Nat /\ Len(q) \in Int /\ 1 \in Int
  OBVIOUS
<1>1. IsFiniteSet(1..Len(q)) /\ Cardinality(1..Len(q)) = Len(q)
  <2>1. /\ IsFiniteSet(1..Len(q))
        /\ Cardinality(1..Len(q)) = IF 1 > Len(q) THEN 0 ELSE Len(q) - 1 + 1
    BY <1>0, FS_Interval
  <2>2. QED
    BY <2>1, <1>0
<1>2. q \in Surjection(1..Len(q), Contents(q))
  BY DEF Contents, Surjection
<1>3. IsFiniteSet(Contents(q)) /\ Cardinality(Contents(q)) <= Len(q)
  BY <1>1, <1>2, FS_Surjection
<1>4. Contents(q) \ {STOP} \subseteq Contents(q)
  OBVIOUS
<1>5. /\ IsFiniteSet(Contents(q) \ {STOP})
      /\ Cardinality(Contents(q) \ {STOP}) <= Cardinality(Contents(q))
  BY <1>3, <1>4, FS_Subset
<1>6. Cardinality(Contents(q) \ {STOP}) \in Nat /\ Cardinality(Contents(q)) \in Nat
  BY <1>3, <1>5, FS_CardinalityType
<1>7. QED
  BY <1>0, <1>3, <1>5, <1>6

\* What a worker runs, as the contract sees it.
Job(w) == IF wpc[w] = "run" THEN held[w] ELSE NoItem

\* A step that leaves what the contract sees.
LEMMA ContractUnseen ==
    ASSUME puts' = puts, Queued' = Queued, finished' = finished, evicted' = evicted,
           \A w \in Workers : Job(w)' = Job(w)
    PROVE  UNCHANGED Contract!vars
  BY DEF Contract!vars, Job

-----------------------------------------------------------------------------
\* Every step keeps the order and is a step of the contract, or one the contract
\* does not see.
RefinedStep == Ordered(queue)' /\ [Contract!Next]_(Contract!vars)

\* A step that leaves the queue and what the contract sees.
LEMMA StepUnseen ==
    ASSUME Ordered(queue), queue' = queue, puts' = puts, finished' = finished,
           evicted' = evicted, \A w \in Workers : Job(w)' = Job(w)
    PROVE  RefinedStep
<1>1. Queued' = Queued
  BY DEF Queued, Contents
<1>2. UNCHANGED Contract!vars
  BY <1>1, ContractUnseen
<1>3. QED
  BY <1>2 DEF RefinedStep, Ordered

\* A put that succeeds is the contract's Accept: the callable is newer than all
\* that wait, and there was room.
LEMMA PutAccepts ==
    ASSUME RunnerInv, Ordered(queue), Put(puts + 1), puts' = puts + 1,
           UNCHANGED <<finished, evicted, wpc, held>>
    PROVE  RefinedStep
<1>1. /\ queue \in Seq(Nat) /\ puts \in Nat /\ puts + 1 # STOP
      /\ queue' = Append(queue, puts + 1) /\ Len(queue) < QueueSize /\ QueueSize \in Nat
  BY RunnerAssumption DEF RunnerInv, TypeOK, Put, STOP
<1>2. \A n \in Contents(queue) : n < puts + 1
  <2>1. Contents(queue) \subseteq (1..puts) \cup {STOP}
    BY DEF RunnerInv, ItemConserved, Queued, Items
  <2>2. QED
    BY <2>1, <1>1 DEF STOP
<1>3. Ordered(queue)'
  BY <1>1, <1>2, AppendOrdered
<1>4. Queued' = Queued \cup {puts'}
  BY <1>1, AppendContents DEF Queued
<1>5. Cardinality(Queued) < QueueSize
  <2>1. Cardinality(Queued) \in Nat /\ Cardinality(Queued) <= Len(queue)
    BY <1>1, WorkFits DEF Queued
  <2>2. QED
    BY <2>1, <1>1
<1>6. Contract!Cardinality(Queued) = Cardinality(Queued)
  BY DEF Contract!Cardinality, Cardinality
<1>7. [w \in Workers |-> Job(w)]' = [w \in Workers |-> Job(w)]
  BY DEF Job
<1>8. Contract!Accept
  BY <1>4, <1>5, <1>6, <1>7 DEF Contract!Accept, Job
<1>9. QED
  BY <1>3, <1>8 DEF RefinedStep, Contract!Next

\* What a get from the queue does to the work that waits.
LEMMA HeadTaken ==
    ASSUME RunnerInv, Ordered(queue), queue # <<>>, queue' = Tail(queue)
    PROVE  /\ Ordered(queue)'
           /\ Head(queue) = STOP => Queued' = Queued
           /\ Head(queue) # STOP =>
                Contract!Oldest(Head(queue)) /\ Queued' = Queued \ {Head(queue)}
<1>1. queue \in Seq(Nat) /\ EachOnce(queue)
  BY DEF RunnerInv, TypeOK, ItemConserved
<1>2. /\ Contents(queue) = Contents(Tail(queue)) \cup {Head(queue)}
      /\ Head(queue) # STOP => Head(queue) \notin Contents(Tail(queue))
  BY <1>1, TailContents
<1>3. /\ Ordered(Tail(queue))
      /\ Head(queue) # STOP => \A n \in Queued : Head(queue) <= n
  BY <1>1, TailOrdered DEF Queued
<1>4. Queued' = Contents(Tail(queue)) \ {STOP}
  BY DEF Queued
<1>5. QED
  BY <1>2, <1>3, <1>4 DEF Queued, Contract!Oldest

\* One worker's job changes, the others' do not.
LEMMA ContractJobs ==
    ASSUME NEW w \in Workers, NEW what, Job(w)' = what,
           \A v \in Workers \ {w} : Job(v)' = Job(v)
    PROVE  [v \in Workers |-> Job(v)]' = [[v \in Workers |-> Job(v)] EXCEPT ![w] = what]
  OBVIOUS

\* The steps of submit().
LEMMA SubmitRefines ==
    ASSUME RunnerInv, Ordered(queue), NEW p \in Producers,
           SubmitRefused(p) \/ SubmitAdmitted(p) \/ SubmitStep(p)
    PROVE  RefinedStep
<1> USE DEF queueVars, dropVars, workerVars, closerVars, producerVars
<1>1. CASE TryPut(p) \/ RetryPut(p)
  BY <1>1, PutAccepts DEF TryPut, RetryPut
<1>2. CASE DropOldest(p)
  <2>1. /\ queue # <<>> /\ queue' = Tail(queue)
        /\ evicted' = evicted \cup ({Head(queue)} \ {STOP})
        /\ UNCHANGED <<puts, finished, wpc, held>>
    BY <1>2 DEF DropOldest
  <2>2. \A w \in Workers : Job(w)' = Job(w)
    BY <2>1 DEF Job
  <2>3. CASE Head(queue) = STOP
    <3>1. Ordered(queue)' /\ Queued' = Queued
      BY <2>1, <2>3, HeadTaken
    <3>2. UNCHANGED Contract!vars
      BY <3>1, <2>1, <2>2, <2>3, ContractUnseen
    <3>3. QED
      BY <3>1, <3>2 DEF RefinedStep
  <2>4. CASE Head(queue) # STOP
    <3>1. /\ Ordered(queue)'
          /\ Contract!Oldest(Head(queue)) /\ Queued' = Queued \ {Head(queue)}
      BY <2>1, <2>4, HeadTaken
    <3>2. Head(queue) \in Queued /\ evicted' = evicted \cup {Head(queue)}
      BY <3>1, <2>1, <2>4 DEF Contract!Oldest
    <3>3. [w \in Workers |-> Job(w)]' = [w \in Workers |-> Job(w)]
      BY <2>1 DEF Job
    <3>4. Contract!DropOldest
      BY <3>1, <3>2, <3>3, <2>1 DEF Contract!DropOldest, Job
    <3>5. QED
      BY <3>1, <3>4 DEF RefinedStep, Contract!Next
  <2>5. QED
    BY <2>3, <2>4
<1>3. ASSUME SubmitRefused(p) \/ SubmitAdmitted(p) \/ TryPutFull(p) \/ AcquireDropLock(p)
               \/ DropNothing(p) \/ FinishDrop(p) \/ RetryPutFull(p)
      PROVE  RefinedStep
  <2>1. UNCHANGED <<queue, puts, finished, evicted, wpc, held>>
    BY <1>3
       DEF SubmitRefused, SubmitAdmitted, TryPutFull, AcquireDropLock, DropNothing,
           FinishDrop, RetryPutFull
  <2>2. \A w \in Workers : Job(w)' = Job(w)
    BY <2>1 DEF Job
  <2>3. QED
    BY <2>1, <2>2, StepUnseen
<1>4. QED
  BY <1>1, <1>2, <1>3 DEF SubmitStep

\* The steps of a worker.
LEMMA WorkRefines ==
    ASSUME RunnerInv, Ordered(queue), NEW w \in Workers, WorkerStep(w)
    PROVE  RefinedStep
<1> USE DEF queueVars, dropVars, workerVars, closerVars, producerVars
<1>1. wpc \in [Workers -> {"get", "run", "finish", "stop", "exited"}] /\ DOMAIN held = Workers
  BY DEF RunnerInv, TypeOK
<1>2. CASE Get(w)
  <2>1. /\ wpc[w] = "get" /\ queue # <<>> /\ queue' = Tail(queue)
        /\ UNCHANGED <<puts, finished, evicted>>
        /\ held' = [held EXCEPT ![w] = Head(queue)]
        /\ wpc' = [wpc EXCEPT ![w] = IF Head(queue) = STOP THEN "stop" ELSE "run"]
    BY <1>2 DEF Get
  <2>2. \A v \in Workers \ {w} : Job(v)' = Job(v)
    BY <2>1, <1>1 DEF Job
  <2>3. Job(w) = NoItem
    BY <2>1 DEF Job
  <2>4. CASE Head(queue) = STOP
    <3>1. Ordered(queue)' /\ Queued' = Queued
      BY <2>1, <2>4, HeadTaken
    <3>2. Job(w)' = NoItem
      BY <2>1, <2>4, <1>1 DEF Job
    <3>3. UNCHANGED Contract!vars
      BY <3>1, <3>2, <2>1, <2>2, <2>3, ContractUnseen
    <3>4. QED
      BY <3>1, <3>3 DEF RefinedStep
  <2>5. CASE Head(queue) # STOP
    <3>1. /\ Ordered(queue)'
          /\ Contract!Oldest(Head(queue)) /\ Queued' = Queued \ {Head(queue)}
      BY <2>1, <2>5, HeadTaken
    <3>2. Head(queue) \in Queued
      BY <3>1 DEF Contract!Oldest
    <3>3. Job(w)' = Head(queue)
      BY <2>1, <2>5, <1>1 DEF Job
    <3>4. [v \in Workers |-> Job(v)]' = [[v \in Workers |-> Job(v)] EXCEPT ![w] = Head(queue)]
      BY <3>3, <2>2, ContractJobs
    <3>5. [v \in Workers |-> Job(v)][w] = NoItem
      BY <2>3
    <3>6. Contract!Take(w)
      BY <3>1, <3>2, <3>4, <3>5, <2>1 DEF Contract!Take, Job
    <3>7. QED
      BY <3>1, <3>6 DEF RefinedStep, Contract!Next
  <2>6. QED
    BY <2>4, <2>5
<1>3. CASE RunItem(w)
  <2>1. /\ wpc[w] = "run" /\ wpc' = [wpc EXCEPT ![w] = "finish"]
        /\ finished' = finished \cup {held[w]}
        /\ UNCHANGED <<queue, puts, evicted, held>>
    BY <1>3 DEF RunItem
  <2>2. \A v \in Workers \ {w} : Job(v)' = Job(v)
    BY <2>1, <1>1 DEF Job
  <2>3. Job(w) = held[w] /\ Job(w)' = NoItem
    BY <2>1, <1>1 DEF Job
  <2>4. held[w] # NoItem
    <3>1. held[w] \in Items /\ puts \in Nat
      BY <2>1 DEF RunnerInv, TypeOK, ItemConserved, Running
    <3>2. QED
      BY <3>1 DEF Items, NoItem
  <2>5. [v \in Workers |-> Job(v)]' = [[v \in Workers |-> Job(v)] EXCEPT ![w] = NoItem]
    BY <2>3, <2>2, ContractJobs
  <2>6. Queued' = Queued /\ Ordered(queue)'
    BY <2>1 DEF Queued, Contents, Ordered
  <2>7. [v \in Workers |-> Job(v)][w] = held[w]
    BY <2>3
  <2>8. Contract!Complete(w)
    BY <2>1, <2>4, <2>5, <2>6, <2>7 DEF Contract!Complete, Job
  <2>9. QED
    BY <2>6, <2>8 DEF RefinedStep, Contract!Next
<1>4. CASE TaskDone(w)
  <2>1. /\ wpc[w] \in {"finish", "stop"}
        /\ wpc' = [wpc EXCEPT ![w] = IF wpc[w] = "stop" THEN "exited" ELSE "get"]
        /\ held' = [held EXCEPT ![w] = NoItem]
        /\ UNCHANGED <<queue, puts, finished, evicted>>
    BY <1>4 DEF TaskDone
  <2>2. \A v \in Workers : Job(v)' = Job(v)
    BY <2>1, <1>1 DEF Job
  <2>3. QED
    BY <2>1, <2>2, StepUnseen
<1>5. QED
  BY <1>2, <1>3, <1>4 DEF WorkerStep

\* The steps of shutdown(): a sentinel is no work.
LEMMA ShutdownRefines ==
    ASSUME RunnerInv, Ordered(queue), NEW c \in Closers, CloserStep(c)
    PROVE  RefinedStep
<1> USE DEF queueVars, dropVars, workerVars, closerVars, producerVars
<1>1. UNCHANGED <<puts, finished, evicted, wpc, held>>
  BY DEF CloserStep, CloseFirst, CloseAgain, DrainEmptied, DrainSettled,
         DrainTimesOut, DrainReturns, PostStop, PostStopFull, JoinWorkers
<1>2. \A w \in Workers : Job(w)' = Job(w)
  BY <1>1 DEF Job
<1>3. CASE PostStop(c)
  <2>1. queue \in Seq(Nat) /\ queue' = Append(queue, STOP) /\ STOP \in Nat
    BY <1>3 DEF RunnerInv, TypeOK, PostStop, Put, STOP
  <2>2. Ordered(queue)'
    BY <2>1, AppendOrdered
  <2>3. Queued' = Queued
    BY <2>1, AppendContents DEF Queued
  <2>4. UNCHANGED Contract!vars
    BY <2>3, <1>1, <1>2, ContractUnseen
  <2>5. QED
    BY <2>2, <2>4 DEF RefinedStep
<1>4. CASE ~PostStop(c)
  <2>1. queue' = queue
    BY <1>4
       DEF CloserStep, CloseFirst, CloseAgain, DrainEmptied, DrainSettled,
           DrainTimesOut, DrainReturns, PostStopFull, JoinWorkers
  <2>2. QED
    BY <2>1, <1>1, <1>2, StepUnseen
<1>5. QED
  BY <1>3, <1>4

LEMMA StepRefines == RunnerInv /\ Ordered(queue) /\ [Next]_vars => RefinedStep
<1> SUFFICES ASSUME RunnerInv, Ordered(queue), [Next]_vars PROVE RefinedStep
  OBVIOUS
<1>1. CASE EmitDropLog \/ UNCHANGED vars
  <2>1. UNCHANGED <<queue, puts, finished, evicted, wpc, held>>
    BY <1>1 DEF EmitDropLog, vars, queueVars, dropVars, workerVars, closerVars, producerVars
  <2>2. \A w \in Workers : Job(w)' = Job(w)
    BY <2>1 DEF Job
  <2>3. QED
    BY <2>1, <2>2, StepUnseen
<1>2. QED
  BY <1>1, SubmitRefines, WorkRefines, ShutdownRefines DEF Next

\* For any number of threads and any queue size, the runner implements the bounded
\* queue of its documentation: work is taken and dropped oldest first, and nothing
\* that was accepted ends elsewhere.
THEOREM RunnerImplementsContract == Spec => KeepsContract
<1>1. Init => Contract!Init /\ Ordered(queue)
  <2> SUFFICES ASSUME Init PROVE Contract!Init /\ Ordered(queue)
    OBVIOUS
  <2>1. queue = <<>> /\ puts = 0 /\ finished = {} /\ evicted = {} /\ Queued = {}
    BY DEF Init, Queued, Contents
  <2>2. [w \in Workers |-> Job(w)] = [w \in Workers |-> NoItem]
    BY DEF Init, Job
  <2>3. Contract!Init
    BY <2>1, <2>2 DEF Contract!Init, Job
  <2>4. QED
    BY <2>1, <2>3 DEF Ordered
<1>2. RunnerInv /\ Ordered(queue) /\ [Next]_vars
        => Ordered(queue)' /\ [Contract!Next]_(Contract!vars)
  BY StepRefines DEF RefinedStep
<1>3. QED
  BY <1>1, <1>2, RunnerInvariant, PTL DEF Spec, Contract!Spec, KeepsContract

=============================================================================
