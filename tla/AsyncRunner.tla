---------------------------- MODULE AsyncRunner ----------------------------
(***************************************************************************)
(* The bounded background work queue, class AsyncRunner of                 *)
(* async_runner.py: threads hand it callables with submit(), worker        *)
(* threads take them off a queue.Queue, and shutdown() drains the queue    *)
(* and posts one _STOP per worker.                                         *)
(*                                                                         *)
(* submit() is not atomic.  It reads _closed without the lock, tries       *)
(* put_nowait without the lock and, on Full, takes self._lock to evict the *)
(* oldest entry and to try again; between those steps workers, other       *)
(* producers and a shutdown run.  Each step below is one operation the     *)
(* interpreter can be preempted around: a queue operation (queue.Queue has *)
(* its own mutex) or a section under self._lock.                           *)
(*                                                                         *)
(* A callable is named by the position of its put: the n-th successful     *)
(* put of a callable is item n.  So 1..puts are the items submit()         *)
(* answered True for.                                                      *)
(***************************************************************************)
EXTENDS Integers, Sequences, FiniteSets

CONSTANTS
    Producers,  \* threads that call submit()
    Workers,    \* the daemon threads started by __init__
    Closers,    \* threads that call shutdown(), maybe more than once
    QueueSize,  \* Queue(maxsize=queue_size)
    MaxCalls,   \* bound on the number of submit() calls
    NoThread    \* nobody holds self._lock

ASSUME RunnerAssumption ==
    /\ IsFiniteSet(Producers)
    /\ IsFiniteSet(Workers)
    /\ QueueSize \in Nat \ {0}
    /\ MaxCalls \in Nat
    /\ NoThread \notin Producers

STOP == 0          \* the _STOP sentinel
NoItem == -1       \* a worker that holds nothing

VARIABLES
    queue,      \* the entries of self._queue, oldest first
    unfinished, \* self._queue.unfinished_tasks
    closed,     \* self._closed
    lock,       \* the producer that holds self._lock, or NoThread
    dropped,    \* self._dropped
    bursts,     \* self._drop_bursts
    dropActive, \* self._drop_active
    logPending, \* self._drop_log_pending
    ppc,        \* where each producer is inside submit()
    wpc,        \* where each worker is inside _loop()
    held,       \* the entry each worker took from the queue
    cpc,        \* where each closer is inside shutdown()
    clean,      \* what drain() told each closer
    stops,      \* how many put_nowait(_STOP) each closer still has to make
    calls,      \* submit() calls made so far (bounded by MaxCalls)
    puts,       \* callables put so far: submit() answered True for 1..puts
    overflowed, \* answered False with the queue full twice
    evicted,    \* items dropped by drop-oldest
    evictedStops, \* sentinels dropped by drop-oldest
    finished    \* items whose callable ran

queueVars    == <<queue, unfinished>>
dropVars     == <<dropped, bursts, dropActive, logPending>>
workerVars   == <<wpc, held, finished>>
closerVars   == <<cpc, clean, stops>>
producerVars == <<ppc, calls, puts, overflowed, evicted, evictedStops>>
vars == <<queueVars, closed, lock, dropVars, workerVars, closerVars, producerVars>>

Items == 1..puts
Contents(q) == {q[k] : k \in DOMAIN q}
Queued == Contents(queue) \ {STOP}
Holding == {w \in Workers : wpc[w] \in {"run", "finish", "stop"}}
Running == {held[w] : w \in {v \in Workers : wpc[v] = "run"}}
Evicting == {p \in Producers : ppc[p] = "evicted"}

Init ==
    /\ queue = <<>>
    /\ unfinished = 0
    /\ closed = FALSE
    /\ lock = NoThread
    /\ dropped = 0
    /\ bursts = 0
    /\ dropActive = FALSE
    /\ logPending = FALSE
    /\ ppc = [p \in Producers |-> "idle"]
    /\ wpc = [w \in Workers |-> "get"]
    /\ held = [w \in Workers |-> NoItem]
    /\ cpc = [c \in Closers |-> "open"]
    /\ clean = [c \in Closers |-> FALSE]
    /\ stops = [c \in Closers |-> 0]
    /\ calls = 0
    /\ puts = 0
    /\ overflowed = 0
    /\ evicted = {}
    /\ evictedStops = 0
    /\ finished = {}

-----------------------------------------------------------------------------
(* submit() and the drop-oldest path.                                      *)

\* queue.put_nowait of the entry e, when there is room.
Put(e) ==
    /\ Len(queue) < QueueSize
    /\ queue' = Append(queue, e)
    /\ unfinished' = unfinished + 1

\* _mark_drop_locked: _drop_active is never cleared again.
MarkDrop ==
    /\ dropped' = dropped + 1
    /\ dropActive' = TRUE
    /\ bursts' = IF dropActive THEN bursts ELSE bursts + 1
    /\ logPending' = (logPending \/ ~dropActive)

\* submit() finds the runner closed.
SubmitRefused(p) ==
    /\ ppc[p] = "idle"
    /\ closed
    /\ calls < MaxCalls
    /\ calls' = calls + 1
    /\ UNCHANGED <<queueVars, closed, lock, dropVars, workerVars, closerVars,
                   ppc, puts, overflowed, evicted, evictedStops>>

\* submit() reads _closed as False and goes on to put_nowait.
SubmitAdmitted(p) ==
    /\ ppc[p] = "idle"
    /\ ~closed
    /\ calls < MaxCalls
    /\ calls' = calls + 1
    /\ ppc' = [ppc EXCEPT ![p] = "put"]
    /\ UNCHANGED <<queueVars, closed, lock, dropVars, workerVars, closerVars,
                   puts, overflowed, evicted, evictedStops>>

\* The first _try_put succeeds; submit() answers True.
TryPut(p) ==
    /\ ppc[p] = "put"
    /\ Put(puts + 1)
    /\ puts' = puts + 1
    /\ ppc' = [ppc EXCEPT ![p] = "idle"]
    /\ UNCHANGED <<closed, lock, dropVars, workerVars, closerVars,
                   calls, overflowed, evicted, evictedStops>>

\* Faulty variant: queue.Full is swallowed and submit() answers True anyway.
TryPutFullAnswersTrue(p) ==
    /\ ppc[p] = "put"
    /\ Len(queue) >= QueueSize
    /\ puts' = puts + 1
    /\ ppc' = [ppc EXCEPT ![p] = "idle"]
    /\ UNCHANGED <<queueVars, closed, lock, dropVars, workerVars, closerVars,
                   calls, overflowed, evicted, evictedStops>>

\* The first _try_put meets queue.Full.
TryPutFull(p) ==
    /\ ppc[p] = "put"
    /\ Len(queue) >= QueueSize
    /\ ppc' = [ppc EXCEPT ![p] = "lock"]
    /\ UNCHANGED <<queueVars, closed, lock, dropVars, workerVars, closerVars,
                   calls, puts, overflowed, evicted, evictedStops>>

\* _drop_oldest_and_put enters `with self._lock`.
AcquireDropLock(p) ==
    /\ ppc[p] = "lock"
    /\ lock = NoThread
    /\ lock' = p
    /\ ppc' = [ppc EXCEPT ![p] = "drop"]
    /\ UNCHANGED <<queueVars, closed, dropVars, workerVars, closerVars,
                   calls, puts, overflowed, evicted, evictedStops>>

\* Faulty variant: the newest entry is dropped, with the order of a stack.
DropNewest(p) ==
    /\ ppc[p] = "drop"
    /\ queue # <<>>
    /\ queue' = SubSeq(queue, 1, Len(queue) - 1)
    /\ evicted' = evicted \cup ({queue[Len(queue)]} \ {STOP})
    /\ evictedStops' = IF queue[Len(queue)] = STOP THEN evictedStops + 1 ELSE evictedStops
    /\ ppc' = [ppc EXCEPT ![p] = "evicted"]
    /\ UNCHANGED <<unfinished, closed, lock, dropVars, workerVars, closerVars,
                   calls, puts, overflowed>>

\* _drop_one_locked takes the oldest entry, whatever it is.
DropOldest(p) ==
    /\ ppc[p] = "drop"
    /\ queue # <<>>
    /\ queue' = Tail(queue)
    /\ evicted' = evicted \cup ({Head(queue)} \ {STOP})
    /\ evictedStops' = IF Head(queue) = STOP THEN evictedStops + 1 ELSE evictedStops
    /\ ppc' = [ppc EXCEPT ![p] = "evicted"]
    /\ UNCHANGED <<unfinished, closed, lock, dropVars, workerVars, closerVars,
                   calls, puts, overflowed>>

\* _drop_one_locked finds the queue emptied by the workers meanwhile.
DropNothing(p) ==
    /\ ppc[p] = "drop"
    /\ queue = <<>>
    /\ ppc' = [ppc EXCEPT ![p] = "retry"]
    /\ UNCHANGED <<queueVars, closed, lock, dropVars, workerVars, closerVars,
                   calls, puts, overflowed, evicted, evictedStops>>

\* Faulty variant: the evicted entry is never answered for with task_done().
FinishDropNoTaskDone(p) ==
    /\ ppc[p] = "evicted"
    /\ MarkDrop
    /\ ppc' = [ppc EXCEPT ![p] = "retry"]
    /\ UNCHANGED <<queueVars, closed, lock, workerVars, closerVars,
                   calls, puts, overflowed, evicted, evictedStops>>

\* task_done() for the evicted entry, then _mark_drop_locked.
FinishDrop(p) ==
    /\ ppc[p] = "evicted"
    /\ unfinished' = unfinished - 1
    /\ MarkDrop
    /\ ppc' = [ppc EXCEPT ![p] = "retry"]
    /\ UNCHANGED <<queue, closed, lock, workerVars, closerVars,
                   calls, puts, overflowed, evicted, evictedStops>>

\* Faulty variant: the early return skips the release of the lock.
RetryPutKeepsLock(p) ==
    /\ ppc[p] = "retry"
    /\ Put(puts + 1)
    /\ puts' = puts + 1
    /\ ppc' = [ppc EXCEPT ![p] = "idle"]
    /\ UNCHANGED <<closed, lock, dropVars, workerVars, closerVars,
                   calls, overflowed, evicted, evictedStops>>

\* The second _try_put succeeds; the lock is released.
RetryPut(p) ==
    /\ ppc[p] = "retry"
    /\ Put(puts + 1)
    /\ puts' = puts + 1
    /\ lock' = NoThread
    /\ ppc' = [ppc EXCEPT ![p] = "idle"]
    /\ UNCHANGED <<closed, dropVars, workerVars, closerVars,
                   calls, overflowed, evicted, evictedStops>>

\* Faulty variant: the callable that found no room is not counted as dropped.
RetryPutFullUncounted(p) ==
    /\ ppc[p] = "retry"
    /\ Len(queue) >= QueueSize
    /\ overflowed' = overflowed + 1
    /\ lock' = NoThread
    /\ ppc' = [ppc EXCEPT ![p] = "idle"]
    /\ UNCHANGED <<queueVars, closed, dropVars, workerVars, closerVars,
                   calls, puts, evicted, evictedStops>>

\* Another producer took the freed slot: the new callable is the one dropped.
RetryPutFull(p) ==
    /\ ppc[p] = "retry"
    /\ Len(queue) >= QueueSize
    /\ MarkDrop
    /\ overflowed' = overflowed + 1
    /\ lock' = NoThread
    /\ ppc' = [ppc EXCEPT ![p] = "idle"]
    /\ UNCHANGED <<queueVars, closed, workerVars, closerVars,
                   calls, puts, evicted, evictedStops>>

\* The dropped and drop_bursts properties log the pending saturation, once.
EmitDropLog ==
    /\ logPending
    /\ logPending' = FALSE
    /\ UNCHANGED <<queueVars, closed, lock, dropped, bursts, dropActive,
                   workerVars, closerVars, producerVars>>

-----------------------------------------------------------------------------
(* _loop() of a worker.                                                    *)

\* The worker takes the oldest entry.
Get(w) ==
    /\ wpc[w] = "get"
    /\ queue # <<>>
    /\ queue' = Tail(queue)
    /\ held' = [held EXCEPT ![w] = Head(queue)]
    /\ wpc' = [wpc EXCEPT ![w] = IF Head(queue) = STOP THEN "stop" ELSE "run"]
    /\ UNCHANGED <<unfinished, closed, lock, dropVars, finished, closerVars, producerVars>>

\* The callable returns or raises an Exception, which the loop swallows.
RunItem(w) ==
    /\ wpc[w] = "run"
    /\ finished' = finished \cup {held[w]}
    /\ wpc' = [wpc EXCEPT ![w] = "finish"]
    /\ UNCHANGED <<queueVars, closed, lock, dropVars, held, closerVars, producerVars>>

\* Faulty variant: the loop ends after one callable, as if it raised.
TaskDoneThenExit(w) ==
    /\ wpc[w] \in {"finish", "stop"}
    /\ unfinished' = unfinished - 1
    /\ held' = [held EXCEPT ![w] = NoItem]
    /\ wpc' = [wpc EXCEPT ![w] = "exited"]
    /\ UNCHANGED <<queue, closed, lock, dropVars, finished, closerVars, producerVars>>

\* The finally clause: task_done(), and for a _STOP the worker is gone.
TaskDone(w) ==
    /\ wpc[w] \in {"finish", "stop"}
    /\ unfinished' = unfinished - 1
    /\ held' = [held EXCEPT ![w] = NoItem]
    /\ wpc' = [wpc EXCEPT ![w] = IF wpc[w] = "stop" THEN "exited" ELSE "get"]
    /\ UNCHANGED <<queue, closed, lock, dropVars, finished, closerVars, producerVars>>

-----------------------------------------------------------------------------
(* shutdown().  Every wait in it is bounded by a timeout, so giving up is  *)
(* always possible while the awaited condition does not hold.              *)

\* _closed goes from False to True under the lock.
CloseFirst(c) ==
    /\ cpc[c] = "open"
    /\ lock = NoThread
    /\ ~closed
    /\ closed' = TRUE
    /\ cpc' = [cpc EXCEPT ![c] = "drain"]
    /\ UNCHANGED <<queueVars, lock, dropVars, workerVars, clean, stops, producerVars>>

\* Somebody closed it before: shutdown() answers True at once.
CloseAgain(c) ==
    /\ cpc[c] \in {"open", "returned"}
    /\ lock = NoThread
    /\ closed
    /\ clean' = [clean EXCEPT ![c] = TRUE]
    /\ cpc' = [cpc EXCEPT ![c] = "returned"]
    /\ UNCHANGED <<queueVars, closed, lock, dropVars, workerVars, stops, producerVars>>

\* drain(): the poll sees queue.empty().
DrainEmptied(c) ==
    /\ cpc[c] = "drain"
    /\ queue = <<>>
    /\ cpc' = [cpc EXCEPT ![c] = "settle"]
    /\ UNCHANGED <<queueVars, closed, lock, dropVars, workerVars, clean, stops, producerVars>>

\* drain() returns ok; shutdown() goes on to post the sentinels.
DrainReturns(c, ok) ==
    /\ clean' = [clean EXCEPT ![c] = ok]
    /\ stops' = [stops EXCEPT ![c] = Cardinality(Workers)]
    /\ cpc' = [cpc EXCEPT ![c] = "post"]
    /\ UNCHANGED <<queueVars, closed, lock, dropVars, workerVars, producerVars>>

\* Faulty variant: an empty queue is taken for finished work.
DrainSettledEarly(c) ==
    /\ cpc[c] = "settle"
    /\ DrainReturns(c, TRUE)

\* drain(): unfinished_tasks is 0 after the queue was seen empty.
DrainSettled(c) ==
    /\ cpc[c] = "settle"
    /\ unfinished = 0
    /\ DrainReturns(c, TRUE)

\* drain(): the deadline passes in either poll.
DrainTimesOut(c) ==
    /\ \/ cpc[c] = "drain" /\ queue # <<>>
       \/ cpc[c] = "settle" /\ unfinished > 0
    /\ DrainReturns(c, FALSE)

\* put_nowait(_STOP) for one worker.
PostStop(c) ==
    /\ cpc[c] = "post"
    /\ stops[c] > 0
    /\ Put(STOP)
    /\ stops' = [stops EXCEPT ![c] = @ - 1]
    /\ UNCHANGED <<closed, lock, dropVars, workerVars, cpc, clean, producerVars>>

\* put_nowait(_STOP) meets queue.Full, which is passed over.
PostStopFull(c) ==
    /\ cpc[c] = "post"
    /\ stops[c] > 0
    /\ Len(queue) >= QueueSize
    /\ stops' = [stops EXCEPT ![c] = @ - 1]
    /\ UNCHANGED <<queueVars, closed, lock, dropVars, workerVars, cpc, clean, producerVars>>

\* The joins return, each because its worker exited or after its timeout.
JoinWorkers(c) ==
    /\ cpc[c] = "post"
    /\ stops[c] = 0
    /\ cpc' = [cpc EXCEPT ![c] = "returned"]
    /\ UNCHANGED <<queueVars, closed, lock, dropVars, workerVars, clean, stops, producerVars>>

-----------------------------------------------------------------------------
\* A producer that has entered submit() and not yet returned.
SubmitStep(p) ==
    \/ TryPut(p) \/ TryPutFull(p) \/ AcquireDropLock(p)
    \/ DropOldest(p) \/ DropNothing(p) \/ FinishDrop(p)
    \/ RetryPut(p) \/ RetryPutFull(p)

WorkerStep(w) == Get(w) \/ RunItem(w) \/ TaskDone(w)

CloserStep(c) ==
    \/ CloseFirst(c) \/ CloseAgain(c)
    \/ DrainEmptied(c) \/ DrainSettled(c) \/ DrainTimesOut(c)
    \/ PostStop(c) \/ PostStopFull(c) \/ JoinWorkers(c)

Next ==
    \/ \E p \in Producers : SubmitRefused(p) \/ SubmitAdmitted(p) \/ SubmitStep(p)
    \/ \E w \in Workers : WorkerStep(w)
    \/ \E c \in Closers : CloserStep(c)
    \/ EmitDropLog

Spec == Init /\ [][Next]_vars

(***************************************************************************)
(* A thread inside submit() waits for nothing but self._lock, which is     *)
(* held for a few steps only; a worker's callable ends because every HTTP  *)
(* request the plugin makes carries a timeout; a thread inside shutdown()  *)
(* is running or in a bounded wait.  Nobody has to call submit() or        *)
(* shutdown().                                                             *)
(***************************************************************************)
Fairness ==
    /\ \A p \in Producers : WF_vars(SubmitStep(p))
    /\ \A w \in Workers : WF_vars(WorkerStep(w))
    /\ \A c \in Closers : WF_vars(cpc[c] # "open" /\ CloserStep(c))

FairSpec == Spec /\ Fairness

-----------------------------------------------------------------------------
(* Properties.                                                             *)

TypeOK ==
    /\ queue \in Seq(Nat)
    /\ Len(queue) <= QueueSize
    /\ unfinished \in Nat
    /\ closed \in BOOLEAN
    /\ lock \in Producers \cup {NoThread}
    /\ dropped \in Nat
    /\ bursts \in Nat
    /\ dropActive \in BOOLEAN
    /\ logPending \in BOOLEAN
    /\ ppc \in [Producers -> {"idle", "put", "lock", "drop", "evicted", "retry"}]
    /\ wpc \in [Workers -> {"get", "run", "finish", "stop", "exited"}]
    /\ held \in [Workers -> Nat \cup {NoItem}]
    /\ cpc \in [Closers -> {"open", "drain", "settle", "post", "returned"}]
    /\ clean \in [Closers -> BOOLEAN]
    /\ stops \in [Closers -> 0..Cardinality(Workers)]
    /\ calls \in 0..MaxCalls
    /\ puts \in Nat
    /\ overflowed \in Nat
    /\ evicted \subseteq Nat
    /\ evictedStops \in Nat
    /\ finished \subseteq Nat

\* self._lock is held exactly by the producer inside _drop_oldest_and_put, so
\* no two evictions (and no eviction and close) overlap.
LockDiscipline ==
    \A p \in Producers : (lock = p) <=> (ppc[p] \in {"drop", "evicted", "retry"})

\* unfinished_tasks counts the entries still queued, those a worker took and
\* has not answered for with task_done(), and those a producer has evicted and
\* not answered for: no path forgets or repeats a task_done(), whichever
\* thread took the entry.  drain() relies on it.
UnfinishedExact ==
    unfinished = Len(queue) + Cardinality(Holding) + Cardinality(Evicting)

\* No callable is in the queue q twice (sentinels may be).
EachOnce(q) == \A i, j \in DOMAIN q : i # j /\ q[i] = q[j] => q[i] = STOP

\* A callable submit() accepted is in exactly one place: queued once, in the
\* hands of one worker, run, or evicted.  Eviction racing a worker's get()
\* neither loses nor repeats work.
ItemConserved ==
    /\ Items = Queued \cup Running \cup finished \cup evicted
    /\ Queued \cap (Running \cup finished \cup evicted) = {}
    /\ Running \cap (finished \cup evicted) = {}
    /\ finished \cap evicted = {}
    /\ EachOnce(queue)
    /\ \A v, w \in Workers : v # w /\ wpc[v] = "run" /\ wpc[w] = "run" => held[v] # held[w]

\* The dropped diagnostic is exact: it counts every evicted entry and every
\* callable answered False because the queue was full twice, apart from an
\* eviction between its get_nowait() and its _mark_drop_locked().
DropCountExact ==
    dropped + Cardinality(Evicting) = Cardinality(evicted) + evictedStops + overflowed

\* When a drain reports a clean result, every callable accepted up to that
\* moment has run or was evicted: nothing is in a worker's hands any more.
CleanDrainSettles ==
    [][\A c \in Closers : DrainSettled(c) => Items \subseteq finished \cup evicted]_vars

\* A callable accepted while the runner was open is eventually run or evicted,
\* also when a shutdown gives up waiting for it: the sentinels come after it.
AcceptedOpenSettles ==
    \A n \in 1..MaxCalls : (n \in Items /\ ~closed) ~> (n \in finished \cup evicted)

\* submit() always returns: no producer is blocked for ever by the lock or by
\* the place another takes; and so does shutdown(), whatever the workers do.
CallsReturn ==
    /\ \A p \in Producers : (ppc[p] # "idle") ~> (ppc[p] = "idle")
    /\ \A c \in Closers : (cpc[c] # "open") ~> (cpc[c] = "returned")

\* What callers rely on: whatever producers, workers and shutdowns do, the runner
\* is a bounded queue that runs accepted work oldest first, each piece at most
\* once, and drops nothing but the oldest that waits (async_runner.py:18-20).
\* Sentinels are no work.
Contract == INSTANCE RunnerContract
              WITH Capacity <- QueueSize, NoWork <- NoItem,
                   accepted <- puts, waiting <- Queued, done <- finished, lost <- evicted,
                   job <- [w \in Workers |-> IF wpc[w] = "run" THEN held[w] ELSE NoItem]

KeepsContract == Contract!Spec

=============================================================================
