------------------------------ MODULE Lifecycle ------------------------------
(***************************************************************************)
(* The life of the plugin inside one Hermes process: the process-wide      *)
(* runner (async_runner.py, get_runner, submit and shutdown), the provider *)
(* that is brought up by a job, skips cron contexts and is shut down       *)
(* (provider_lifecycle.py, __init__.py), and the telemetry lines that      *)
(* hooks and requests submit to the same runner (telemetry.py).            *)
(*                                                                         *)
(* Hermes' threads call hooks and shutdown(); the workers of a runner take *)
(* jobs and submit jobs themselves.  AsyncRunner models the inside of one  *)
(* runner step by step; here an eviction and the put after it are one      *)
(* step, and a drain or a join ends when it likes: emptied, or timed out.  *)
(* Every runner ever made has a number, and _runner is the last.           *)
(***************************************************************************)
EXTENDS Integers, FiniteSets, SequencesExt

CONSTANTS
    Hosts,       \* threads of Hermes that call the provider
    PerRunner,   \* worker threads of a runner
    QueueSize,   \* what the queue of a runner holds at most
    NoThread,
    Logs,        \* whether $HERMES_HOME/logs exists, so that telemetry is persisted
    MaxCalls,    \* bound on the hooks and initialisations called
    MaxShutdowns \* bound on the calls of shutdown()

ASSUME LifecycleAssumption ==
    /\ PerRunner \in Nat \ {0} /\ QueueSize \in Nat \ {0} /\ Logs \in BOOLEAN
    /\ MaxCalls \in Nat /\ MaxShutdowns \in Nat
    /\ Hosts \cap ((1..MaxShutdowns + 1) \X (1..PerRunner)) = {}
    /\ NoThread \notin Hosts

VARIABLES
    lock,    \* the thread that holds _runner_lock while it shuts the runner down
    runner,  \* number of the runner _runner, 0 for None
    closed,  \* runners whose shutdown has begun
    queue,   \* what is queued in each runner
    missed,  \* how many STOPs of each runner found it full, or were evicted
    th,      \* what each thread is doing
    cron,    \* p._cron_skipped
    client,  \* number of the client p._client, 0 for None
    clients, \* number of clients made
    shut,    \* clients closed by shutdown()
    calls, shutdowns

runnerVars == <<lock, runner, closed, queue, missed>>
providerVars == <<cron, client, clients, shut>>
vars == <<runnerVars, th, providerVars, calls, shutdowns>>

\* A runner is made at the first submit and at the first after each shutdown.
Runners == 1..MaxShutdowns + 1
WorkersOf(r) == {r} \X (1..PerRunner)
Workers == Runners \X (1..PerRunner)
Threads == Hosts \cup Workers

Job(kind, on) == [kind |-> kind, on |-> on]
BringUp == Job("bringup", 0)   \* _bring_up_server()
Request(c) == Job("request", c) \* a recall or a write through client c
Line == Job("line", 0)         \* _persist_line()
Stop == Job("stop", 0)

\* at: where the thread is; job: what a worker runs; todo: what the thread has yet to
\* submit, and afterwards: where it goes then; on: the runner it submits to;
\* made: the client its bring-up has made.
Thread(at, job, todo, afterwards, on, made) ==
    [at |-> at, job |-> job, todo |-> todo, afterwards |-> afterwards, on |-> on, made |-> made]
Idle == Thread("idle", Stop, <<>>, "idle", 0, 0)

Busy(t) == th[t].at \notin {"idle", "exited"}
Alive == ~cron /\ client # 0

Goes(t, at) == th' = [th EXCEPT ![t].at = at]
Rests(t) == th' = [th EXCEPT ![t] = Idle]

\* The thread submits todo, one after the other, and goes on to `where'.
Submits(t, todo, where) ==
    IF todo = <<>> /\ where = "idle" THEN Rests(t)
    ELSE th' = [th EXCEPT ![t] = Thread(IF todo = <<>> THEN where ELSE "get", Stop,
                                        todo, where, 0, @.made)]
\* The submit at hand is over.
Submitted(t) == Submits(t, Tail(th[t].todo), th[t].afterwards)

\* What record() submits: a line, or nothing when there is no log directory.
Recorded == IF Logs THEN <<Line>> ELSE <<>>

-----------------------------------------------------------------------------
(* Hermes calls the provider.                                              *)

\* A hook: its request if the provider is alive, and the telemetry of the timed ones.
Hook(h) ==
    /\ ~Busy(h) /\ calls < MaxCalls /\ calls' = calls + 1
    /\ \E lines \in {<<>>, Recorded} :
          Submits(h, (IF Alive THEN <<Request(client)>> ELSE <<>>) \o lines, "idle")
    /\ UNCHANGED <<runnerVars, providerVars, shutdowns>>

\* do_initialize() in a cron context.
InitializeCron(h) ==
    /\ ~Busy(h)
    /\ cron' = TRUE /\ client' = 0
    /\ UNCHANGED <<runnerVars, th, clients, shut, calls, shutdowns>>

\* do_initialize() otherwise: the bring-up is a job.
Initialize(h) ==
    /\ ~Busy(h) /\ calls < MaxCalls /\ calls' = calls + 1
    /\ Submits(h, <<BringUp>>, "idle")
    /\ UNCHANGED <<runnerVars, providerVars, shutdowns>>

Shutdown(h) ==
    /\ ~Busy(h) /\ shutdowns < MaxShutdowns /\ shutdowns' = shutdowns + 1
    /\ Goes(h, "lock")
    /\ UNCHANGED <<runnerVars, providerVars, calls>>

-----------------------------------------------------------------------------
(* submit(), by any thread.                                                *)

NeedsRunner == runner = 0 \/ runner \in closed

\* get_runner(): the test without the lock.
GetRunner(t) ==
    /\ th[t].at = "get"
    /\ th' = [th EXCEPT ![t].at = IF NeedsRunner THEN "wait" ELSE "put", ![t].on = runner]
    /\ UNCHANGED <<runnerVars, providerVars, calls, shutdowns>>

\* Faulty variant: the test is not repeated under the lock.
GetLockedUntested(t) ==
    /\ th[t].at = "wait" /\ lock = NoThread
    /\ runner' = runner + 1
    /\ th' = [th EXCEPT ![t].at = "put", ![t].on = runner']
    /\ UNCHANGED <<lock, closed, queue, missed, providerVars, calls, shutdowns>>

\* get_runner(): the test under the lock, and the new runner.
GetLocked(t) ==
    /\ th[t].at = "wait" /\ lock = NoThread
    /\ runner' = IF NeedsRunner THEN runner + 1 ELSE runner
    /\ th' = [th EXCEPT ![t].at = "put", ![t].on = runner']
    /\ UNCHANGED <<lock, closed, queue, missed, providerVars, calls, shutdowns>>

\* AsyncRunner.submit(): the test of _closed ...
Put(t) ==
    /\ th[t].at = "put"
    /\ IF th[t].on \in closed THEN Submitted(t) ELSE Goes(t, "place")
    /\ UNCHANGED <<runnerVars, providerVars, calls, shutdowns>>

\* ... and the job in the queue, which may have been closed meanwhile.  On a full
\* queue the oldest entry makes room, were it a STOP; or another submit was faster
\* to take that room, and this one is refused.
Place(t) ==
    /\ th[t].at = "place"
    /\ LET r == th[t].on  job == Head(th[t].todo)
       IN  \/ /\ Len(queue[r]) < QueueSize
              /\ queue' = [queue EXCEPT ![r] = Append(@, job)]
              /\ UNCHANGED missed
           \/ /\ Len(queue[r]) >= QueueSize
              /\ queue' = [queue EXCEPT ![r] = Append(Tail(@), job)]
              /\ missed' = IF Head(queue[r]) = Stop THEN [missed EXCEPT ![r] = @ + 1] ELSE missed
           \/ Len(queue[r]) >= QueueSize /\ UNCHANGED <<queue, missed>>
    /\ Submitted(t)
    /\ UNCHANGED <<lock, runner, closed, providerVars, calls, shutdowns>>

-----------------------------------------------------------------------------
(* The workers.                                                            *)

Take(w) ==
    /\ th[w].at = "idle" /\ queue[w[1]] # <<>>
    /\ LET job == Head(queue[w[1]])
       IN  th' = [th EXCEPT ![w].at = IF job = Stop THEN "exited" ELSE "run", ![w].job = job]
    /\ queue' = [queue EXCEPT ![w[1]] = Tail(@)]
    /\ UNCHANGED <<lock, runner, closed, missed, providerVars, calls, shutdowns>>

\* The line is in the file, or the file is not writable.
EndLine(w) ==
    /\ th[w].at = "run" /\ th[w].job = Line
    /\ Rests(w)
    /\ UNCHANGED <<runnerVars, providerVars, calls, shutdowns>>

\* The request has been answered or has failed; the client records it.
EndRequest(w) ==
    /\ th[w].at = "run" /\ th[w].job.kind = "request"
    /\ Submits(w, Recorded, "idle")
    /\ UNCHANGED <<runnerVars, providerVars, calls, shutdowns>>

\* The server does not run, or no client can be made.
BringUpFails(w) ==
    /\ th[w].at = "run" /\ th[w].job = BringUp
    /\ client' \in {client, 0}
    /\ Rests(w)
    /\ UNCHANGED <<runnerVars, cron, clients, shut, calls, shutdowns>>

\* A client is made and its health request recorded, whatever was the answer.
BringUpMakes(w) ==
    /\ th[w].at = "run" /\ th[w].job = BringUp
    /\ clients' = clients + 1
    /\ th' = [th EXCEPT ![w] = Thread(IF Logs THEN "get" ELSE "assign", Stop, Recorded,
                                      "assign", 0, clients')]
    /\ UNCHANGED <<runnerVars, cron, client, shut, calls, shutdowns>>

\* Faulty variant: the first recall is submitted for a client that was just made,
\* whatever became of the provider meanwhile.
BringUpAssignsAnyway(w) ==
    /\ th[w].at = "assign"
    /\ client' = th[w].made
    /\ \E recall \in {<<>>, <<Request(th[w].made)>>} : Submits(w, recall, "idle")
    /\ UNCHANGED <<runnerVars, cron, clients, shut, calls, shutdowns>>

\* p._client = client, and the first recall, unless a refresh is in flight.
BringUpAssigns(w) ==
    /\ th[w].at = "assign"
    /\ client' = th[w].made
    /\ \E recall \in {<<>>} \cup (IF cron THEN {} ELSE {<<Request(th[w].made)>>}) :
          Submits(w, recall, "idle")
    /\ UNCHANGED <<runnerVars, cron, clients, shut, calls, shutdowns>>

-----------------------------------------------------------------------------
(* The provider's shutdown().                                              *)

\* async_runner.shutdown() takes _runner_lock and keeps it; without a runner, or
\* with one that is closed already, there is nothing to drain.
LockRunner(h) ==
    /\ th[h].at = "lock" /\ lock = NoThread
    /\ IF NeedsRunner
         THEN Goes(h, "close") /\ UNCHANGED <<lock, closed>>
         ELSE Goes(h, "drain") /\ lock' = h /\ closed' = closed \cup {runner}
    /\ UNCHANGED <<runner, queue, missed, providerVars, calls, shutdowns>>

\* Faulty variant: after a drain that timed out the workers are not told to stop.
EndDrainCleanStops(h) ==
    /\ th[h].at = "drain"
    /\ IF queue[runner] = <<>> /\ \A w \in WorkersOf(runner) : ~Busy(w)
         THEN th' = [th EXCEPT ![h].at = "stop", ![h].todo = [i \in 1..PerRunner |-> Stop]]
         ELSE Goes(h, "join")
    /\ UNCHANGED <<runnerVars, providerVars, calls, shutdowns>>

\* The drain ends, emptied or timed out, ...
EndDrain(h) ==
    /\ th[h].at = "drain"
    /\ th' = [th EXCEPT ![h].at = "stop", ![h].todo = [i \in 1..PerRunner |-> Stop]]
    /\ UNCHANGED <<runnerVars, providerVars, calls, shutdowns>>

\* The next worker is told, or the last one has been.
Told(h) == th' = [th EXCEPT ![h].at = IF Len(th[h].todo) = 1 THEN "join" ELSE "stop",
                            ![h].todo = Tail(@)]

\* ... and one STOP for each worker is put in the queue, unless it is full.
PostStop(h) ==
    /\ th[h].at = "stop"
    /\ \/ /\ Len(queue[runner]) < QueueSize
          /\ queue' = [queue EXCEPT ![runner] = Append(@, Stop)]
          /\ UNCHANGED missed
       \/ /\ Len(queue[runner]) >= QueueSize
          /\ missed' = [missed EXCEPT ![runner] = @ + 1]
          /\ UNCHANGED queue
    /\ Told(h)
    /\ UNCHANGED <<lock, runner, closed, providerVars, calls, shutdowns>>

\* Faulty variant: the workers are joined without a timeout.
EndJoinForever(h) ==
    /\ th[h].at = "join"
    /\ \A w \in WorkersOf(runner) : th[w].at = "exited"
    /\ lock' = NoThread
    /\ Goes(h, "close")
    /\ UNCHANGED <<runner, closed, queue, missed, providerVars, calls, shutdowns>>

\* Faulty variant: the lock is not given back.
EndJoinKeepsLock(h) ==
    /\ th[h].at = "join"
    /\ Goes(h, "close")
    /\ UNCHANGED <<runnerVars, providerVars, calls, shutdowns>>

\* The workers have exited, or the join of each has timed out.
EndJoin(h) ==
    /\ th[h].at = "join"
    /\ lock' = NoThread
    /\ Goes(h, "close")
    /\ UNCHANGED <<runner, closed, queue, missed, providerVars, calls, shutdowns>>

\* Faulty variant: the client is closed and kept.
CloseClientOnly(h) ==
    /\ th[h].at = "close"
    /\ shut' = shut \cup ({client} \ {0})
    /\ Rests(h)
    /\ UNCHANGED <<runnerVars, cron, client, clients, calls, shutdowns>>

\* self._client.close() ...
CloseClient(h) ==
    /\ th[h].at = "close"
    /\ IF client = 0 THEN Rests(h) /\ UNCHANGED shut
       ELSE Goes(h, "forget") /\ shut' = shut \cup {client}
    /\ UNCHANGED <<runnerVars, cron, client, clients, calls, shutdowns>>

\* ... self._client = None
ForgetClient(h) ==
    /\ th[h].at = "forget"
    /\ client' = 0
    /\ Rests(h)
    /\ UNCHANGED <<runnerVars, cron, clients, shut, calls, shutdowns>>

-----------------------------------------------------------------------------

Init ==
    /\ lock = NoThread /\ runner = 0 /\ closed = {}
    /\ queue = [r \in Runners |-> <<>>] /\ missed = [r \in Runners |-> 0]
    /\ th = [t \in Threads |-> Idle]
    /\ cron = FALSE /\ client = 0 /\ clients = 0 /\ shut = {}
    /\ calls = 0 /\ shutdowns = 0

Called(h) == Hook(h) \/ InitializeCron(h) \/ Initialize(h) \/ Shutdown(h)
Submit(t) == GetRunner(t) \/ GetLocked(t) \/ Put(t) \/ Place(t)
Work(w) ==
    \/ Take(w) \/ EndLine(w) \/ EndRequest(w)
    \/ BringUpFails(w) \/ BringUpMakes(w) \/ BringUpAssigns(w)
ShuttingDown(h) ==
    LockRunner(h) \/ EndDrain(h) \/ PostStop(h) \/ EndJoin(h) \/ CloseClient(h) \/ ForgetClient(h)

Next ==
    \/ \E h \in Hosts : Called(h) \/ ShuttingDown(h)
    \/ \E w \in Workers : Work(w)
    \/ \E t \in Threads : Submit(t)

Spec == Init /\ [][Next]_vars

\* Threads are scheduled, requests and file writes end, polls and joins time out.
\* Nothing makes Hermes call.
FairSpec ==
    /\ Spec
    /\ \A w \in Workers : WF_vars(Work(w) \/ Submit(w))
    /\ \A h \in Hosts : WF_vars(ShuttingDown(h) \/ Submit(h))

-----------------------------------------------------------------------------
(* Properties.                                                             *)

Places == {"idle", "get", "wait", "put", "place", "run", "assign", "exited",
           "lock", "drain", "stop", "join", "close", "forget"}

\* The types, and the lock discipline: _runner_lock is held exactly by the thread
\* that drains, stops or joins the current runner.
TypeOK ==
    /\ runner \in 0..MaxShutdowns + 1 /\ closed \subseteq 1..runner
    /\ \A r \in Runners : r > runner => queue[r] = <<>>
    /\ \A t \in Threads : th[t].at \in Places
    /\ \A h \in Hosts : th[h].at \in {"drain", "stop", "join"} <=> lock = h
    /\ lock \in Hosts => runner \in closed
    /\ cron \in BOOLEAN /\ client \in 0..clients /\ shut \subseteq 1..clients
    /\ calls \in 0..MaxCalls /\ shutdowns \in 0..MaxShutdowns

\* However hooks, workers and shutdowns race in get_runner(), at most one runner
\* of the process is open: no second pool of workers beside it.
OneOpenRunner == \A r \in 1..runner - 1 : r \in closed

\* The provider never offers its hooks a client that was closed, except between the
\* two steps of the shutdown that closes it; a bring-up in between may install a
\* new one, and it is never one that was closed.
ServedClientOpen == client \in shut => \E h \in Hosts : th[h].at = "forget"

\* In a cron context the provider is silent: from there on nothing a hook or a
\* bring-up does submits a request; only requests decided before are still put.
Decided(c) == {t \in Threads : \E i \in DOMAIN th[t].todo : th[t].todo[i] = Request(c)}
CronIsSilent == [][cron => \A c \in 1..clients : Decided(c)' \subseteq Decided(c)]_vars

\* No call hangs: every hook and every shutdown() that has begun ends, even though
\* a worker may wait for the lock of the shutdown that waits for it.
EveryCallEnds == \A h \in Hosts : Busy(h) ~> ~Busy(h)

\* A shutdown leaves no thread behind but for lost STOPs: of the workers of a runner
\* that was shut down, no more stay than STOPs found its queue full when the drain
\* had timed out, or were evicted by a submit that had read _closed before.  Every
\* other worker ends its job and exits, also one that waits for the lock meanwhile.
Exited(r) == {w \in WorkersOf(r) : th[w].at = "exited"}
ClosedWorkersExit ==
    \A r \in 1..MaxShutdowns : r \in closed ~> Cardinality(Exited(r)) + missed[r] >= PerRunner

\* "Bounded drain ... Hermes' own shutdown timeline isn't extended"
\* (HERMES_INTEGRATION_MAP.md:274-276): a drain waits for work that is going on,
\* never for workers that wait for the lock of the shutdown itself.
DrainWaitsForWork ==
    \A h \in Hosts :
       LET busy == {w \in WorkersOf(runner) : Busy(w)}
       IN  th[h].at = "drain" /\ busy # {} => \E w \in busy : th[w].at # "wait"

=============================================================================
