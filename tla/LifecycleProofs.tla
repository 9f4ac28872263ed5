--------------------------- MODULE LifecycleProofs ---------------------------
(***************************************************************************)
(* Proofs about Lifecycle, for any threads of Hermes, any number of        *)
(* workers, and with or without a log directory.                           *)
(***************************************************************************)
EXTENDS Lifecycle, FiniteSetTheorems, TLAPS

Jobs == [kind : {"bringup", "request", "line", "stop"}, on : Nat]

ThreadStates ==
    [at : Places, job : Jobs, todo : Seq(Jobs), afterwards : {"idle", "assign"},
     on : Nat, made : Nat]

\* Where a thread has something to submit.
Submitting == {"get", "wait", "put", "place", "stop"}

Typed ==
    /\ th \in [Threads -> ThreadStates]
    /\ \A t \in Threads : th[t].at \in Submitting => th[t].todo # <<>>
    /\ \A t \in Threads : th[t].at = "assign" => th[t].afterwards = "assign"
    /\ queue \in [Runners -> Seq(Jobs)]
    /\ runner \in Nat /\ client \in Nat /\ clients \in Nat

LEMMA JobsTyped ==
    /\ BringUp \in Jobs /\ Line \in Jobs /\ Stop \in Jobs
    /\ \A c \in Nat : Request(c) \in Jobs /\ Request(c) # Line /\ Request(c) # BringUp
    /\ Recorded \in Seq(Jobs)
<1>1. /\ BringUp \in Jobs /\ Line \in Jobs /\ Stop \in Jobs
      /\ \A c \in Nat : Request(c) \in Jobs /\ Request(c) # Line /\ Request(c) # BringUp
  BY DEF Jobs, BringUp, Line, Stop, Request, Job
<1>2. Recorded \in Seq(Jobs)
  BY <1>1 DEF Recorded
<1>3. QED
  BY <1>1, <1>2

LEMMA IdleTyped ==
    Idle \in ThreadStates /\ Idle.at = "idle" /\ Idle.afterwards = "idle" /\ Idle.todo = <<>>
  BY JobsTyped DEF Idle, Thread, ThreadStates, Places

LEMMA NoHostWorks == \A h \in Hosts : h \in Threads /\ h \notin Workers
  BY LifecycleAssumption DEF Threads, Workers, Runners

\* What Submits() does to its thread, and to no other.
LEMMA SubmitsTyped ==
    ASSUME Typed, NEW t \in Threads, NEW todo \in Seq(Jobs), NEW where \in {"idle", "assign"},
           Submits(t, todo, where)
    PROVE  \E e \in ThreadStates :
              /\ th' = [th EXCEPT ![t] = e]
              /\ e.todo = todo /\ e.afterwards = where
              /\ e.at = IF todo = <<>> THEN where ELSE "get"
              /\ where = "assign" => e.made = th[t].made
<1>1. CASE todo = <<>> /\ where = "idle"
  BY <1>1, IdleTyped DEF Submits, Rests
<1>2. CASE ~(todo = <<>> /\ where = "idle")
  <2> DEFINE e == Thread(IF todo = <<>> THEN where ELSE "get", Stop, todo, where, 0, th[t].made)
  <2>1. th' = [th EXCEPT ![t] = e]
    BY <1>2 DEF Submits
  <2>2. e \in ThreadStates
    BY JobsTyped DEF Typed, ThreadStates, Thread, Places
  <2>3. QED
    BY <2>1, <2>2 DEF Thread
<1>3. QED
  BY <1>1, <1>2

\* What a move of its thread does.
LEMMA MoveTyped ==
    ASSUME Typed, NEW t \in Threads, NEW e \in ThreadStates, th' = [th EXCEPT ![t] = e],
           e.at \in Submitting => e.todo # <<>>,
           e.at = "assign" => e.afterwards = "assign"
    PROVE  /\ th' \in [Threads -> ThreadStates]
           /\ \A u \in Threads : th'[u].at \in Submitting => th'[u].todo # <<>>
           /\ \A u \in Threads : th'[u].at = "assign" => th'[u].afterwards = "assign"
  BY DEF Typed

ThreadsTyped ==
    /\ th \in [Threads -> ThreadStates]
    /\ \A t \in Threads : th[t].at \in Submitting => th[t].todo # <<>>
    /\ \A t \in Threads : th[t].at = "assign" => th[t].afterwards = "assign"

\* The thread t moves to the state e; the others stay.
LEMMA MovesTo ==
    ASSUME Typed, NEW t \in Threads, NEW todo \in Seq(Jobs), NEW where \in {"idle", "assign"},
           Submits(t, todo, where)
    PROVE  ThreadsTyped'
<1>1. PICK e \in ThreadStates :
         /\ th' = [th EXCEPT ![t] = e]
         /\ e.todo = todo /\ e.afterwards = where
         /\ e.at = IF todo = <<>> THEN where ELSE "get"
  BY SubmitsTyped
<1>2. QED
  BY <1>1, MoveTyped DEF ThreadsTyped, Submitting

LEMMA GoesTyped ==
    ASSUME Typed, NEW t \in Threads, NEW p \in Places \ {"assign"}, Goes(t, p),
           p \in Submitting => th[t].todo # <<>>
    PROVE  ThreadsTyped'
  BY DEF Typed, ThreadsTyped, Goes, ThreadStates

LEMMA RestsTyped ==
    ASSUME Typed, NEW t \in Threads, Rests(t)
    PROVE  ThreadsTyped'
  BY IdleTyped, MoveTyped DEF Rests, ThreadsTyped, Submitting

\* What a hook submits: jobs, and in a cron context nothing but a line.
LEMMA HookTodo ==
    ASSUME client \in Nat, NEW h, Hook(h)
    PROVE  \E todo : /\ Submits(h, todo, "idle") /\ todo \in Seq(Jobs)
                     /\ cron => todo \in {<<>>, Recorded}
<1> DEFINE first == IF Alive THEN <<Request(client)>> ELSE <<>>
<1>1. PICK lines \in {<<>>, Recorded} : Submits(h, first \o lines, "idle")
  BY DEF Hook
<1>2. Request(client) \in Jobs
  BY JobsTyped
<1>3. lines \in Seq(Jobs) /\ first \in Seq(Jobs) /\ (cron => first = <<>>)
  <2>1. <<>> \in Seq(Jobs) /\ <<Request(client)>> \in Seq(Jobs)
    BY <1>2
  <2>2. Recorded \in Seq(Jobs)
    BY JobsTyped
  <2>3. QED
    BY <2>1, <2>2, Zenon DEF Alive
<1> HIDE DEF first
<1>4. first \o lines \in Seq(Jobs) /\ (first = <<>> => first \o lines = lines)
  BY <1>3
<1>5. QED
  BY <1>1, <1>3, <1>4

\* What a bring-up submits: nothing, or, unless in a cron context, the first recall.
LEMMA FirstRecall ==
    ASSUME th \in [Threads -> ThreadStates], NEW w \in Threads, BringUpAssigns(w)
    PROVE  \E recall \in Seq(Jobs) : Submits(w, recall, "idle") /\ (cron => recall = <<>>)
<1>1. PICK recall \in {<<>>} \cup (IF cron THEN {} ELSE {<<Request(th[w].made)>>}) :
         Submits(w, recall, "idle")
  BY DEF BringUpAssigns
<1>2. Request(th[w].made) \in Jobs
  BY JobsTyped DEF ThreadStates
<1>3. <<>> \in Seq(Jobs) /\ <<Request(th[w].made)>> \in Seq(Jobs)
  BY <1>2
<1>4. recall \in Seq(Jobs) /\ (cron => recall = <<>>)
  BY <1>3
<1>5. QED
  BY <1>1, <1>4

\* A thread that looks for the runner keeps what it has to submit.
LEMMA FindsRunner ==
    ASSUME Typed, NEW t \in Threads, th[t].at \in {"get", "wait"}, NEW p \in {"wait", "put"},
           NEW r \in Nat, th' = [th EXCEPT ![t].at = p, ![t].on = r]
    PROVE  ThreadsTyped'
<1> DEFINE e == [th[t] EXCEPT !.at = p, !.on = r]
<1>1. e \in ThreadStates
  BY DEF Typed, ThreadStates, Places
<1>2. e.todo = th[t].todo /\ th[t].todo # <<>> /\ e.at = p
  BY DEF Typed, ThreadStates, Submitting
<1>3. th' = [th EXCEPT ![t] = e]
  OBVIOUS
<1> HIDE DEF e
<1>4. QED
  BY <1>1, <1>2, <1>3, MoveTyped DEF ThreadsTyped

\* submit() goes on to the queue, or is over.
LEMMA PutOrPlace ==
    ASSUME Typed, NEW t \in Threads, Put(t) \/ Place(t)
    PROVE  /\ th[t].todo \in Seq(Jobs) /\ th[t].todo # <<>>
           /\ th[t].afterwards \in {"idle", "assign"}
           /\ Goes(t, "place") \/ Submits(t, Tail(th[t].todo), th[t].afterwards)
  BY DEF Put, Place, Submitted, Typed, ThreadStates, Submitting

\* What shutdown() does to its thread while it posts the STOPs.
Stopping(h, e) ==
    /\ th' = [th EXCEPT ![h] = e]
    /\ e.at \in {"stop", "join"} /\ (e.at = "stop" => e.todo # <<>>)
    /\ e.afterwards = th[h].afterwards /\ e.made = th[h].made

\* At the end of the drain there is one STOP to post for each worker ...
LEMMA StopsTodo ==
    ASSUME Typed, NEW h \in Hosts, EndDrain(h)
    PROVE  \E e \in ThreadStates : /\ Stopping(h, e) /\ e.at = "stop"
                                  /\ e.todo = [i \in 1..PerRunner |-> Stop]
<1> DEFINE stops == [i \in 1..PerRunner |-> Stop]
           e == [th[h] EXCEPT !.at = "stop", !.todo = stops]
<1>1. stops \in Seq(Jobs) /\ stops # <<>>
  BY JobsTyped, LifecycleAssumption
<1>2. th[h] \in ThreadStates
  BY NoHostWorks DEF Typed
<1>3. th' = [th EXCEPT ![h] = e]
  BY DEF EndDrain
<1> HIDE DEF stops
<1>4. e \in ThreadStates /\ e.at = "stop" /\ e.todo = stops
      /\ e.afterwards = th[h].afterwards /\ e.made = th[h].made
  BY <1>1, <1>2 DEF ThreadStates, Places
<1> HIDE DEF e
<1>5. Stopping(h, e)
  BY <1>1, <1>3, <1>4 DEF Stopping
<1>6. QED
  BY <1>4, <1>5 DEF stops

\* ... and each post leaves one fewer.
LEMMA StopPosted ==
    ASSUME Typed, NEW h \in Hosts, PostStop(h)
    PROVE  /\ th[h].todo \in Seq(Jobs) /\ th[h].todo # <<>>
           /\ \E e \in ThreadStates : Stopping(h, e) /\ e.todo = Tail(th[h].todo)
<1>1. th[h] \in ThreadStates /\ th[h].at = "stop" /\ Told(h)
  BY NoHostWorks DEF Typed, PostStop
<1>2. th[h].todo \in Seq(Jobs) /\ th[h].todo # <<>>
  BY <1>1, NoHostWorks DEF Typed, ThreadStates, Submitting
<1> DEFINE p == IF Len(th[h].todo) = 1 THEN "join" ELSE "stop"
           rest == Tail(th[h].todo)
           e == [th[h] EXCEPT !.at = p, !.todo = rest]
<1>3. rest \in Seq(Jobs) /\ (p = "stop" => rest # <<>>) /\ p \in {"stop", "join"}
  <2>1. rest \in Seq(Jobs) /\ Len(rest) = Len(th[h].todo) - 1 /\ Len(th[h].todo) \in Nat
    BY <1>2
  <2>2. ASSUME Len(th[h].todo) # 1 PROVE rest # <<>>
    <3>1. Len(rest) # 0
      BY <2>1, <2>2
    <3> HIDE DEF rest
    <3>2. QED
      BY <3>1
  <2>3. QED
    BY <2>1, <2>2
<1>4. th' = [th EXCEPT ![h] = e]
  BY <1>1 DEF Told
<1> HIDE DEF p, rest
<1>5. e \in ThreadStates /\ e.at = p /\ e.todo = rest
      /\ e.afterwards = th[h].afterwards /\ e.made = th[h].made
  BY <1>1, <1>3 DEF ThreadStates, Places
<1> HIDE DEF e
<1>6. Stopping(h, e)
  BY <1>3, <1>4, <1>5 DEF Stopping
<1>7. QED
  BY <1>2, <1>5, <1>6 DEF rest

LEMMA StoppingTyped ==
    ASSUME Typed, NEW h \in Threads, NEW e \in ThreadStates, Stopping(h, e)
    PROVE  ThreadsTyped'
  BY MoveTyped DEF Stopping, ThreadsTyped, Submitting

LEMMA ThreadsStep ==
    ASSUME Typed, [Next]_vars
    PROVE  ThreadsTyped'
<1>1. ASSUME NEW h \in Hosts, Called(h) PROVE ThreadsTyped'
  <2>1. CASE Hook(h)
    <3>1. PICK todo : Submits(h, todo, "idle") /\ todo \in Seq(Jobs)
      BY <2>1, HookTodo DEF Typed
    <3>2. QED
      BY <3>1, MovesTo, NoHostWorks
  <2>2. CASE InitializeCron(h)
    <3>1. th' = th
      BY <2>2 DEF InitializeCron
    <3>2. QED
      BY <3>1 DEF Typed, ThreadsTyped
  <2>3. CASE Initialize(h)
    <3>1. Submits(h, <<BringUp>>, "idle") /\ h \in Threads
      BY <2>3, NoHostWorks DEF Initialize
    <3>2. <<BringUp>> \in Seq(Jobs)
      BY JobsTyped
    <3>3. QED
      BY <3>1, <3>2, MovesTo
  <2>4. CASE Shutdown(h)
    BY <2>4, GoesTyped, NoHostWorks DEF Shutdown, Places, Submitting
  <2>5. QED
    BY <1>1, <2>1, <2>2, <2>3, <2>4 DEF Called
<1>2. ASSUME NEW h \in Hosts, ShuttingDown(h) PROVE ThreadsTyped'
  <2>1. CASE LockRunner(h) \/ EndJoin(h)
    BY <2>1, GoesTyped, NoHostWorks DEF LockRunner, EndJoin, Places, Submitting
  <2>2. CASE CloseClient(h) \/ ForgetClient(h)
    BY <2>2, GoesTyped, RestsTyped, NoHostWorks DEF CloseClient, ForgetClient, Places, Submitting
  <2>3. CASE EndDrain(h) \/ PostStop(h)
    BY <2>3, StopsTodo, StopPosted, StoppingTyped, NoHostWorks
  <2>4. QED
    BY <1>2, <2>1, <2>2, <2>3 DEF ShuttingDown
<1>3. ASSUME NEW w \in Workers, Work(w) PROVE ThreadsTyped'
  <2>1. w \in Threads /\ w[1] \in Runners
    BY DEF Threads, Workers
  <2>2. CASE Take(w)
    <3>1. Head(queue[w[1]]) \in Jobs
      BY <2>1, <2>2 DEF Take, Typed
    <3>2. QED
      <4> DEFINE job == Head(queue[w[1]])
                 e == [th[w] EXCEPT !.at = IF job = Stop THEN "exited" ELSE "run", !.job = job]
      <4>1. e \in ThreadStates /\ e.at \in {"exited", "run"}
        BY <2>1, <3>1 DEF Typed, ThreadStates, Places
      <4>2. th' = [th EXCEPT ![w] = e]
        BY <2>2 DEF Take
      <4> HIDE DEF e
      <4>3. QED
        BY <2>1, <4>1, <4>2, MoveTyped DEF ThreadsTyped, Submitting
  <2>3. CASE EndLine(w) \/ BringUpFails(w)
    BY <2>1, <2>3, RestsTyped DEF EndLine, BringUpFails
  <2>4. CASE EndRequest(w)
    BY <2>1, <2>4, MovesTo, JobsTyped DEF EndRequest
  <2>5. CASE BringUpMakes(w)
    <3> DEFINE e == Thread(IF Logs THEN "get" ELSE "assign", Stop, Recorded, "assign", 0, clients')
    <3>1. e \in ThreadStates
      BY <2>5, JobsTyped DEF BringUpMakes, Typed, ThreadStates, Thread, Places
    <3>2. e.at = "get" => e.todo # <<>>
      BY DEF Thread, Recorded
    <3>3. e.at \in {"get", "assign"} /\ e.afterwards = "assign"
      BY DEF Thread
    <3>4. th' = [th EXCEPT ![w] = e]
      BY <2>5 DEF BringUpMakes
    <3>5. QED
      BY <2>1, <3>1, <3>2, <3>3, <3>4, MoveTyped DEF ThreadsTyped, Submitting
  <2>6. CASE BringUpAssigns(w)
    <3>1. PICK recall \in Seq(Jobs) : Submits(w, recall, "idle")
      BY <2>1, <2>6, FirstRecall DEF Typed
    <3>2. QED
      BY <2>1, <3>1, MovesTo
  <2>7. QED
    BY <1>3, <2>2, <2>3, <2>4, <2>5, <2>6 DEF Work
<1>4. ASSUME NEW t \in Threads, Submit(t) PROVE ThreadsTyped'
  <2>1. CASE GetRunner(t)
    <3>1. PICK p \in {"wait", "put"} : th' = [th EXCEPT ![t].at = p, ![t].on = runner]
      BY <2>1 DEF GetRunner
    <3>2. runner \in Nat /\ th[t].at = "get"
      BY <2>1 DEF GetRunner, Typed
    <3>3. QED
      BY <3>1, <3>2, FindsRunner
  <2>2. CASE GetLocked(t)
    <3>1. th' = [th EXCEPT ![t].at = "put", ![t].on = runner'] /\ th[t].at = "wait"
      BY <2>2 DEF GetLocked
    <3>2. runner' \in Nat
      BY <2>2 DEF GetLocked, Typed
    <3>3. QED
      BY <3>1, <3>2, FindsRunner
  <2>3. CASE Put(t) \/ Place(t)
    <3>1. Tail(th[t].todo) \in Seq(Jobs)
      BY <2>3, PutOrPlace
    <3>2. QED
      BY <2>3, <3>1, PutOrPlace, MovesTo, GoesTyped DEF Places
  <2>4. QED
    BY <1>4, <2>1, <2>2, <2>3 DEF Submit
<1>5. CASE UNCHANGED vars
  BY <1>5 DEF vars, Typed, ThreadsTyped
<1>6. QED
  BY <1>1, <1>2, <1>3, <1>4, <1>5 DEF Next

\* Which steps touch the runners, the queues and the numbers of clients.
LEMMA CalledFrame ==
    ASSUME NEW h, Called(h)
    PROVE  UNCHANGED <<runner, closed, queue, clients>> /\ client' \in {client, 0}
<1>1. CASE Hook(h) \/ InitializeCron(h)
  BY <1>1 DEF Hook, InitializeCron, runnerVars, providerVars
<1>2. CASE Initialize(h) \/ Shutdown(h)
  BY <1>2 DEF Initialize, Shutdown, runnerVars, providerVars
<1>3. QED
  BY <1>1, <1>2 DEF Called

LEMMA ShuttingDownFrame ==
    ASSUME NEW h, ShuttingDown(h)
    PROVE  /\ UNCHANGED <<runner, clients>> /\ closed \subseteq closed' /\ client' \in {client, 0}
           /\ PostStop(h) \/ UNCHANGED queue
<1>1. CASE LockRunner(h) \/ EndDrain(h) \/ PostStop(h)
  BY <1>1 DEF LockRunner, EndDrain, PostStop, runnerVars, providerVars
<1>2. CASE EndJoin(h)
  BY <1>2 DEF EndJoin, providerVars
<1>3. CASE CloseClient(h) \/ ForgetClient(h)
  BY <1>3 DEF CloseClient, ForgetClient, runnerVars
<1>4. QED
  BY <1>1, <1>2, <1>3 DEF ShuttingDown

LEMMA WorkFrame ==
    ASSUME NEW w, Work(w)
    PROVE  /\ UNCHANGED <<runner, closed>> /\ clients' \in {clients, clients + 1}
           /\ client' \in {client, 0, th[w].made}
           /\ Take(w) \/ UNCHANGED queue
<1>1. CASE Take(w) \/ EndLine(w) \/ EndRequest(w)
  BY <1>1 DEF Take, EndLine, EndRequest, runnerVars, providerVars
<1>2. CASE BringUpFails(w)
  BY <1>2 DEF BringUpFails, runnerVars
<1>3. CASE BringUpMakes(w) \/ BringUpAssigns(w)
  BY <1>3 DEF BringUpMakes, BringUpAssigns, runnerVars
<1>4. QED
  BY <1>1, <1>2, <1>3 DEF Work

LEMMA SubmitFrame ==
    ASSUME NEW t, Submit(t)
    PROVE  /\ UNCHANGED <<closed, client, clients>>
           /\ runner' = runner \/ (runner' = runner + 1 /\ NeedsRunner)
           /\ Place(t) \/ UNCHANGED queue
<1>1. CASE GetRunner(t) \/ Put(t) \/ Place(t)
  BY <1>1 DEF GetRunner, Put, Place, runnerVars, providerVars
<1>2. CASE GetLocked(t)
  BY <1>2 DEF GetLocked, providerVars
<1>3. QED
  BY <1>1, <1>2 DEF Submit

LEMMA StutterFrame ==
    ASSUME UNCHANGED vars
    PROVE  UNCHANGED <<runner, closed, queue, client, clients>>
  BY DEF vars, runnerVars, providerVars

LEMMA QueueStep ==
    ASSUME Typed, [Next]_vars
    PROVE  queue' \in [Runners -> Seq(Jobs)]
<1>1. ASSUME NEW w \in Workers, Take(w) PROVE queue' \in [Runners -> Seq(Jobs)]
  <2>1. w[1] \in Runners
    BY DEF Workers
  <2>2. queue[w[1]] \in Seq(Jobs) /\ queue[w[1]] # <<>>
    BY <1>1, <2>1 DEF Take, Typed
  <2>3. Tail(queue[w[1]]) \in Seq(Jobs)
    BY <2>2
  <2>4. QED
    BY <1>1, <2>1, <2>3 DEF Take, Typed
<1>2. ASSUME NEW t \in Threads, Place(t) PROVE queue' \in [Runners -> Seq(Jobs)]
  <2> DEFINE job == Head(th[t].todo)
  <2>1. job \in Jobs
    BY <1>2, PutOrPlace
  <2>2. \A r \in Runners : Append(queue[r], job) \in Seq(Jobs)
    BY <2>1 DEF Typed
  <2>3. ASSUME NEW r \in Runners, Len(queue[r]) >= QueueSize
        PROVE  Append(Tail(queue[r]), job) \in Seq(Jobs)
    <3>1. queue[r] \in Seq(Jobs) /\ queue[r] # <<>>
      BY <2>3, LifecycleAssumption DEF Typed
    <3>2. QED
      BY <2>1, <3>1
  <2>4. \/ queue' = [queue EXCEPT ![th[t].on] = Append(@, job)]
        \/ /\ Len(queue[th[t].on]) >= QueueSize
           /\ queue' = [queue EXCEPT ![th[t].on] = Append(Tail(@), job)]
        \/ queue' = queue
    BY <1>2 DEF Place
  <2> HIDE DEF job
  <2>5. QED
    BY <2>2, <2>3, <2>4 DEF Typed
<1>3. ASSUME NEW h \in Hosts, PostStop(h) PROVE queue' \in [Runners -> Seq(Jobs)]
  <2>1. \A r \in Runners : Append(queue[r], Stop) \in Seq(Jobs)
    BY JobsTyped DEF Typed
  <2>2. queue' = queue \/ queue' = [queue EXCEPT ![runner] = Append(@, Stop)]
    BY <1>3 DEF PostStop
  <2>3. QED
    BY <2>1, <2>2 DEF Typed
<1>4. \/ \E w \in Workers : Take(w)
      \/ \E t \in Threads : Place(t)
      \/ \E h \in Hosts : PostStop(h)
      \/ UNCHANGED queue
  BY CalledFrame, ShuttingDownFrame, WorkFrame, SubmitFrame, StutterFrame DEF Next
<1>5. QED
  BY <1>1, <1>2, <1>3, <1>4 DEF Typed

LEMMA NumbersStep ==
    ASSUME Typed, [Next]_vars
    PROVE  runner' \in Nat /\ client' \in Nat /\ clients' \in Nat
<1>1. runner' \in {runner, runner + 1}
  BY CalledFrame, ShuttingDownFrame, WorkFrame, SubmitFrame, StutterFrame DEF Next
<1>2. \A w \in Workers : th[w].made \in Nat
  BY DEF Typed, ThreadStates, Threads
<1>3. client' \in {client, 0} \/ \E w \in Workers : client' = th[w].made
  BY CalledFrame, ShuttingDownFrame, WorkFrame, SubmitFrame, StutterFrame DEF Next
<1>4. clients' \in {clients, clients + 1}
  BY CalledFrame, ShuttingDownFrame, WorkFrame, SubmitFrame, StutterFrame DEF Next
<1>5. QED
  BY <1>1, <1>2, <1>3, <1>4 DEF Typed

LEMMA TypedInit == Init => Typed
<1>1. ASSUME Init PROVE th \in [Threads -> ThreadStates]
  BY <1>1, IdleTyped DEF Init
<1>2. ASSUME Init, NEW t \in Threads PROVE th[t].at = "idle"
  BY <1>2, IdleTyped DEF Init
<1>3. ASSUME Init PROVE queue \in [Runners -> Seq(Jobs)]
  BY <1>3 DEF Init
<1>4. ASSUME Init PROVE runner \in Nat /\ client \in Nat /\ clients \in Nat
  BY <1>4 DEF Init
<1>5. QED
  BY <1>1, <1>2, <1>3, <1>4 DEF Typed, Submitting

LEMMA TypedStep == Typed /\ [Next]_vars => Typed'
<1>1. ASSUME Typed, [Next]_vars PROVE Typed'
  BY <1>1, ThreadsStep, QueueStep, NumbersStep DEF Typed, ThreadsTyped
<1>2. QED
  BY <1>1

-----------------------------------------------------------------------------
(* One runner is open.                                                     *)

LEMMA RunnerStep ==
    ASSUME Typed, OneOpenRunner, [Next]_vars
    PROVE  OneOpenRunner'
<1>1. closed \subseteq closed'
  BY CalledFrame, ShuttingDownFrame, WorkFrame, SubmitFrame, StutterFrame DEF Next
<1>2. runner' = runner \/ (runner' = runner + 1 /\ NeedsRunner)
  BY CalledFrame, ShuttingDownFrame, WorkFrame, SubmitFrame, StutterFrame DEF Next
<1>3. QED
  BY <1>1, <1>2 DEF Typed, OneOpenRunner, NeedsRunner

\* However many threads race in get_runner(), with each other and with shutdowns, a
\* runner is replaced only after it has been closed.
THEOREM OneRunnerOpen == Spec => []OneOpenRunner
<1>1. Init => Typed /\ OneOpenRunner
  BY TypedInit DEF Init, OneOpenRunner
<1>2. Typed /\ OneOpenRunner /\ [Next]_vars => (Typed /\ OneOpenRunner)'
  BY TypedStep, RunnerStep
<1>3. QED
  BY <1>1, <1>2, PTL DEF Spec

-----------------------------------------------------------------------------
(* The client that is served is open.  A client that a bring-up has made   *)
(* and not assigned yet is known to nobody else: it is not the one served, *)
(* not one that was closed, and not that of another bring-up.              *)

ClientsInv ==
    /\ client \in 0..clients /\ shut \subseteq 1..clients
    /\ \A t \in Threads : th[t].afterwards = "assign" =>
          th[t].made \in 1..clients /\ th[t].made # client /\ th[t].made \notin shut
    /\ \A t, u \in Threads :
          th[t].afterwards = "assign" /\ th[u].afterwards = "assign" /\ t # u
             => th[t].made # th[u].made
    /\ ServedClientOpen

LEMMA ClientsInit == Init => ClientsInv
  BY IdleTyped DEF Init, ClientsInv, ServedClientOpen

\* A thread that neither makes nor forgets a client.
LEMMA Aside ==
    ASSUME Typed, ClientsInv, UNCHANGED <<client, clients, shut>>, NEW t \in Threads,
           NEW e, th' = [th EXCEPT ![t] = e], th[t].at # "forget",
           e.afterwards = "assign" => th[t].afterwards = "assign" /\ e.made = th[t].made
    PROVE  ClientsInv'
  BY DEF Typed, ClientsInv, ServedClientOpen

LEMMA AsideSubmits ==
    ASSUME Typed, ClientsInv, UNCHANGED <<client, clients, shut>>, NEW t \in Threads,
           NEW todo \in Seq(Jobs), NEW where \in {"idle", "assign"}, Submits(t, todo, where),
           th[t].at # "forget", where = "assign" => th[t].afterwards = "assign"
    PROVE  ClientsInv'
<1>1. PICK e \in ThreadStates :
         /\ th' = [th EXCEPT ![t] = e] /\ e.afterwards = where
         /\ where = "assign" => e.made = th[t].made
  BY SubmitsTyped
<1>2. QED
  BY <1>1, Aside

LEMMA AsideGoes ==
    ASSUME Typed, ClientsInv, UNCHANGED <<client, clients, shut>>, NEW t \in Threads,
           NEW p, Goes(t, p), th[t].at # "forget"
    PROVE  ClientsInv'
<1> DEFINE e == [th[t] EXCEPT !.at = p]
<1>1. th' = [th EXCEPT ![t] = e] /\ e.afterwards = th[t].afterwards /\ e.made = th[t].made
  BY DEF Goes, Typed, ThreadStates
<1> HIDE DEF e
<1>2. QED
  BY <1>1, Aside

LEMMA AsideRests ==
    ASSUME Typed, ClientsInv, UNCHANGED <<client, clients, shut>>, NEW t \in Threads,
           Rests(t), th[t].at # "forget"
    PROVE  ClientsInv'
  BY IdleTyped, Aside DEF Rests

LEMMA HermesClients ==
    ASSUME Typed, ClientsInv, NEW h \in Hosts, Called(h) \/ ShuttingDown(h)
    PROVE  ClientsInv'
<1>0. h \in Threads
  BY NoHostWorks
<1>1. CASE Hook(h)
  <2>1. PICK todo : Submits(h, todo, "idle") /\ todo \in Seq(Jobs)
    BY <1>1, HookTodo DEF Typed
  <2>2. QED
    BY <1>0, <1>1, <2>1, AsideSubmits DEF Hook, Busy, providerVars
<1>2. CASE InitializeCron(h)
  BY <1>2 DEF InitializeCron, ClientsInv, ServedClientOpen, Typed
<1>3. CASE Initialize(h)
  <2>1. Submits(h, <<BringUp>>, "idle") /\ <<BringUp>> \in Seq(Jobs)
    BY <1>3, JobsTyped DEF Initialize
  <2>2. QED
    BY <1>0, <1>3, <2>1, AsideSubmits DEF Initialize, Busy, providerVars
<1>4. CASE Shutdown(h) \/ LockRunner(h) \/ EndJoin(h)
  BY <1>0, <1>4, AsideGoes DEF Shutdown, LockRunner, EndJoin, Busy, providerVars
<1>5. CASE CloseClient(h) /\ client = 0
  BY <1>0, <1>5, AsideRests DEF CloseClient
<1>6. CASE CloseClient(h) /\ client # 0
  <2>1. UNCHANGED <<client, clients>> /\ shut' = shut \cup {client} /\ Goes(h, "forget")
    BY <1>6 DEF CloseClient
  <2>2. \A t \in Threads : th'[t].afterwards = th[t].afterwards /\ th'[t].made = th[t].made
    BY <1>0, <2>1 DEF Goes, Typed, ThreadStates
  <2>3. th'[h].at = "forget"
    BY <1>0, <2>1 DEF Goes, Typed, ThreadStates
  <2>4. ServedClientOpen'
    BY <2>3 DEF ServedClientOpen
  <2>5. client' \in 0..clients' /\ shut' \subseteq 1..clients'
    BY <1>6, <2>1 DEF ClientsInv, Typed
  <2>6. QED
    BY <2>1, <2>2, <2>4, <2>5 DEF ClientsInv
<1>7. CASE ForgetClient(h)
  <2>1. /\ client' = 0 /\ UNCHANGED <<clients, shut>>
        /\ \A t \in Threads : th'[t].afterwards = "assign" =>
              th[t].afterwards = "assign" /\ th'[t].made = th[t].made
    BY <1>0, <1>7, IdleTyped DEF ForgetClient, Rests, Typed
  <2>2. QED
    BY <2>1 DEF ClientsInv, ServedClientOpen, Typed
<1>8. CASE EndDrain(h) \/ PostStop(h)
  <2>1. PICK e \in ThreadStates : Stopping(h, e)
    BY <1>8, StopsTodo, StopPosted
  <2>2. th[h].at # "forget" /\ UNCHANGED <<client, clients, shut>>
    BY <1>8 DEF EndDrain, PostStop, providerVars
  <2>3. QED
    BY <1>0, <2>1, <2>2, Aside DEF Stopping
<1>9. QED
  BY <1>1, <1>2, <1>3, <1>4, <1>5, <1>6, <1>7, <1>8 DEF Called, ShuttingDown

LEMMA WorkClients ==
    ASSUME Typed, ClientsInv, NEW w \in Workers, Work(w)
    PROVE  ClientsInv'
<1>0. w \in Threads /\ w[1] \in Runners /\ \A h \in Hosts : h \in Threads /\ h # w
  BY NoHostWorks DEF Threads, Workers
<1>1. CASE Take(w)
  <2> DEFINE job == Head(queue[w[1]])
             e == [th[w] EXCEPT !.at = IF job = Stop THEN "exited" ELSE "run", !.job = job]
  <2>1. th' = [th EXCEPT ![w] = e] /\ th[w].at # "forget" /\ UNCHANGED <<client, clients, shut>>
    BY <1>1 DEF Take, providerVars
  <2>2. e.afterwards = th[w].afterwards /\ e.made = th[w].made
    BY <1>0 DEF Typed, ThreadStates
  <2> HIDE DEF e
  <2>3. QED
    BY <1>0, <2>1, <2>2, Aside
<1>2. CASE EndLine(w)
  BY <1>0, <1>2, AsideRests DEF EndLine, providerVars
<1>3. CASE EndRequest(w)
  BY <1>0, <1>3, AsideSubmits, JobsTyped DEF EndRequest, providerVars
<1>4. CASE BringUpFails(w)
  <2>1. /\ client' \in {client, 0} /\ UNCHANGED <<clients, shut>>
        /\ \A t \in Threads : th'[t].afterwards = "assign" =>
              th[t].afterwards = "assign" /\ th'[t].made = th[t].made
        /\ \A h \in Hosts : th'[h] = th[h]
    BY <1>0, <1>4, IdleTyped DEF BringUpFails, Rests, Typed
  <2>2. QED
    BY <2>1 DEF ClientsInv, ServedClientOpen, Typed
<1>5. CASE BringUpMakes(w)
  <2>1. /\ UNCHANGED <<client, shut>> /\ clients' = clients + 1
        /\ \A t \in Threads \ {w} : th'[t] = th[t]
        /\ th'[w].made = clients + 1
    BY <1>0, <1>5 DEF BringUpMakes, Thread, Typed
  <2>2. ServedClientOpen'
    BY <1>0, <2>1 DEF ClientsInv, ServedClientOpen
  <2>3. client' \in 0..clients' /\ shut' \subseteq 1..clients'
    BY <2>1 DEF ClientsInv, Typed
  <2>4. \A t \in Threads : th'[t].afterwards = "assign" =>
           /\ th'[t].made \in 1..clients' /\ th'[t].made # client' /\ th'[t].made \notin shut'
           /\ t # w => th'[t].made # clients + 1
    BY <1>0, <2>1 DEF ClientsInv, Typed
  <2>5. QED
    BY <1>0, <2>1, <2>2, <2>3, <2>4 DEF ClientsInv
<1>6. CASE BringUpAssigns(w)
  <2>1. /\ client' = th[w].made /\ UNCHANGED <<clients, shut>>
        /\ th[w].afterwards = "assign"
    BY <1>0, <1>6 DEF BringUpAssigns, Typed
  <2>2. th'[w].afterwards = "idle" /\ \A t \in Threads \ {w} : th'[t] = th[t]
    <3>1. PICK recall \in Seq(Jobs) : Submits(w, recall, "idle")
      BY <1>0, <1>6, FirstRecall DEF Typed
    <3>2. QED
      BY <1>0, <3>1, SubmitsTyped DEF Typed
  <2>3. client' \in 1..clients' /\ client' \notin shut' /\ shut' \subseteq 1..clients'
    BY <1>0, <2>1 DEF ClientsInv
  <2>4. ServedClientOpen'
    BY <2>3 DEF ServedClientOpen
  <2>5. \A t \in Threads : th'[t].afterwards = "assign" =>
           t # w /\ th[t].afterwards = "assign" /\ th'[t].made = th[t].made
    BY <2>2
  <2>6. \A t \in Threads : th'[t].afterwards = "assign" =>
           th'[t].made \in 1..clients' /\ th'[t].made # client' /\ th'[t].made \notin shut'
    BY <1>0, <2>1, <2>5 DEF ClientsInv
  <2>7. QED
    BY <2>3, <2>4, <2>5, <2>6 DEF ClientsInv, Typed
<1>7. QED
  BY <1>1, <1>2, <1>3, <1>4, <1>5, <1>6 DEF Work

LEMMA SubmitClients ==
    ASSUME Typed, ClientsInv, NEW t \in Threads, Submit(t)
    PROVE  ClientsInv'
<1>1. CASE GetRunner(t) \/ GetLocked(t)
  <2>1. PICK p, r : th' = [th EXCEPT ![t].at = p, ![t].on = r]
    BY <1>1 DEF GetRunner, GetLocked
  <2> DEFINE e == [th[t] EXCEPT !.at = p, !.on = r]
  <2>2. th' = [th EXCEPT ![t] = e] /\ e.afterwards = th[t].afterwards /\ e.made = th[t].made
    BY <2>1 DEF Typed, ThreadStates
  <2>3. th[t].at # "forget" /\ UNCHANGED <<client, clients, shut>>
    BY <1>1 DEF GetRunner, GetLocked, providerVars
  <2> HIDE DEF e
  <2>4. QED
    BY <2>2, <2>3, Aside
<1>2. CASE Put(t) \/ Place(t)
  <2>1. Tail(th[t].todo) \in Seq(Jobs)
    BY <1>2, PutOrPlace
  <2>2. th[t].at # "forget" /\ UNCHANGED <<client, clients, shut>>
    BY <1>2 DEF Put, Place, providerVars
  <2>3. QED
    BY <1>2, <2>1, <2>2, PutOrPlace, AsideSubmits, AsideGoes
<1>3. QED
  BY <1>1, <1>2 DEF Submit

LEMMA ClientsStep ==
    ASSUME Typed, ClientsInv, [Next]_vars
    PROVE  ClientsInv'
<1>1. CASE UNCHANGED vars
  BY <1>1 DEF vars, providerVars, ClientsInv, ServedClientOpen
<1>2. QED
  BY <1>1, HermesClients, WorkClients, SubmitClients DEF Next

\* Whatever bring-ups, cron initialisations and shutdowns interleave, the client the
\* provider offers its hooks is open, but for the step in which shutdown() drops it.
THEOREM OpenClientServed == Spec => []ServedClientOpen
<1>1. Init => Typed /\ ClientsInv
  BY TypedInit, ClientsInit
<1>2. Typed /\ ClientsInv /\ [Next]_vars => (Typed /\ ClientsInv)'
  BY TypedStep, ClientsStep
<1>3. Typed /\ ClientsInv => ServedClientOpen
  BY DEF ClientsInv
<1>4. QED
  BY <1>1, <1>2, <1>3, PTL DEF Spec

-----------------------------------------------------------------------------
(* In a cron context no new request is submitted.                          *)

SilentStep == cron => \A c \in 1..clients : Decided(c)' \subseteq Decided(c)

\* What a cron context submits is not a request.
LEMMA NoRequestIn ==
    ASSUME NEW todo \in {<<>>, Recorded, <<BringUp>>}, NEW c \in Nat
    PROVE  \A i \in DOMAIN todo : todo[i] # Request(c)
  BY JobsTyped DEF Recorded

LEMMA SubmitsSilent ==
    ASSUME Typed, NEW t \in Threads, NEW todo \in Seq(Jobs), NEW where \in {"idle", "assign"},
           Submits(t, todo, where),
           \A c \in Nat : \A i \in DOMAIN todo : todo[i] # Request(c)
    PROVE  SilentStep
<1>1. PICK e \in ThreadStates : th' = [th EXCEPT ![t] = e] /\ e.todo = todo
  BY SubmitsTyped
<1>2. QED
  BY <1>1 DEF Typed, SilentStep, Decided

LEMMA KeepsTodo ==
    ASSUME Typed, NEW t \in Threads, NEW e, th' = [th EXCEPT ![t] = e],
           e.todo = th[t].todo \/ e.todo = <<>>
    PROVE  SilentStep
  BY DEF Typed, SilentStep, Decided

LEMMA GoesSilent ==
    ASSUME Typed, NEW t \in Threads, NEW p, Goes(t, p)
    PROVE  SilentStep
<1> DEFINE e == [th[t] EXCEPT !.at = p]
<1>1. th' = [th EXCEPT ![t] = e] /\ e.todo = th[t].todo
  BY DEF Goes, Typed, ThreadStates
<1> HIDE DEF e
<1>2. QED
  BY <1>1, KeepsTodo

LEMMA RestsSilent ==
    ASSUME Typed, NEW t \in Threads, Rests(t)
    PROVE  SilentStep
  BY IdleTyped, KeepsTodo DEF Rests

LEMMA TailTodo ==
    ASSUME NEW T, NEW s \in Seq(T), s # <<>>
    PROVE  /\ Tail(s) \in Seq(T)
           /\ \A i \in DOMAIN Tail(s) : i + 1 \in DOMAIN s /\ Tail(s)[i] = s[i + 1]
<1>1. /\ Len(s) \in Nat \ {0} /\ DOMAIN s = 1..Len(s)
      /\ Tail(s) \in Seq(T) /\ Len(Tail(s)) = Len(s) - 1 /\ DOMAIN Tail(s) = 1..Len(Tail(s))
      /\ \A i \in 1..Len(s) - 1 : Tail(s)[i] = s[i + 1]
  OBVIOUS
<1>2. QED
  BY <1>1

LEMMA DropsFirst ==
    ASSUME Typed, NEW t \in Threads, NEW e, th' = [th EXCEPT ![t] = e],
           th[t].todo \in Seq(Jobs), th[t].todo # <<>>, e.todo = Tail(th[t].todo)
    PROVE  SilentStep
<1> DEFINE rest == Tail(th[t].todo)
<1>1. \A i \in DOMAIN rest : i + 1 \in DOMAIN th[t].todo /\ rest[i] = th[t].todo[i + 1]
  BY TailTodo
<1> HIDE DEF rest
<1>2. ASSUME NEW c, NEW i \in DOMAIN rest, rest[i] = Request(c) PROVE t \in Decided(c)
  BY <1>1, <1>2 DEF Decided
<1>3. e.todo = rest
  BY DEF rest
<1>4. QED
  BY <1>2, <1>3 DEF SilentStep, Decided, Typed

LEMMA Silent ==
    ASSUME Typed, cron, [Next]_vars
    PROVE  SilentStep
<1>1. ASSUME NEW h \in Hosts, Called(h) \/ ShuttingDown(h) PROVE SilentStep
  <2>1. CASE Hook(h)
    <3>1. PICK todo : /\ Submits(h, todo, "idle") /\ todo \in Seq(Jobs)
                      /\ todo \in {<<>>, Recorded}
      BY <2>1, HookTodo DEF Typed
    <3>2. QED
      BY <3>1, NoHostWorks, NoRequestIn, SubmitsSilent
  <2>2. CASE Initialize(h)
    <3>1. Submits(h, <<BringUp>>, "idle") /\ <<BringUp>> \in Seq(Jobs)
      BY <2>2, JobsTyped DEF Initialize
    <3>2. QED
      BY <3>1, NoHostWorks, NoRequestIn, SubmitsSilent
  <2>3. CASE EndDrain(h)
    <3> DEFINE stops == [i \in 1..PerRunner |-> Stop]
    <3>1. PICK e \in ThreadStates : Stopping(h, e) /\ e.todo = stops
      BY <2>3, StopsTodo
    <3>2. \A c : \A i \in DOMAIN stops : stops[i] # Request(c)
      BY DEF Stop, Request, Job
    <3> HIDE DEF stops
    <3>3. QED
      BY <3>1, <3>2, NoHostWorks DEF Stopping, SilentStep, Decided, Typed
  <2>4. CASE PostStop(h)
    BY <2>4, StopPosted, DropsFirst, NoHostWorks DEF Stopping
  <2>5. CASE ~Hook(h) /\ ~Initialize(h) /\ ~EndDrain(h) /\ ~PostStop(h)
    <3>1. Rests(h) \/ (\E p : Goes(h, p)) \/ UNCHANGED th
      BY <1>1, <2>5 DEF Called, InitializeCron, Shutdown, ShuttingDown, LockRunner, EndJoin,
                       CloseClient, ForgetClient
    <3>2. CASE UNCHANGED th
      BY <3>2 DEF SilentStep, Decided
    <3>3. QED
      BY <3>1, <3>2, NoHostWorks, GoesSilent, RestsSilent
  <2>6. QED
    BY <2>1, <2>2, <2>3, <2>4, <2>5
<1>2. ASSUME NEW w \in Workers, Work(w) PROVE SilentStep
  <2>1. w \in Threads
    BY DEF Threads
  <2>2. CASE Take(w)
    <3> DEFINE job == Head(queue[w[1]])
               e == [th[w] EXCEPT !.at = IF job = Stop THEN "exited" ELSE "run", !.job = job]
    <3>1. th' = [th EXCEPT ![w] = e]
      BY <2>2 DEF Take
    <3>2. e.todo = th[w].todo
      BY <2>1 DEF Typed, ThreadStates
    <3> HIDE DEF e
    <3>3. QED
      BY <2>1, <3>1, <3>2, KeepsTodo
  <2>3. CASE EndLine(w) \/ BringUpFails(w)
    BY <2>1, <2>3, RestsSilent DEF EndLine, BringUpFails
  <2>4. CASE EndRequest(w)
    BY <2>1, <2>4, JobsTyped, NoRequestIn, SubmitsSilent DEF EndRequest
  <2>5. CASE BringUpMakes(w)
    <3>1. th'[w].todo = Recorded /\ \A t \in Threads \ {w} : th'[t] = th[t]
      BY <2>1, <2>5 DEF BringUpMakes, Thread, Typed
    <3>2. \A c \in Nat : \A i \in DOMAIN Recorded : Recorded[i] # Request(c)
      BY NoRequestIn
    <3>3. QED
      BY <3>1, <3>2 DEF SilentStep, Decided, Typed
  <2>6. CASE BringUpAssigns(w)
    <3>1. Submits(w, <<>>, "idle") /\ <<>> \in Seq(Jobs)
      BY <2>1, <2>6, FirstRecall DEF Typed
    <3>2. QED
      BY <2>1, <3>1, NoRequestIn, SubmitsSilent
  <2>7. QED
    BY <1>2, <2>2, <2>3, <2>4, <2>5, <2>6 DEF Work
<1>3. ASSUME NEW t \in Threads, Submit(t) PROVE SilentStep
  <2>1. CASE GetRunner(t) \/ GetLocked(t)
    <3>1. PICK p, r : th' = [th EXCEPT ![t].at = p, ![t].on = r]
      BY <2>1 DEF GetRunner, GetLocked
    <3> DEFINE e == [th[t] EXCEPT !.at = p, !.on = r]
    <3>2. th' = [th EXCEPT ![t] = e] /\ e.todo = th[t].todo
      BY <3>1 DEF Typed, ThreadStates
    <3> HIDE DEF e
    <3>3. QED
      BY <3>2, KeepsTodo
  <2>2. CASE Put(t) \/ Place(t)
    <3>1. Tail(th[t].todo) \in Seq(Jobs)
      BY <2>2, PutOrPlace
    <3>2. CASE Submits(t, Tail(th[t].todo), th[t].afterwards)
      <4> DEFINE rest == Tail(th[t].todo)
                 where == th[t].afterwards
      <4>0. rest \in Seq(Jobs) /\ where \in {"idle", "assign"} /\ Submits(t, rest, where)
        BY <2>2, <3>1, <3>2, PutOrPlace
      <4> HIDE DEF rest, where
      <4>1. PICK e \in ThreadStates : th' = [th EXCEPT ![t] = e] /\ e.todo = rest
        BY <4>0, SubmitsTyped
      <4> USE DEF rest
      <4>2. QED
        BY <2>2, <4>1, PutOrPlace, DropsFirst
    <3>3. QED
      BY <2>2, <3>2, PutOrPlace, GoesSilent
  <2>3. QED
    BY <1>3, <2>1, <2>2 DEF Submit
<1>4. CASE UNCHANGED vars
  BY <1>4 DEF vars, SilentStep, Decided
<1>5. QED
  BY <1>1, <1>2, <1>3, <1>4 DEF Next

\* Once a cron context is recognised, no hook and no bring-up, not even one that was
\* under way, decides to send a request: a step only takes requests off the threads.
THEOREM CronStaysSilent == Spec => CronIsSilent
<1>1. Init => Typed
  BY TypedInit
<1>2. Typed /\ [Next]_vars => Typed'
  BY TypedStep
<1>3. Typed /\ [Next]_vars => [SilentStep]_vars
  BY Silent DEF SilentStep
<1>4. QED
  BY <1>1, <1>2, <1>3, PTL DEF Spec, CronIsSilent, SilentStep

-----------------------------------------------------------------------------
(* The lock and the runners.  A runner is made only when all before it     *)
(* were closed, and each shutdown() closes at most one, so the shutdowns   *)
(* bound the runners: this is why Runners has numbers enough.              *)

Locking == {h \in Hosts : th[h].at = "lock"}

Holding == {"drain", "stop", "join"}

LockInv ==
    /\ lock \in Hosts \cup {NoThread}
    /\ \A h \in Hosts : th[h].at \in Holding <=> lock = h
    /\ lock \in Hosts => runner \in closed

RunnersInv ==
    /\ closed \subseteq 1..runner
    /\ \A t \in Threads : th[t].at \in {"put", "place"} => th[t].on \in 1..runner
    /\ \A r \in Runners : r > runner => queue[r] = <<>>

ShutdownsInv ==
    /\ IsFiniteSet(Locking) /\ IsFiniteSet(closed)
    /\ Cardinality(closed) + Cardinality(Locking) <= shutdowns

CallsInv == cron \in BOOLEAN /\ calls \in 0..MaxCalls /\ shutdowns \in 0..MaxShutdowns

ProcessInv == LockInv /\ RunnersInv /\ ShutdownsInv /\ CallsInv

LEMMA ProcessInit == Init => ProcessInv
<1> SUFFICES ASSUME Init PROVE ProcessInv
  OBVIOUS
<1>1. \A t \in Threads : th[t].at = "idle"
  BY IdleTyped DEF Init
<1>2. Locking = {} /\ closed = {}
  BY <1>1, NoHostWorks DEF Locking, Init
<1>3. ShutdownsInv
  BY <1>2, FS_EmptySet DEF Init, ShutdownsInv
<1>4. LockInv /\ RunnersInv
  BY <1>1, NoHostWorks, LifecycleAssumption DEF Init, LockInv, RunnersInv, Holding
<1>5. CallsInv
  <2>1. MaxCalls \in Nat /\ MaxShutdowns \in Nat
    BY LifecycleAssumption
  <2>2. calls \in 0..MaxCalls /\ shutdowns \in 0..MaxShutdowns
    BY <2>1 DEF Init
  <2>3. cron \in BOOLEAN
    BY Zenon DEF Init
  <2>4. QED
    BY <2>2, <2>3, Zenon DEF CallsInv
<1>6. QED
  BY <1>3, <1>4, <1>5 DEF ProcessInv

\* One thread moves: from where, and to where.
Moves(t, from, to) ==
    /\ th[t].at \in from
    /\ \E e \in ThreadStates : th' = [th EXCEPT ![t] = e] /\ e.at \in to

LEMMA SubmitsMoves ==
    ASSUME Typed, NEW t \in Threads, NEW todo \in Seq(Jobs), NEW where \in {"idle", "assign"},
           Submits(t, todo, where)
    PROVE  \E e \in ThreadStates : th' = [th EXCEPT ![t] = e] /\ e.at \in {"idle", "assign", "get"}
  BY SubmitsTyped

LEMMA CalledMoves ==
    ASSUME Typed, NEW h \in Hosts, Called(h)
    PROVE  /\ Moves(h, {"idle", "exited"}, {"idle", "exited", "assign", "get", "lock"})
           /\ Shutdown(h) \/ Moves(h, {"idle", "exited"}, {"idle", "exited", "assign", "get"})
<1>0. h \in Threads /\ th[h] \in ThreadStates
  BY NoHostWorks DEF Typed
<1>1. CASE Hook(h)
  <2>1. PICK todo : Submits(h, todo, "idle") /\ todo \in Seq(Jobs)
    BY <1>1, HookTodo DEF Typed
  <2>2. th[h].at \in {"idle", "exited"}
    BY <1>1 DEF Hook, Busy
  <2>3. QED
    BY <1>0, <2>1, <2>2, SubmitsMoves DEF Moves
<1>2. CASE InitializeCron(h)
  <2>1. th' = [th EXCEPT ![h] = th[h]] /\ th[h].at \in {"idle", "exited"}
    BY <1>2 DEF InitializeCron, Busy, Typed
  <2>2. QED
    BY <1>0, <2>1 DEF Moves
<1>3. CASE Initialize(h)
  <2>1. Submits(h, <<BringUp>>, "idle") /\ <<BringUp>> \in Seq(Jobs)
    BY <1>3, JobsTyped DEF Initialize
  <2>2. th[h].at \in {"idle", "exited"}
    BY <1>3 DEF Initialize, Busy
  <2>3. QED
    BY <1>0, <2>1, <2>2, SubmitsMoves DEF Moves
<1>4. CASE Shutdown(h)
  <2> DEFINE e == [th[h] EXCEPT !.at = "lock"]
  <2>1. th' = [th EXCEPT ![h] = e] /\ th[h].at \in {"idle", "exited"}
    BY <1>4 DEF Shutdown, Goes, Busy
  <2>2. e \in ThreadStates /\ e.at = "lock"
    BY <1>0 DEF ThreadStates, Places
  <2> HIDE DEF e
  <2>3. QED
    BY <1>4, <2>1, <2>2 DEF Moves
<1>5. QED
  BY <1>1, <1>2, <1>3, <1>4 DEF Called

LEMMA WorkMoves ==
    ASSUME Typed, NEW w \in Workers, Work(w)
    PROVE  Moves(w, {"idle", "run", "assign"}, {"idle", "run", "exited", "assign", "get"})
<1>0. w \in Threads /\ th[w] \in ThreadStates /\ w[1] \in Runners
  BY DEF Typed, Threads, Workers
<1>1. CASE Take(w)
  <2>1. PICK p \in {"exited", "run"}, job \in Jobs :
           th' = [th EXCEPT ![w].at = p, ![w].job = job]
    <3>1. queue[w[1]] \in Seq(Jobs) /\ queue[w[1]] # <<>>
      BY <1>0, <1>1 DEF Take, Typed
    <3>2. Head(queue[w[1]]) \in Jobs
      BY <3>1
    <3>3. QED
      BY <1>1, <3>2 DEF Take
  <2> DEFINE e == [th[w] EXCEPT !.at = p, !.job = job]
  <2>2. th' = [th EXCEPT ![w] = e]
    BY <2>1
  <2>3. e \in ThreadStates /\ e.at = p
    BY <1>0 DEF ThreadStates, Places
  <2> HIDE DEF e
  <2>4. QED
    BY <1>1, <2>2, <2>3 DEF Moves, Take
<1>2. CASE EndLine(w) \/ BringUpFails(w)
  BY <1>2, IdleTyped DEF EndLine, BringUpFails, Rests, Moves
<1>3. CASE EndRequest(w)
  BY <1>0, <1>3, SubmitsMoves, JobsTyped DEF EndRequest, Moves
<1>4. CASE BringUpMakes(w)
  <2> DEFINE e == Thread(IF Logs THEN "get" ELSE "assign", Stop, Recorded, "assign", 0, clients + 1)
  <2>1. th' = [th EXCEPT ![w] = e] /\ th[w].at = "run"
    BY <1>4 DEF BringUpMakes
  <2>2. e \in ThreadStates /\ e.at \in {"get", "assign"}
    BY JobsTyped DEF Thread, ThreadStates, Places, Typed
  <2> HIDE DEF e
  <2>3. QED
    BY <2>1, <2>2 DEF Moves
<1>5. CASE BringUpAssigns(w)
  <2>1. PICK recall \in Seq(Jobs) : Submits(w, recall, "idle")
    BY <1>0, <1>5, FirstRecall DEF Typed
  <2>2. QED
    BY <1>0, <1>5, <2>1, SubmitsMoves DEF BringUpAssigns, Moves
<1>6. QED
  BY <1>1, <1>2, <1>3, <1>4, <1>5 DEF Work

\* A thread that puts has a runner to put into.
LEMMA SubmitMoves ==
    ASSUME Typed, NEW t \in Threads, Submit(t)
    PROVE  /\ Moves(t, {"get", "wait", "put", "place"},
                    {"wait", "put", "place", "idle", "assign", "get"})
           /\ th'[t].at \in {"put", "place"} =>
                 \/ th'[t].on = runner' /\ runner' \in Nat \ {0}
                 \/ th[t].at = "put" /\ th'[t].on = th[t].on /\ runner' = runner
<1>0. th[t] \in ThreadStates /\ runner \in Nat
  BY DEF Typed
<1>1. CASE GetRunner(t) \/ GetLocked(t)
  <2>1. PICK p \in {"wait", "put"}, r \in Nat :
           /\ th' = [th EXCEPT ![t].at = p, ![t].on = r]
           /\ p = "put" => r = runner' /\ runner' # 0
           /\ runner' \in Nat
    <3>1. CASE GetRunner(t)
      BY <1>0, <3>1 DEF GetRunner, NeedsRunner, runnerVars
    <3>2. CASE GetLocked(t)
      <4>1. th' = [th EXCEPT ![t].at = "put", ![t].on = runner']
        BY <3>2 DEF GetLocked
      <4>2. runner' \in Nat /\ runner' # 0
        BY <1>0, <3>2 DEF GetLocked, NeedsRunner
      <4>3. QED
        BY <4>1, <4>2, Zenon
    <3>3. QED
      BY <1>1, <3>1, <3>2
  <2> DEFINE e == [th[t] EXCEPT !.at = p, !.on = r]
  <2>2. th' = [th EXCEPT ![t] = e]
    BY <2>1
  <2>3. e \in ThreadStates /\ e.at = p /\ e.on = r
    BY <1>0 DEF ThreadStates, Places
  <2>4. th[t].at \in {"get", "wait"}
    BY <1>1 DEF GetRunner, GetLocked
  <2> HIDE DEF e
  <2>5. th'[t] = e
    BY <2>2 DEF Typed
  <2>6. QED
    BY <2>1, <2>2, <2>3, <2>4, <2>5 DEF Moves
<1>2. CASE (Put(t) \/ Place(t)) /\ Submits(t, Tail(th[t].todo), th[t].afterwards)
  <2>1. Tail(th[t].todo) \in Seq(Jobs) /\ th[t].afterwards \in {"idle", "assign"}
    BY <1>2, PutOrPlace
  <2>2. PICK e \in ThreadStates :
           th' = [th EXCEPT ![t] = e] /\ e.at \in {"idle", "assign", "get"}
    BY <1>2, <2>1, SubmitsMoves
  <2>3. th'[t] = e /\ th[t].at \in {"put", "place"}
    BY <1>2, <2>2 DEF Put, Place, Typed
  <2>4. QED
    BY <2>2, <2>3 DEF Moves
<1>3. CASE Put(t) /\ Goes(t, "place")
  <2> DEFINE e == [th[t] EXCEPT !.at = "place"]
  <2>1. th' = [th EXCEPT ![t] = e] /\ th[t].at = "put" /\ runner' = runner
    BY <1>3 DEF Goes, Put, runnerVars
  <2>2. e \in ThreadStates /\ e.at = "place" /\ e.on = th[t].on
    BY <1>0 DEF ThreadStates, Places
  <2> HIDE DEF e
  <2>3. th'[t] = e
    BY <2>1 DEF Typed
  <2>4. QED
    BY <2>1, <2>2, <2>3 DEF Moves
<1>4. QED
  BY <1>1, <1>2, <1>3 DEF Submit, Put, Place, Submitted

\* Nobody else takes or releases the lock.
LEMMA LockAside ==
    ASSUME Typed, LockInv, UNCHANGED <<lock, closed, runner>>, NEW t \in Threads,
           Moves(t, Places \ Holding, Places \ Holding)
    PROVE  LockInv'
<1>1. PICK e \in ThreadStates :
         th' = [th EXCEPT ![t] = e] /\ e.at \notin Holding
  BY DEF Moves
<1>2. \A h \in Hosts : th'[h].at \in Holding <=> th[h].at \in Holding
  BY <1>1, NoHostWorks DEF Moves, Typed
<1>3. QED
  BY <1>2 DEF LockInv

LEMMA LockStep ==
    ASSUME Typed, LockInv, [Next]_vars
    PROVE  LockInv'
<1>1. ASSUME NEW h \in Hosts, Called(h) PROVE LockInv'
  <2>1. UNCHANGED <<lock, closed, runner>>
    BY <1>1 DEF Called, Hook, InitializeCron, Initialize, Shutdown, runnerVars
  <2>2. Moves(h, Places \ Holding, Places \ Holding)
    BY <1>1, CalledMoves DEF Moves, Places, Holding
  <2>3. QED
    BY <2>1, <2>2, LockAside, NoHostWorks
<1>2. ASSUME NEW h \in Hosts, ShuttingDown(h) PROVE LockInv'
  <2>0. h \in Threads /\ NoThread \notin Hosts
    BY NoHostWorks, LifecycleAssumption
  <2>1. CASE LockRunner(h) /\ NeedsRunner
    <3>1. UNCHANGED <<lock, closed, runner>> /\ th' = [th EXCEPT ![h].at = "close"]
          /\ th[h].at = "lock"
      BY <2>1 DEF LockRunner, Goes
    <3>2. QED
      BY <2>0, <3>1, NoHostWorks DEF LockInv, Typed, ThreadStates, Holding
  <2>2. CASE LockRunner(h) /\ ~NeedsRunner
    <3>1. /\ lock = NoThread /\ lock' = h /\ runner' = runner /\ closed' = closed \cup {runner}
          /\ th' = [th EXCEPT ![h].at = "drain"]
      BY <2>2 DEF LockRunner, Goes
    <3>2. QED
      BY <2>0, <3>1, NoHostWorks DEF LockInv, Typed, ThreadStates, Holding
  <2>3. CASE EndDrain(h) \/ PostStop(h)
    <3>1. PICK e \in ThreadStates : Stopping(h, e)
      BY <2>3, StopsTodo, StopPosted
    <3>2. UNCHANGED <<lock, closed, runner>> /\ th[h].at \in Holding /\ e.at \in Holding
      BY <2>3, <3>1 DEF EndDrain, PostStop, Stopping, runnerVars, Holding
    <3>3. QED
      BY <2>0, <3>1, <3>2, NoHostWorks DEF LockInv, Stopping, Typed
  <2>4. CASE EndJoin(h)
    <3>1. /\ lock' = NoThread /\ UNCHANGED <<closed, runner>>
          /\ th' = [th EXCEPT ![h].at = "close"] /\ th[h].at = "join"
      BY <2>4 DEF EndJoin, Goes
    <3>2. QED
      BY <2>0, <3>1, NoHostWorks DEF LockInv, Typed, ThreadStates, Holding
  <2>5. CASE CloseClient(h)
    <3>1. UNCHANGED <<lock, closed, runner>> /\ th[h].at = "close"
          /\ (Rests(h) \/ Goes(h, "forget"))
      BY <2>5 DEF CloseClient, runnerVars
    <3>2. \A g \in Hosts \ {h} : th'[g] = th[g]
      BY <2>0, <3>1, NoHostWorks DEF Rests, Goes, Typed
    <3>3. th'[h].at \in {"idle", "forget"}
      BY <2>0, <3>1, IdleTyped DEF Rests, Goes, Typed, ThreadStates
    <3>4. QED
      BY <2>0, <3>1, <3>2, <3>3 DEF LockInv, Holding
  <2>6. CASE ForgetClient(h)
    <3>1. UNCHANGED <<lock, closed, runner>> /\ th' = [th EXCEPT ![h] = Idle]
          /\ th[h].at = "forget"
      BY <2>6 DEF ForgetClient, runnerVars, Rests
    <3>2. QED
      BY <2>0, <3>1, NoHostWorks, IdleTyped DEF LockInv, Typed, Holding
  <2>7. QED
    BY <1>2, <2>1, <2>2, <2>3, <2>4, <2>5, <2>6 DEF ShuttingDown
<1>3. ASSUME NEW w \in Workers, Work(w) PROVE LockInv'
  <2>1. UNCHANGED <<lock, closed, runner>>
    BY <1>3 DEF Work, Take, EndLine, EndRequest, BringUpFails, BringUpMakes, BringUpAssigns,
                runnerVars
  <2>2. Moves(w, Places \ Holding, Places \ Holding) /\ w \in Threads
    BY <1>3, WorkMoves DEF Moves, Places, Threads, Holding
  <2>3. QED
    BY <2>1, <2>2, LockAside
<1>4. ASSUME NEW t \in Threads, Submit(t) PROVE LockInv'
  <2>1. UNCHANGED <<lock, closed>> /\ (runner' = runner \/ lock = NoThread)
    BY <1>4 DEF Submit, GetRunner, GetLocked, Put, Place, runnerVars
  <2>2. PICK e \in ThreadStates :
           th' = [th EXCEPT ![t] = e] /\ e.at \notin Holding
    BY <1>4, SubmitMoves DEF Moves, Holding
  <2>3. th[t].at \notin Holding
    BY <1>4, SubmitMoves DEF Moves, Holding
  <2>4. QED
    BY <2>1, <2>2, <2>3, NoHostWorks, LifecycleAssumption DEF LockInv, Typed
<1>5. CASE UNCHANGED vars
  BY <1>5 DEF vars, runnerVars, LockInv
<1>6. QED
  BY <1>1, <1>2, <1>3, <1>4, <1>5 DEF Next

\* Where a thread moves that does not put, nothing changes for the runners.
LEMMA RunnersAside ==
    ASSUME Typed, RunnersInv, UNCHANGED runner, NEW t \in Threads,
           Moves(t, Places, Places \ {"put", "place"}), closed' \subseteq 1..runner,
           \A r \in Runners : r > runner => queue'[r] = <<>>
    PROVE  RunnersInv'
<1>1. PICK e \in ThreadStates : th' = [th EXCEPT ![t] = e] /\ e.at \notin {"put", "place"}
  BY DEF Moves
<1>2. \A u \in Threads : th'[u].at \in {"put", "place"} => th'[u] = th[u]
  BY <1>1 DEF Typed
<1>3. QED
  BY <1>2 DEF RunnersInv

LEMMA ShuttingDownMoves ==
    ASSUME Typed, NEW h \in Hosts, ShuttingDown(h)
    PROVE  Moves(h, Places, {"idle", "close", "drain", "stop", "join", "forget"})
<1>0. h \in Threads /\ th[h] \in ThreadStates /\ th[h].at \in Places
  BY NoHostWorks DEF Typed, ThreadStates
<1>1. CASE Rests(h)
  BY <1>0, <1>1, IdleTyped DEF Rests, Moves
<1>2. ASSUME NEW p \in {"close", "drain", "join", "forget"}, Goes(h, p)
      PROVE  Moves(h, Places, {"idle", "close", "drain", "stop", "join", "forget"})
  <2> DEFINE e == [th[h] EXCEPT !.at = p]
  <2>1. th' = [th EXCEPT ![h] = e]
    BY <1>2 DEF Goes
  <2>2. e \in ThreadStates /\ e.at = p
    BY <1>0 DEF ThreadStates, Places
  <2> HIDE DEF e
  <2>3. QED
    BY <1>0, <2>1, <2>2 DEF Moves
<1>3. CASE EndDrain(h) \/ PostStop(h)
  BY <1>0, <1>3, StopsTodo, StopPosted DEF Stopping, Moves
<1>4. CASE ~(EndDrain(h) \/ PostStop(h))
  <2>1. Rests(h) \/ \E p \in {"close", "drain", "join", "forget"} : Goes(h, p)
    BY <1>4 DEF ShuttingDown, LockRunner, EndJoin, CloseClient, ForgetClient
  <2>2. QED
    BY <1>1, <1>2, <2>1
<1>5. QED
  BY <1>3, <1>4

LEMMA RunnersStep ==
    ASSUME Typed, LockInv, RunnersInv, [Next]_vars
    PROVE  RunnersInv'
<1>1. ASSUME NEW h \in Hosts, Called(h) PROVE RunnersInv'
  <2>1. UNCHANGED <<runner, closed, queue>>
    BY <1>1, CalledFrame
  <2>2. Moves(h, Places, Places \ {"put", "place"}) /\ h \in Threads
    BY <1>1, CalledMoves, NoHostWorks DEF Moves, Places
  <2>3. QED
    BY <2>1, <2>2, RunnersAside DEF RunnersInv
<1>2. ASSUME NEW h \in Hosts, ShuttingDown(h) PROVE RunnersInv'
  <2>1. UNCHANGED runner
    BY <1>2, ShuttingDownFrame
  <2>2. Moves(h, Places, Places \ {"put", "place"}) /\ h \in Threads
    BY <1>2, ShuttingDownMoves, NoHostWorks DEF Moves, Places
  <2>3. closed' \subseteq 1..runner
    <3>1. closed' = closed \/ (closed' = closed \cup {runner} /\ runner # 0)
      BY <1>2 DEF ShuttingDown, LockRunner, EndDrain, PostStop, EndJoin, CloseClient, ForgetClient,
                  runnerVars, NeedsRunner
    <3>2. runner \in Nat /\ closed \subseteq 1..runner
      BY DEF RunnersInv, Typed
    <3>3. CASE closed' = closed
      BY <3>2, <3>3
    <3>4. CASE closed' = closed \cup {runner} /\ runner # 0
      <4>1. runner \in 1..runner
        BY <3>2, <3>4
      <4>2. QED
        BY <3>2, <3>4, <4>1
    <3>5. QED
      BY <3>1, <3>3, <3>4
  <2>4. \A r \in Runners : r > runner => queue'[r] = <<>>
    <3>1. CASE UNCHANGED queue
      BY <3>1 DEF RunnersInv
    <3>2. CASE PostStop(h)
      <4>1. \A r \in Runners : r # runner => queue'[r] = queue[r]
        BY <3>2 DEF PostStop, Typed
      <4>2. QED
        BY <4>1 DEF RunnersInv, Typed, Runners
    <3>3. QED
      BY <1>2, <3>1, <3>2, ShuttingDownFrame
  <2>5. QED
    BY <2>1, <2>2, <2>3, <2>4, RunnersAside
<1>3. ASSUME NEW w \in Workers, Work(w) PROVE RunnersInv'
  <2>1. UNCHANGED <<runner, closed>>
    BY <1>3, WorkFrame
  <2>2. Moves(w, Places, Places \ {"put", "place"}) /\ w \in Threads
    BY <1>3, WorkMoves DEF Moves, Places, Threads
  <2>3. \A r \in Runners : r > runner => queue'[r] = <<>>
    <3>1. CASE UNCHANGED queue
      BY <3>1 DEF RunnersInv
    <3>2. CASE Take(w)
      <4>1. \A r \in Runners : queue[r] = <<>> => queue'[r] = queue[r]
        BY <3>2 DEF Take, Typed
      <4>2. QED
        BY <4>1 DEF RunnersInv
    <3>3. QED
      BY <1>3, <3>1, <3>2, WorkFrame
  <2>4. QED
    BY <2>1, <2>2, <2>3, RunnersAside DEF RunnersInv
<1>4. ASSUME NEW t \in Threads, Submit(t) PROVE RunnersInv'
  <2>1. closed' = closed /\ runner' \in {runner, runner + 1} /\ runner \in Nat
    BY <1>4, SubmitFrame DEF Typed
  <2>2. \A u \in Threads : th'[u].at \in {"put", "place"} => th'[u].on \in 1..runner'
    <3>1. th'[t].at \in {"put", "place"} => th'[t].on \in 1..runner'
      BY <1>4, SubmitMoves DEF RunnersInv
    <3>2. \A u \in Threads \ {t} : th'[u] = th[u]
      BY <1>4, SubmitMoves DEF Moves, Typed
    <3>3. \A u \in Threads \ {t} : th'[u].at \in {"put", "place"} => th'[u].on \in 1..runner
      BY <3>2 DEF RunnersInv
    <3>4. 1..runner \subseteq 1..runner'
      BY <2>1
    <3>5. QED
      BY <3>1, <3>3, <3>4
  <2>3. \A r \in Runners : r > runner => queue'[r] = <<>>
    <3>1. CASE UNCHANGED queue
      BY <3>1 DEF RunnersInv
    <3>2. CASE Place(t)
      <4>1. th[t].on \in 1..runner
        BY <3>2 DEF Place, RunnersInv
      <4>2. \A r \in Runners : r # th[t].on => queue'[r] = queue[r]
        BY <3>2 DEF Place, Typed
      <4>3. QED
        BY <2>1, <4>1, <4>2 DEF RunnersInv, Runners
    <3>3. QED
      BY <1>4, <3>1, <3>2, SubmitFrame
  <2>4. \A r \in Runners : r > runner' => r > runner
    BY <2>1 DEF Runners
  <2>5. closed' \subseteq 1..runner'
    BY <2>1 DEF RunnersInv
  <2>6. QED
    BY <2>2, <2>3, <2>4, <2>5 DEF RunnersInv
<1>5. CASE UNCHANGED vars
  BY <1>5 DEF vars, runnerVars, RunnersInv
<1>6. QED
  BY <1>1, <1>2, <1>3, <1>4, <1>5 DEF Next

\* The calls are bounded by the guards.
LEMMA CallsStep ==
    ASSUME Typed, CallsInv, [Next]_vars
    PROVE  CallsInv'
<1>0. MaxCalls \in Nat /\ MaxShutdowns \in Nat
  BY LifecycleAssumption
<1>1. cron' \in {cron, TRUE}
  <2>1. ASSUME NEW h \in Hosts, Called(h) \/ ShuttingDown(h) PROVE cron' \in {cron, TRUE}
    BY <2>1, Zenon DEF Called, Hook, InitializeCron, Initialize, Shutdown, ShuttingDown, LockRunner,
              EndDrain, PostStop, EndJoin, CloseClient, ForgetClient, providerVars
  <2>2. ASSUME NEW w \in Workers, Work(w) PROVE cron' \in {cron, TRUE}
    BY <2>2, Zenon DEF Work, Take, EndLine, EndRequest, BringUpFails, BringUpMakes,
              BringUpAssigns, providerVars
  <2>3. ASSUME NEW t \in Threads, Submit(t) PROVE cron' \in {cron, TRUE}
    BY <2>3, Zenon DEF Submit, GetRunner, GetLocked, Put, Place, providerVars
  <2>4. CASE UNCHANGED vars
    BY <2>4, Zenon DEF vars, providerVars
  <2>5. QED
    BY <2>1, <2>2, <2>3, <2>4, Zenon DEF Next
<1>2. /\ calls' = calls \/ (calls < MaxCalls /\ calls' = calls + 1)
      /\ shutdowns' = shutdowns \/ (shutdowns < MaxShutdowns /\ shutdowns' = shutdowns + 1)
  <2> DEFINE Bounded == /\ calls' = calls \/ (calls < MaxCalls /\ calls' = calls + 1)
                        /\ shutdowns' = shutdowns
                           \/ (shutdowns < MaxShutdowns /\ shutdowns' = shutdowns + 1)
  <2>1. ASSUME NEW h \in Hosts, Called(h) \/ ShuttingDown(h) PROVE Bounded
    BY <2>1, Zenon DEF Called, Hook, InitializeCron, Initialize, Shutdown, ShuttingDown, LockRunner,
              EndDrain, PostStop, EndJoin, CloseClient, ForgetClient
  <2>2. ASSUME NEW w \in Workers, Work(w) PROVE Bounded
    BY <2>2, Zenon DEF Work, Take, EndLine, EndRequest, BringUpFails, BringUpMakes, BringUpAssigns
  <2>3. ASSUME NEW t \in Threads, Submit(t) PROVE Bounded
    BY <2>3, Zenon DEF Submit, GetRunner, GetLocked, Put, Place
  <2>4. CASE UNCHANGED vars
    BY <2>4, Zenon DEF vars
  <2>5. QED
    BY <2>1, <2>2, <2>3, <2>4, Zenon DEF Next
<1>3. cron' \in BOOLEAN
  BY <1>1, Zenon DEF CallsInv
<1>4. calls' \in 0..MaxCalls /\ shutdowns' \in 0..MaxShutdowns
  BY <1>0, <1>2 DEF CallsInv
<1>5. QED
  BY <1>3, <1>4, Zenon DEF CallsInv

\* A step that begins no shutdown and closes no runner.
LEMMA ShutdownsAside ==
    ASSUME ShutdownsInv, UNCHANGED <<closed, shutdowns>>, Locking' = Locking
    PROVE  ShutdownsInv'
  BY DEF ShutdownsInv

LEMMA LockingAside ==
    ASSUME Typed, NEW t \in Threads, Moves(t, Places, Places \ {"lock"}),
           t \in Workers \/ th[t].at # "lock"
    PROVE  Locking' = Locking
<1>1. PICK e \in ThreadStates : th' = [th EXCEPT ![t] = e] /\ e.at # "lock"
  BY DEF Moves
<1>2. \A h \in Hosts : th'[h].at = "lock" <=> th[h].at = "lock"
  BY <1>1, NoHostWorks DEF Typed
<1>3. QED
  BY <1>2 DEF Locking

LEMMA ShutdownsStep ==
    ASSUME Typed, RunnersInv, ShutdownsInv, CallsInv, [Next]_vars
    PROVE  ShutdownsInv'
<1>0. /\ IsFiniteSet(Locking) /\ IsFiniteSet(closed)
      /\ Cardinality(Locking) \in Nat /\ Cardinality(closed) \in Nat /\ shutdowns \in Int
      /\ Cardinality(closed) + Cardinality(Locking) <= shutdowns
  BY FS_CardinalityType DEF ShutdownsInv, CallsInv
<1>1. ASSUME NEW h \in Hosts, Called(h) PROVE ShutdownsInv'
  <2>0. h \in Threads
    BY NoHostWorks
  <2>1. CASE Shutdown(h)
    <3>1. shutdowns' = shutdowns + 1 /\ closed' = closed /\ th' = [th EXCEPT ![h].at = "lock"]
          /\ th[h].at # "lock"
      BY <2>1 DEF Shutdown, Goes, Busy, runnerVars
    <3>2. Locking' = Locking \cup {h} /\ h \notin Locking
      BY <2>0, <3>1, NoHostWorks DEF Locking, Typed, ThreadStates
    <3>3. IsFiniteSet(Locking') /\ Cardinality(Locking') = Cardinality(Locking) + 1
      BY <1>0, <3>2, FS_AddElement
    <3>4. QED
      BY <1>0, <3>1, <3>3 DEF ShutdownsInv
  <2>2. CASE ~Shutdown(h)
    <3>1. closed' = closed /\ shutdowns' = shutdowns
      BY <1>1, <2>2 DEF Called, Hook, InitializeCron, Initialize, runnerVars
    <3>2. Moves(h, Places, Places \ {"lock"}) /\ th[h].at # "lock"
      BY <1>1, <2>2, CalledMoves DEF Moves, Places
    <3>3. QED
      BY <2>0, <3>1, <3>2, LockingAside, ShutdownsAside
  <2>3. QED
    BY <2>1, <2>2
<1>2. ASSUME NEW h \in Hosts, ShuttingDown(h) PROVE ShutdownsInv'
  <2>0. h \in Threads /\ shutdowns' = shutdowns
    BY <1>2, NoHostWorks
       DEF ShuttingDown, LockRunner, EndDrain, PostStop, EndJoin, CloseClient, ForgetClient
  <2>1. CASE LockRunner(h)
    <3>1. PICK p \in {"close", "drain"} : Goes(h, p)
      BY <2>1 DEF LockRunner
    <3>2. Locking' = Locking \ {h} /\ h \in Locking
      <4>1. h \in Locking
        BY <2>1 DEF LockRunner, Locking
      <4>2. th'[h].at # "lock" /\ \A g \in Hosts \ {h} : th'[g] = th[g]
        BY <2>0, <3>1, NoHostWorks DEF Goes, Typed, ThreadStates
      <4>3. QED
        BY <4>1, <4>2 DEF Locking
    <3>3. IsFiniteSet(Locking') /\ Cardinality(Locking') = Cardinality(Locking) - 1
      BY <1>0, <3>2, FS_RemoveElement
    <3>4. closed' = closed \/ closed' = closed \cup {runner}
      BY <2>1 DEF LockRunner
    <3>5. IsFiniteSet(closed') /\ Cardinality(closed') \in {Cardinality(closed), Cardinality(closed) + 1}
      BY <1>0, <3>4, FS_AddElement
    <3>6. QED
      BY <1>0, <2>0, <3>3, <3>5 DEF ShutdownsInv
  <2>2. CASE ~LockRunner(h)
    <3>1. closed' = closed /\ th[h].at # "lock"
      BY <1>2, <2>2 DEF ShuttingDown, EndDrain, PostStop, EndJoin, CloseClient, ForgetClient, runnerVars
    <3>2. Moves(h, Places, Places \ {"lock"})
      BY <1>2, ShuttingDownMoves DEF Moves, Places
    <3>3. QED
      BY <2>0, <3>1, <3>2, LockingAside, ShutdownsAside
  <2>3. QED
    BY <2>1, <2>2
<1>3. ASSUME NEW w \in Workers, Work(w) PROVE ShutdownsInv'
  <2>1. UNCHANGED <<closed, shutdowns>>
    BY <1>3 DEF Work, Take, EndLine, EndRequest, BringUpFails, BringUpMakes, BringUpAssigns,
                runnerVars
  <2>2. Moves(w, Places, Places \ {"lock"}) /\ w \in Threads
    BY <1>3, WorkMoves DEF Moves, Places, Threads
  <2>3. QED
    BY <2>1, <2>2, LockingAside, ShutdownsAside
<1>4. ASSUME NEW t \in Threads, Submit(t) PROVE ShutdownsInv'
  <2>1. UNCHANGED <<closed, shutdowns>>
    BY <1>4 DEF Submit, GetRunner, GetLocked, Put, Place, runnerVars
  <2>2. Moves(t, Places, Places \ {"lock"}) /\ th[t].at # "lock"
    BY <1>4, SubmitMoves DEF Moves, Places
  <2>3. QED
    BY <2>1, <2>2, LockingAside, ShutdownsAside
<1>5. CASE UNCHANGED vars
  <2>1. UNCHANGED <<closed, shutdowns, th>>
    BY <1>5 DEF vars, runnerVars
  <2>2. QED
    BY <2>1, ShutdownsAside DEF Locking
<1>6. QED
  BY <1>1, <1>2, <1>3, <1>4, <1>5 DEF Next

LEMMA FirstNumbers ==
    ASSUME NEW n \in Nat
    PROVE  Cardinality(1..n) = n
<1>1. Cardinality(1..n) = IF 1 > n THEN 0 ELSE n - 1 + 1
  BY FS_Interval
<1>2. QED
  BY <1>1

\* All runners but the last were closed, and the last as well when one more is made.
LEMMA RunnersBounded ==
    ASSUME Typed, OneOpenRunner, RunnersInv, ShutdownsInv, CallsInv
    PROVE  runner <= MaxShutdowns + 1
<1>1. /\ runner \in Nat /\ MaxShutdowns \in Nat /\ shutdowns \in 0..MaxShutdowns
      /\ IsFiniteSet(closed) /\ IsFiniteSet(Locking)
      /\ Cardinality(closed) + Cardinality(Locking) <= shutdowns
  BY LifecycleAssumption DEF Typed, CallsInv, ShutdownsInv
<1>2. Cardinality(closed) \in Nat /\ Cardinality(Locking) \in Nat
  BY <1>1, FS_CardinalityType
<1>3. 1..runner - 1 \subseteq closed
  BY DEF OneOpenRunner
<1>4. Cardinality(1..runner - 1) <= Cardinality(closed)
  BY <1>1, <1>3, FS_Subset
<1>5. CASE runner = 0
  BY <1>1, <1>5
<1>6. CASE runner # 0
  <2>1. PICK n \in Nat : n = runner - 1
    BY <1>1, <1>6
  <2>2. Cardinality(1..n) = n
    BY FirstNumbers
  <2>3. Cardinality(1..n) <= Cardinality(closed)
    BY <1>4, <2>1
  <2>4. n <= Cardinality(closed)
    BY <2>2, <2>3
  <2>5. QED
    BY <1>1, <1>2, <2>1, <2>4
<1>7. QED
  BY <1>5, <1>6

\* The types and the lock discipline: _runner_lock is held exactly by the thread that
\* drains or joins the current runner, which is closed then; nothing is queued for a
\* runner that is yet to be made; and there are no more runners than shutdowns allow.
THEOREM LifecycleTyped == Spec => []TypeOK
<1> DEFINE Inv == Typed /\ ClientsInv /\ OneOpenRunner /\ ProcessInv
<1>1. Init => Inv
  BY TypedInit, ClientsInit, ProcessInit DEF Init, OneOpenRunner
<1>2. Inv /\ [Next]_vars => Inv'
  BY TypedStep, ClientsStep, RunnerStep, LockStep, RunnersStep, ShutdownsStep, CallsStep
     DEF ProcessInv
<1>3. Inv => TypeOK
  <2> SUFFICES ASSUME Inv PROVE TypeOK
    OBVIOUS
  <2>1. runner \in 0..MaxShutdowns + 1
    BY RunnersBounded, LifecycleAssumption DEF ProcessInv, Typed
  <2>2. closed \subseteq 1..runner /\ \A r \in Runners : r > runner => queue[r] = <<>>
    BY DEF ProcessInv, RunnersInv
  <2>3. \A t \in Threads : th[t].at \in Places
    BY DEF Typed, ThreadStates
  <2>4. \A h \in Hosts : th[h].at \in {"drain", "stop", "join"} <=> lock = h
    BY DEF ProcessInv, LockInv, Holding
  <2>5. lock \in Hosts => runner \in closed
    BY DEF ProcessInv, LockInv
  <2>6. client \in 0..clients /\ shut \subseteq 1..clients
    BY DEF ClientsInv
  <2>7. CallsInv
    BY DEF ProcessInv
  <2> HIDE DEF Inv
  <2>8. QED
    BY <2>1, <2>2, <2>3, <2>4, <2>5, <2>6, <2>7, Zenon DEF TypeOK, CallsInv
<1> HIDE DEF Inv
<1>4. QED
  BY <1>1, <1>2, <1>3, PTL DEF Spec

=============================================================================
