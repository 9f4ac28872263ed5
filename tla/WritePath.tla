----------------------------- MODULE WritePath ------------------------------
(***************************************************************************)
(* How a write reaches the Mastra server: the hooks that enqueue it, the   *)
(* deduplication of observations (observation_dedup.py), the request with  *)
(* its 401 rotation of the HTTP client, and the replay log (client.py,     *)
(* replay_log.py).                                                         *)
(*                                                                         *)
(* The runner's workers and Hermes' thread (the tool mastra_observe) are   *)
(* inside one MastraClient at once.  Its deduplicator has no lock: each    *)
(* step below is one operation on its OrderedDict.  A write is a name; the *)
(* breaker is any choice of admitting or refusing (see CircuitBreaker),    *)
(* the runner a FIFO queue that may drop its oldest job (RunnerContract).  *)
(*                                                                         *)
(* Two failures of the surroundings lose a write and tell nobody: the      *)
(* runner refuses a job (submit() answers False, which no hook looks at)   *)
(* and the replay log cannot be written.  Each counts as one fault.        *)
(***************************************************************************)
EXTENDS Integers, FiniteSets, SequencesExt

CONSTANTS
    Plain,        \* writes that are never deduplicated: turns, working memory, flushes
    Observations, \* deduplication keys: (thread, profile, kind, normalized text)
    Workers,      \* worker threads of the async runner
    Host,         \* Hermes' thread
    MaxSeen,      \* ObservationDeduper.max_size
    MaxWrites,    \* bound on the number of hooks and tools Hermes calls
    MaxClients,   \* bound on the number of httpx clients made
    MaxFaults     \* bound on the number of silent failures

Writes == Plain \cup Observations
Threads == Workers \cup {Host}
NoWrite == "none"

ASSUME WriteAssumption ==
    /\ Plain \cap Observations = {} /\ NoWrite \notin Writes
    /\ Host \notin Workers /\ IsFiniteSet(Workers)
    /\ MaxSeen \in Nat \ {0} /\ MaxWrites \in Nat /\ MaxClients \in Nat /\ MaxFaults \in Nat
    \* Two workers and Hermes' thread share 512 keys unless dedup_lru_size says less.
    /\ Cardinality(Threads) <= MaxSeen + 1

VARIABLES
    mirrored, \* p._dedup._seen, of on_memory_write(), least recently used first
    seen,     \* client._dedup._seen, least recently used first
    queue,    \* writes submitted to the async runner
    call,     \* what each thread is doing in the client
    http,     \* number of the client self._http
    opened,   \* number of httpx clients made
    closed,   \* httpx clients closed by a rotation
    server,   \* how often the server stored each write
    log,      \* writes in the replay log
    evicted,  \* writes the runner dropped for newer jobs, and counted
    faults,   \* number of writes refused by the runner or by the replay log
    writes,   \* number of hooks and tools called
    posts,    \* how often each write was handed to _post()
    handed,   \* writes Hermes handed over
    told      \* observations for which write_observation() answered True

dedupVars == <<mirrored, seen>>
httpVars == <<http, opened, closed>>
traces == <<server, log, evicted>>
ends == <<traces, faults>>
ghosts == <<posts, handed, told>>
vars == <<dedupVars, queue, call, httpVars, ends, writes, ghosts>>

Call(at, what, try, using) == [at |-> at, what |-> what, try |-> try, using |-> using]
Idle == Call("idle", NoWrite, 0, 0)
Entry(x) == Call(IF x \in Observations THEN "test" ELSE "post", x, 0, 0)

\* OrderedDict.move_to_end(); a key occurs once.
MoveToEnd(s, x) == LET i == CHOOSE i \in DOMAIN s : s[i] = x IN Append(RemoveAt(s, i), x)
Goes(c, at) == call' = [call EXCEPT ![c].at = at]
Ends(c) == call' = [call EXCEPT ![c] = Idle]

-----------------------------------------------------------------------------
(* Hooks and tools.                                                        *)

Called(xs) ==
    /\ writes < MaxWrites /\ writes' = writes + 1
    /\ handed' = handed \cup xs

\* _safe_enqueue() of each job: the runner takes it, or answers False.
Enqueue(jobs) ==
    \E taken \in {jobs, <<>>} \cup {<<jobs[i]>> : i \in DOMAIN jobs} :
        /\ queue' = queue \o taken
        /\ faults' = faults + Len(jobs) - Len(taken)
        /\ faults' <= MaxFaults

\* do_sync_turn(), do_delegation(), do_session_end() and the observers: one write.
Hook(x) ==
    /\ Called({x})
    /\ Enqueue(<<x>>)
    /\ UNCHANGED <<dedupVars, call, httpVars, traces, posts, told>>

Remember(o) == mirrored' =
    IF Contains(mirrored, o) THEN MoveToEnd(mirrored, o)
    ELSE Append(IF Len(mirrored) < MaxSeen THEN mirrored ELSE Tail(mirrored), o)

\* Faulty variant: the mirrored observation is remembered but not enqueued.
MemoryWriteForgets(x, o) ==
    /\ Called({x, o})
    /\ Remember(o)
    /\ Enqueue(<<x>>)
    /\ UNCHANGED <<seen, call, httpVars, traces, posts, told>>

\* do_memory_write(): the working memory is written, and an observation unless
\* the provider's own deduplicator has seen it; it is remembered before it is
\* enqueued, whatever the runner answers.
MemoryWrite(x, o) ==
    /\ Called({x, o})
    /\ Remember(o)
    /\ Enqueue(IF Contains(mirrored, o) THEN <<x>> ELSE <<x, o>>)
    /\ UNCHANGED <<seen, call, httpVars, traces, posts, told>>

\* _do_observe(): the tool calls the client on Hermes' thread.
Observe(o) ==
    /\ call[Host] = Idle
    /\ Called({o})
    /\ call' = [call EXCEPT ![Host] = Entry(o)]
    /\ UNCHANGED <<dedupVars, queue, httpVars, ends, posts, told>>

\* The runner drops its oldest job to make room for a newer one, perhaps a line of
\* telemetry, and counts it.
Evict ==
    /\ queue # <<>>
    /\ evicted' = evicted \cup {Head(queue)} /\ queue' = Tail(queue)
    /\ UNCHANGED <<dedupVars, call, httpVars, server, log, faults, writes, ghosts>>

TakeJob(w) ==
    /\ call[w] = Idle /\ queue # <<>>
    /\ call' = [call EXCEPT ![w] = Entry(Head(queue))]
    /\ queue' = Tail(queue)
    /\ UNCHANGED <<dedupVars, httpVars, ends, writes, ghosts>>

-----------------------------------------------------------------------------
(* ObservationDeduper.should_write(), without a lock.                      *)

DedupTest(c) ==
    /\ call[c].at = "test"
    /\ Goes(c, IF Contains(seen, call[c].what) THEN "touch" ELSE "insert")
    /\ UNCHANGED <<dedupVars, queue, httpVars, ends, writes, ghosts>>

\* A duplicate: write_observation() answers True and sends nothing.  The entry may
\* have been evicted meanwhile; then move_to_end() raises KeyError.
DedupTouch(c) ==
    /\ call[c].at = "touch"
    /\ IF Contains(seen, call[c].what)
         THEN /\ seen' = MoveToEnd(seen, call[c].what)
              /\ told' = told \cup {call[c].what}
         ELSE UNCHANGED <<seen, told>>
    /\ Ends(c)
    /\ UNCHANGED <<mirrored, queue, httpVars, ends, writes, posts, handed>>

\* self._seen[key] = None; an existing entry keeps its place.
DedupInsert(c) ==
    /\ call[c].at = "insert"
    /\ seen' = IF Contains(seen, call[c].what) THEN seen ELSE Append(seen, call[c].what)
    /\ Goes(c, "trim")
    /\ UNCHANGED <<mirrored, queue, httpVars, ends, writes, ghosts>>

\* Faulty variant: an entry too many is kept.
DedupTrimLate(c) ==
    /\ call[c].at = "trim"
    /\ Goes(c, IF Len(seen) > MaxSeen + 1 THEN "pop" ELSE "post")
    /\ UNCHANGED <<dedupVars, queue, httpVars, ends, writes, ghosts>>

\* The test of the trimming loop.
DedupTrim(c) ==
    /\ call[c].at = "trim"
    /\ Goes(c, IF Len(seen) > MaxSeen THEN "pop" ELSE "post")
    /\ UNCHANGED <<dedupVars, queue, httpVars, ends, writes, ghosts>>

\* popitem(last=False); on an emptied dictionary it would raise KeyError, and the
\* write would be lost without a trace.
DedupPop(c) ==
    /\ call[c].at = "pop"
    /\ IF seen # <<>>
         THEN seen' = Tail(seen) /\ Goes(c, "trim")
         ELSE Ends(c) /\ UNCHANGED seen
    /\ UNCHANGED <<mirrored, queue, httpVars, ends, writes, ghosts>>

-----------------------------------------------------------------------------
(* _post(): the guarded request, then the replay log.                      *)

\* The breaker admits the request, and it picks self._http; or it refuses.
Post(c) ==
    /\ call[c].at = "post"
    /\ call' \in {[call EXCEPT ![c].at = "send", ![c].try = 1, ![c].using = http],
                  [call EXCEPT ![c].at = "log"]}
    /\ posts' = [posts EXCEPT ![call[c].what] = @ + 1]
    /\ UNCHANGED <<dedupVars, queue, httpVars, ends, writes, handed, told>>

\* The server stores the write and its answer arrives.
Delivered(c) ==
    /\ call[c].at = "send" /\ call[c].using \notin closed
    /\ server' = [server EXCEPT ![call[c].what] = @ + 1]
    /\ told' = told \cup ({call[c].what} \cap Observations)
    /\ Ends(c)
    /\ UNCHANGED <<dedupVars, queue, httpVars, log, evicted, faults, writes, posts, handed>>

\* Faulty variant: a request that timed out is sent again.
AnswerLostRetried(c) ==
    /\ call[c].at = "send" /\ call[c].using \notin closed
    /\ server' = [server EXCEPT ![call[c].what] = @ + 1]
    /\ call' = IF call[c].try < 3 THEN [call EXCEPT ![c].try = @ + 1]
               ELSE [call EXCEPT ![c].at = "log"]
    /\ UNCHANGED <<dedupVars, queue, httpVars, log, evicted, faults, writes, ghosts>>

\* The server stores the write, and its answer is late, lost or not valid.
AnswerLost(c) ==
    /\ call[c].at = "send" /\ call[c].using \notin closed
    /\ server' = [server EXCEPT ![call[c].what] = @ + 1]
    /\ Goes(c, "log")
    /\ UNCHANGED <<dedupVars, queue, httpVars, log, evicted, faults, writes, ghosts>>

\* The request fails, also because another thread's rotation closed its client.
Failed(c) ==
    /\ call[c].at = "send"
    /\ Goes(c, "log")
    /\ UNCHANGED <<dedupVars, queue, httpVars, ends, writes, ghosts>>

\* Faulty variant: the third attempt rotates too.
UnauthorizedOnceMore(c) ==
    /\ call[c].at = "send" /\ call[c].using \notin closed
    /\ call[c].try < 3 => opened < MaxClients
    /\ call' = [call EXCEPT ![c].at = "rotate", ![c].using = http]
    /\ UNCHANGED <<dedupVars, queue, httpVars, ends, writes, ghosts>>

\* 401: two attempts rotate the client, the third fails.  Rotation first reads
\* the client it is going to close.
Unauthorized(c) ==
    /\ call[c].at = "send" /\ call[c].using \notin closed
    /\ \/ /\ call[c].try < 3 /\ opened < MaxClients
          /\ call' = [call EXCEPT ![c].at = "rotate", ![c].using = http]
       \/ call[c].try = 3 /\ Goes(c, "log")
    /\ UNCHANGED <<dedupVars, queue, httpVars, ends, writes, ghosts>>

\* _replace_http(): a client with the current token takes its place ...
Rotate(c) ==
    /\ call[c].at = "rotate"
    /\ opened' = opened + 1
    /\ http' = opened'
    /\ Goes(c, "close")
    /\ UNCHANGED <<dedupVars, queue, closed, ends, writes, ghosts>>

\* Faulty variant: the client in place is closed instead of the one replaced.
CloseCurrent(c) ==
    /\ call[c].at = "close"
    /\ closed' = closed \cup {http}
    /\ call' = [call EXCEPT ![c].at = "send", ![c].try = @ + 1, ![c].using = http]
    /\ UNCHANGED <<dedupVars, queue, http, opened, ends, writes, ghosts>>

\* ... and the old one is closed; the next attempt picks self._http.
CloseOld(c) ==
    /\ call[c].at = "close"
    /\ closed' = closed \cup {call[c].using}
    /\ call' = [call EXCEPT ![c].at = "send", ![c].try = @ + 1, ![c].using = http]
    /\ UNCHANGED <<dedupVars, queue, http, opened, ends, writes, ghosts>>

\* replay_log.append(): the record is written, or there is no home or an OSError
\* (a full disk), of which nobody hears.
AppendLog(c) ==
    /\ call[c].at = "log"
    /\ \/ log' = log \cup {call[c].what} /\ UNCHANGED faults
       \/ faults < MaxFaults /\ faults' = faults + 1 /\ UNCHANGED log
    /\ Ends(c)
    /\ UNCHANGED <<dedupVars, queue, httpVars, server, evicted, writes, ghosts>>

-----------------------------------------------------------------------------

Init ==
    /\ mirrored = <<>> /\ seen = <<>> /\ queue = <<>>
    /\ call = [c \in Threads |-> Idle]
    /\ http = 1 /\ opened = 1 /\ closed = {}
    /\ server = [x \in Writes |-> 0]
    /\ log = {} /\ evicted = {} /\ faults = 0
    /\ writes = 0
    /\ posts = [x \in Writes |-> 0] /\ told = {} /\ handed = {}

Hermes ==
    \/ \E x \in Writes : Hook(x)
    \/ \E x \in Plain, o \in Observations : MemoryWrite(x, o)
    \/ \E o \in Observations : Observe(o)

Dedup(c) == DedupTest(c) \/ DedupTouch(c) \/ DedupInsert(c) \/ DedupTrim(c) \/ DedupPop(c)

Request(c) ==
    \/ Post(c) \/ Delivered(c) \/ AnswerLost(c) \/ Failed(c) \/ Unauthorized(c)
    \/ Rotate(c) \/ CloseOld(c) \/ AppendLog(c)

Next ==
    \/ Hermes \/ Evict
    \/ \E w \in Workers : TakeJob(w)
    \/ \E c \in Threads : Dedup(c) \/ Request(c)

Spec == Init /\ [][Next]_vars

-----------------------------------------------------------------------------
(* Properties.                                                             *)

InDedup == {c \in Threads : call[c].at \in {"touch", "insert", "trim", "pop"}}

TypeOK ==
    /\ mirrored \in Seq(Observations) /\ seen \in Seq(Observations)
    /\ queue \in Seq(Writes)
    /\ call \in [Threads ->
         [at : {"idle", "test", "touch", "insert", "trim", "pop", "post", "send", "rotate", "close", "log"},
          what : Writes \cup {NoWrite}, try : 0..3, using : 0..opened]]
    /\ opened \in Nat /\ http \in 1..opened /\ closed \subseteq 1..opened
    /\ server \in [Writes -> Nat] /\ posts \in [Writes -> Nat]
    /\ log \subseteq Writes /\ evicted \subseteq Writes /\ told \subseteq Observations
    /\ writes \in 0..MaxWrites /\ faults \in 0..MaxFaults

\* The deduplicator is bounded: whenever no thread is inside it, it holds at most
\* max_size keys, each once, although its inserts and evictions interleave.
SeenBounded ==
    /\ InDedup = {} => Len(seen) <= MaxSeen
    /\ Len(seen) = Cardinality(ToSet(seen))
    /\ Len(mirrored) <= MaxSeen

\* The server stores a write at most once for each time it is handed to _post():
\* the 401 retries never send again what the server has already stored.
StoredOncePerPost == \A x \in Writes : server[x] <= posts[x]

\* However rotations by several threads interleave, self._http is never a client
\* that one of them has closed.
CurrentClientOpen == http \notin closed

\* Where a write is as long as nothing has come of it.
Pending(x) == Contains(queue, x) \/ \E c \in Threads : call[c].what = x
Accounted(x) == server[x] > 0 \/ x \in log \/ x \in evicted
Vanished == {x \in handed : ~Pending(x) /\ ~Accounted(x)}

\* The program itself loses nothing: what Hermes hands over and is neither under way
\* nor stored, logged, or dropped and counted by the runner, was lost to a silent
\* failure, and each failure loses one write at most.  Neither the unlocked steps of
\* several threads in the deduplicator and what they evict too early, nor the
\* suppression of duplicates, nor rotations that close each other's clients add to
\* it.  (A write that is handed over twice counts once: a duplicate that is
\* suppressed is as lost as its original.)
NothingVanishes == Cardinality(Vanished) <= faults

\* "No retries inside the plugin - Hermes' tool loop handles that"
\* (HERMES_INTEGRATION_MAP.md:258): an observation that was answered True, be it
\* at the first try or when Hermes tries again, is on the server.
TrueIsStored == \A o \in told : server[o] > 0 \/ Pending(o)

=============================================================================
