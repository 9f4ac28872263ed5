--------------------------- MODULE RecallPipeline ---------------------------
(***************************************************************************)
(* How recalled text reaches Hermes: the cache of recall_cache.py, the     *)
(* hooks of provider_lifecycle.py and lifecycle_session_hooks.py that read *)
(* it, clear it and ask for refreshes, the context engine's reader in      *)
(* engine_install.py, and the jobs the async runner runs for them.         *)
(*                                                                         *)
(* Hermes calls the hooks one at a time on its own thread; the jobs run on *)
(* the runner's worker threads meanwhile.  A text stands for the (profile, *)
(* thread) it was recalled for, NoText for the empty string.  The runner   *)
(* is reduced to a FIFO queue that may lose a job (RunnerContract); other  *)
(* jobs are left out, they matter here only by crowding these out.         *)
(***************************************************************************)
EXTENDS Integers, FiniteSets, SequencesExt

CONSTANTS
    Profiles,   \* profile names
    Threads,    \* session ids
    FirstProfile, FirstThread, \* the session of the first initialize()
    Hermes,     \* Hermes' thread
    Workers,    \* worker threads of the async runner
    MaxEntries, \* RecallCache.max_entries
    MaxHooks,   \* bound on the number of hooks Hermes calls
    MaxLost,    \* bound on the number of jobs the runner loses
    MaxBringUps, \* bound on the number of times initialize() is called
    NoText,     \* the empty string
    Absent      \* not a key of the cache

ASSUME RecallAssumption ==
    /\ FirstProfile \in Profiles /\ FirstThread \in Threads
    /\ IsFiniteSet(Workers) /\ Hermes \notin Workers
    /\ MaxEntries \in Nat /\ MaxHooks \in Nat /\ MaxLost \in Nat /\ MaxBringUps \in Nat
    /\ NoText \notin Profiles \X Threads
    /\ Absent \notin Profiles \X Threads
    /\ Absent # NoText

VARIABLES
    profile, thread, \* p._profile, p._thread
    alive,           \* p._client is not None
    items,           \* RecallCache._items: the text of each key
    order,           \* RecallCache._items: its keys, least recently used first
    current,         \* RecallCache._current
    inFlight,        \* RecallCache._in_flight
    lastRecap,       \* p._last_recap
    queue,           \* jobs submitted to the async runner
    job,             \* what each worker is doing
    hook,            \* the hook Hermes is in
    pc,              \* where that hook is
    cached,          \* the text it read from the cache
    hooks,           \* number of hooks called
    lineage,         \* session switches: <<profile, new thread, parent thread>>
    lost,            \* a refresh job was lost since _in_flight was last cleared
    losses,          \* number of jobs lost
    bringups,        \* number of times _bring_up_server was submitted
    overtaken,       \* who has tested _in_flight, and another has set it since
    raced            \* refreshes that overtaken threads added since all had ended

identity == <<profile, thread, alive>>
cache == <<items, order, current>>
call == <<hook, pc, cached, hooks>>
runner == <<queue, job>>
races == <<overtaken, raced>>
ghosts == <<lineage, lost, losses, bringups, races>>
vars == <<identity, cache, inFlight, lastRecap, runner, call, ghosts>>

Keys == Profiles \X Threads
Texts == Keys \cup {NoText}

Job(kind, of, key) == [kind |-> kind, of |-> of, key |-> key]
Idle == Job("idle", NoText, NoText)
BringUpJob == Job("bringup", NoText, NoText)
RefreshJob(k) == Job("refresh", k, k)
Kinds == {"idle", "bringup", "joining", "submitting", "refresh", "settling", "lineage", "recap"}

Jobs == [kind : Kinds, of : Texts, key : Texts]

Own == <<profile, thread>>

-----------------------------------------------------------------------------
(* RecallCache.                                                            *)

\* get(): the text under a key, "" when there is none.
TextAt(k) == IF k \notin Keys \/ items[k] = Absent THEN NoText ELSE items[k]

\* The entries of s that are in S, in their order.
Only(s, S) ==
    LET at == {i \in DOMAIN s : s[i] \in S}
    IN  [n \in 1..Cardinality(at) |->
           s[CHOOSE i \in at : Cardinality({j \in at : j <= i}) = n]]

\* OrderedDict.move_to_end(), and get()'s use of it.
MoveToEnd(k) == Append(Only(order, Keys \ {k}), k)
Touched(k) == IF Contains(order, k) THEN MoveToEnd(k) ELSE order

\* Faulty variant: one entry too many is kept.
TrimmedLate(s) == IF Len(s) > MaxEntries + 1 THEN SubSeq(s, Len(s) - MaxEntries, Len(s)) ELSE s

\* _trim(): popitem(last=False) down to max_entries.
Trimmed(s) == IF Len(s) > MaxEntries THEN SubSeq(s, Len(s) - MaxEntries + 1, Len(s)) ELSE s

\* Faulty variant: the text goes to the key the hooks are on by now.
StoreAtCurrent(k, text) ==
    LET at == IF current \in Keys THEN current ELSE k IN
    /\ order' = Trimmed(MoveToEnd(at))
    /\ items' = [x \in Keys |-> IF ~Contains(order', x) THEN Absent
                                ELSE IF x = at THEN text ELSE items[x]]
    /\ UNCHANGED current

\* store()
Store(k, text) ==
    /\ order' = Trimmed(MoveToEnd(k))
    /\ items' = [x \in Keys |-> IF ~Contains(order', x) THEN Absent
                                ELSE IF x = k THEN text ELSE items[x]]
    /\ current' = k

\* clear_profile()
ClearProfile(p) ==
    /\ order' = Only(order, {k \in Keys : k[1] # p})
    /\ items' = [k \in Keys |-> IF k[1] = p THEN Absent ELSE items[k]]

\* The threads between refresh()'s test of _in_flight and its setting.
Deciding == {w \in Workers : job[w].kind = "submitting"}
            \cup (IF pc = "submit" THEN {Hermes} ELSE {})

\* Refreshes whose recall is still to come, and those that have _in_flight to clear.
Queued == Cardinality({i \in DOMAIN queue : queue[i].kind = "refresh"})
Outstanding == Queued + Cardinality({w \in Workers : job[w].kind = "refresh"})
Unfinished == Queued + Cardinality({w \in Workers : job[w].kind \in {"refresh", "settling"}})

\* refresh() past its test of _in_flight, on thread a.
StartRefresh(a, k) ==
    /\ inFlight' = TRUE
    /\ current' = k
    /\ queue' = Append(queue, RefreshJob(k))
    /\ overtaken' = Deciding \ {a}
    /\ raced' = IF inFlight /\ a \in overtaken THEN raced + 1 ELSE raced

\* A refresh has ended; when it was the last, the races that added some are over.
Forget == raced' = (IF Unfinished' = 0 THEN 0 ELSE raced) /\ UNCHANGED overtaken

-----------------------------------------------------------------------------
(* The hooks, on Hermes' thread.                                           *)

Called(h, next) ==
    /\ pc = "idle" /\ hooks < MaxHooks
    /\ hook' = (IF next = "idle" THEN "none" ELSE h) /\ pc' = next
    /\ hooks' = hooks + 1

\* do_initialize() of a later session; the first one is part of Init.
Initialize(p, t) ==
    /\ Called("initialize", "idle")
    /\ bringups < MaxBringUps /\ bringups' = bringups + 1
    /\ profile' = p /\ thread' = t
    /\ queue' = Append(queue, BringUpJob)
    /\ cached' = NoText
    /\ UNCHANGED <<alive, cache, inFlight, lastRecap, job, lineage, lost, losses, races>>

\* do_prefetch() up to a session change.
Prefetch(t) ==
    /\ alive
    /\ Called("prefetch", "lookup")
    /\ thread' = t
    /\ IF t # thread THEN ClearProfile(profile) ELSE UNCHANGED <<items, order>>
    /\ cached' = NoText
    /\ UNCHANGED <<profile, alive, current, inFlight, lastRecap, runner, ghosts>>

\* do_prefetch(): set_current(), one lock section of the cache.
PrefetchSetCurrent ==
    /\ pc = "lookup"
    /\ current' = Own
    /\ pc' = "get"
    /\ UNCHANGED <<identity, items, order, inFlight, lastRecap, runner, hook, cached, hooks, ghosts>>

\* Faulty variant: get() trusts the key that set_current() left.
PrefetchGetCurrent ==
    /\ pc = "get"
    /\ cached' = TextAt(current)
    /\ order' = Touched(current)
    /\ pc' \in {"refresh", "recap", "return"}
    /\ UNCHANGED <<identity, items, current, inFlight, lastRecap, runner, hook, hooks, ghosts>>

\* do_prefetch(): get(), another; an OPEN breaker ends the hook, a miss asks for
\* a refresh, a hit does so near compression pressure only, and neither does when
\* the breaker has opened since.
PrefetchGet ==
    /\ pc = "get"
    /\ cached' = TextAt(Own)
    /\ order' = Touched(Own)
    /\ pc' \in {"refresh", "recap", "return"}
    /\ UNCHANGED <<identity, items, current, inFlight, lastRecap, runner, hook, hooks, ghosts>>

\* The step after _enqueue_recall() in the hook that called it.
AfterRefresh == CASE hook = "prefetch" -> "recap"
                  [] hook = "pre_compress" -> "return"
                  [] OTHER -> "idle"

\* Faulty variant: _in_flight is set but never tested.
RefreshTestNoFlag ==
    /\ pc = "refresh"
    /\ pc' = IF alive THEN "submit" ELSE AfterRefresh
    /\ hook' = IF pc' = "idle" THEN "none" ELSE hook
    /\ UNCHANGED <<identity, cache, inFlight, lastRecap, runner, cached, hooks, ghosts>>

\* _enqueue_recall() and the test of _in_flight in refresh().
RefreshTest ==
    /\ pc = "refresh"
    /\ pc' = IF alive /\ ~inFlight THEN "submit" ELSE AfterRefresh
    /\ hook' = IF pc' = "idle" THEN "none" ELSE hook
    /\ UNCHANGED <<identity, cache, inFlight, lastRecap, runner, cached, hooks, ghosts>>

RefreshSubmit ==
    /\ pc = "submit"
    /\ StartRefresh(Hermes, Own)
    /\ pc' = AfterRefresh
    /\ hook' = IF pc' = "idle" THEN "none" ELSE hook
    /\ UNCHANGED <<identity, items, order, lastRecap, job, cached, hooks,
                   lineage, lost, losses, bringups>>

\* do_prefetch(): a recap-shaped query asks for a cross-thread recap.
RecapSubmit ==
    /\ pc = "recap"
    /\ queue' \in {queue, Append(queue, Job("recap", NoText, NoText))}
    /\ pc' = "serve"
    /\ UNCHANGED <<identity, cache, inFlight, lastRecap, job, hook, cached, hooks, ghosts>>

\* The hook returns to Hermes; do_prefetch() merges the last recap first.
Return ==
    /\ pc \in {"serve", "return"}
    /\ pc' = "idle" /\ hook' = "none"
    /\ cached' = NoText
    /\ UNCHANGED <<identity, cache, inFlight, lastRecap, runner, hooks, ghosts>>

\* do_queue_prefetch(): a session change without clear_profile().
QueuePrefetch(t) ==
    /\ alive
    /\ Called("queue_prefetch", "refresh")
    /\ thread' = t
    /\ current' = <<profile, t>>
    /\ cached' = NoText
    /\ UNCHANGED <<profile, alive, items, order, inFlight, lastRecap, runner, ghosts>>

\* do_pre_compress()
PreCompress ==
    /\ alive
    /\ Called("pre_compress", "refresh")
    /\ cached' = TextAt(Own)
    /\ order' = Touched(Own)
    /\ UNCHANGED <<identity, items, current, inFlight, lastRecap, runner, ghosts>>

\* do_session_switch() with reset, or without a parent session.
SessionReset(t) ==
    /\ alive
    /\ Called("session_switch", "refresh")
    /\ thread' = t
    /\ ClearProfile(profile)
    /\ cached' = NoText
    /\ UNCHANGED <<profile, alive, current, inFlight, lastRecap, runner, ghosts>>

\* do_session_switch() to a child of session parent.
SessionBranch(t, parent) ==
    /\ alive
    /\ Called("session_switch", "idle")
    /\ thread' = t
    /\ ClearProfile(profile)
    /\ queue' = Append(queue, Job("lineage", <<profile, parent>>, <<profile, t>>))
    /\ lineage' = lineage \cup {<<profile, t, parent>>}
    /\ cached' = NoText
    /\ UNCHANGED <<profile, alive, current, inFlight, lastRecap, job, lost, losses, bringups, races>>

\* do_turn_start() with another profile.
TurnStart(p) ==
    /\ alive /\ p # profile
    /\ Called("turn_start", "refresh")
    /\ ClearProfile(profile)
    /\ profile' = p
    /\ cached' = NoText
    /\ UNCHANGED <<thread, alive, current, inFlight, lastRecap, runner, ghosts>>

\* _fetch_factory(): the context engine reads the cache without naming a key and
\* recalls on the spot when it gets nothing.
EngineFetch ==
    /\ Called("engine", "return")
    /\ order' = Touched(current)
    /\ IF TextAt(current) # NoText THEN cached' = TextAt(current)
       ELSE cached' \in IF alive THEN {Own, NoText} ELSE {NoText}
    /\ UNCHANGED <<identity, items, current, inFlight, lastRecap, runner, ghosts>>

-----------------------------------------------------------------------------
(* The jobs, on the runner's worker threads.                               *)

\* A worker takes the oldest job; _refresh_recap() reads the profile now.
TakeJob(w) ==
    /\ job[w] = Idle /\ queue # <<>>
    /\ job' = [job EXCEPT ![w] = IF Head(queue).kind = "recap"
                                   THEN Job("recap", Own, NoText) ELSE Head(queue)]
    /\ queue' = Tail(queue)
    /\ UNCHANGED <<identity, cache, inFlight, lastRecap, call, ghosts>>

\* _work() of refresh(): the recall answers, answers nothing, or raises.
FinishRecall(w) ==
    /\ job[w].kind = "refresh"
    /\ \/ \E text \in {job[w].of, NoText} : Store(job[w].key, text)
       \/ UNCHANGED cache
    /\ job' = [job EXCEPT ![w].kind = "settling"]
    /\ UNCHANGED <<identity, inFlight, lastRecap, queue, call, ghosts>>

\* Faulty variant: the flag is cleared by a successful recall only.
ClearInFlightOnText(w) ==
    /\ job[w].kind = "settling"
    /\ inFlight' = (inFlight /\ TextAt(job[w].key) = NoText)
    /\ job' = [job EXCEPT ![w] = Idle]
    /\ lost' = FALSE
    /\ UNCHANGED <<identity, cache, lastRecap, queue, call, lineage, losses, bringups>>
    /\ Forget

\* The finally clause of _work().
ClearInFlight(w) ==
    /\ job[w].kind = "settling"
    /\ inFlight' = FALSE
    /\ job' = [job EXCEPT ![w] = Idle]
    /\ lost' = FALSE
    /\ UNCHANGED <<identity, cache, lastRecap, queue, call, lineage, losses, bringups>>
    /\ Forget

\* do_session_switch(): the parent's text becomes the child's.
FinishLineage(w) ==
    /\ job[w].kind = "lineage"
    /\ \/ \E text \in {job[w].of, NoText} : Store(job[w].key, text)
       \/ UNCHANGED cache
    /\ job' = [job EXCEPT ![w] = Idle]
    /\ UNCHANGED <<identity, inFlight, lastRecap, queue, call, ghosts>>

\* refresh_recap(): a recap, no hits, or no client.
FinishRecap(w) ==
    /\ job[w].kind = "recap"
    /\ lastRecap' \in {job[w].of, NoText, lastRecap}
    /\ job' = [job EXCEPT ![w] = Idle]
    /\ UNCHANGED <<identity, cache, inFlight, queue, call, ghosts>>

\* _bring_up_server(): the server is up and the provider gets its client.
BringUp(w) ==
    /\ job[w].kind = "bringup"
    /\ alive' = TRUE
    /\ job' = [job EXCEPT ![w].kind = "joining"]
    /\ UNCHANGED <<profile, thread, cache, inFlight, lastRecap, queue, call, ghosts>>

\* _bring_up_server(): no server, or the client cannot be made.
BringUpFails(w) ==
    /\ job[w].kind = "bringup"
    /\ alive' \in {alive, FALSE}
    /\ job' = [job EXCEPT ![w] = Idle]
    /\ UNCHANGED <<profile, thread, cache, inFlight, lastRecap, queue, call, ghosts>>

\* _bring_up_server(): its own _enqueue_recall(), concurrent with the hooks.
BringUpTest(w) ==
    /\ job[w].kind = "joining"
    /\ IF alive /\ ~inFlight
         THEN job' = [job EXCEPT ![w] = Job("submitting", Own, Own)]
         ELSE job' = [job EXCEPT ![w] = Idle]
    /\ UNCHANGED <<identity, cache, inFlight, lastRecap, queue, call, ghosts>>

BringUpSubmit(w) ==
    /\ job[w].kind = "submitting"
    /\ StartRefresh(w, job[w].key)
    /\ job' = [job EXCEPT ![w] = Idle]
    /\ UNCHANGED <<identity, items, order, lastRecap, call, lineage, lost, losses, bringups>>

\* The runner evicts its oldest job for a newer one, or refuses the newest.
LoseJob ==
    \E i \in {1, Len(queue)} :
        /\ queue # <<>> /\ losses < MaxLost
        /\ losses' = losses + 1
        /\ queue' = RemoveAt(queue, i)
        /\ lost' = (lost \/ queue[i].kind = "refresh")
        /\ UNCHANGED <<identity, cache, inFlight, lastRecap, job, call, lineage, bringups>>
        /\ Forget

-----------------------------------------------------------------------------

Init ==
    /\ profile = FirstProfile /\ thread = FirstThread
    /\ alive = FALSE
    /\ items = [k \in Keys |-> Absent]
    /\ order = <<>>
    /\ current = NoText
    /\ inFlight = FALSE
    /\ lastRecap = NoText
    /\ queue = <<BringUpJob>>
    /\ job = [w \in Workers |-> Idle]
    /\ hook = "none" /\ pc = "idle"
    /\ cached = NoText
    /\ hooks = 0
    /\ lineage = {} /\ lost = FALSE /\ losses = 0 /\ bringups = 1
    /\ overtaken = {} /\ raced = 0

HookBegins ==
    \/ \E p \in Profiles, t \in Threads : Initialize(p, t)
    \/ \E p \in Profiles : TurnStart(p)
    \/ \E t \in Threads : Prefetch(t) \/ QueuePrefetch(t) \/ SessionReset(t)
    \/ \E t, parent \in Threads : SessionBranch(t, parent)
    \/ PreCompress \/ EngineFetch

HookGoesOn ==
    PrefetchSetCurrent \/ PrefetchGet \/ RefreshTest \/ RefreshSubmit \/ RecapSubmit \/ Return

Work(w) ==
    \/ TakeJob(w) \/ FinishRecall(w) \/ ClearInFlight(w) \/ FinishLineage(w)
    \/ FinishRecap(w) \/ BringUp(w) \/ BringUpFails(w) \/ BringUpTest(w) \/ BringUpSubmit(w)

Next == HookBegins \/ HookGoesOn \/ LoseJob \/ \E w \in Workers : Work(w)

Spec == Init /\ [][Next]_vars

\* Worker threads run, and every recall ends: httpx has timeouts on each request.
Fairness == WF_vars(HookGoesOn) /\ \A w \in Workers : WF_vars(Work(w))

FairSpec == Spec /\ Fairness

-----------------------------------------------------------------------------
(* Properties.                                                             *)

TypeOK ==
    /\ Own \in Keys /\ alive \in BOOLEAN
    /\ items \in [Keys -> Texts \cup {Absent}]
    /\ \A k \in Keys : items[k] # Absent <=> Contains(order, k)
    /\ Len(order) = Cardinality(ToSet(order)) /\ Len(order) <= MaxEntries
    /\ current \in Texts /\ lastRecap \in Texts
    /\ inFlight \in BOOLEAN
    /\ queue \in Seq(Jobs)
    /\ job \in [Workers -> Jobs]
    /\ pc \in {"idle", "lookup", "get", "refresh", "submit", "recap", "serve", "return"}
    /\ cached \in Texts

\* The texts a session may be shown: its own, and those of sessions it continues,
\* of the same profile.
EntitledBy(kin, k) == {k} \cup {<<k[1], t>> : t \in {u \in Threads : <<k[1], k[2], u>> \in kin}}
Entitled(k) == EntitledBy(lineage, k)

\* No entry of the cache ever holds a text recalled for another profile or for an
\* unrelated session, whatever switches and evictions come between a recall's
\* submission and its late arrival.
KeyedIsolation ==
    \A k \in Keys : items[k] \in {Absent, NoText} \cup Entitled(k)

\* What prefetch() and on_pre_compress() read from the cache belongs to the
\* session Hermes is in, although a recall of an earlier session may arrive, and
\* move the cache's current key, between set_current() and get().
ServedOwn ==
    hook \in {"prefetch", "pre_compress"} => cached \in {NoText} \cup Entitled(Own)

\* "No profile leakage" (README.md:61): nothing Hermes is given, through a hook or
\* through the context engine, was recalled for another profile.
Given == IF pc = "serve" THEN {cached, lastRecap} ELSE {cached}
NoProfileLeak == \A text \in Given : text # NoText => text[1] = profile

\* "Background refresh is coalesced" (HERMES_INTEGRATION_MAP.md:217): however many
\* hooks ask, one refresh is outstanding.  The exception is a thread that tested
\* _in_flight, and found it set by another when it set it itself: each such race
\* adds one refresh, until all that are under way have ended.
Coalesced == Outstanding <= 1 + raced

\* _in_flight is always cleared again, so later hooks can refresh, unless the
\* runner lost the refresh job that was to clear it.
RefreshEnds == inFlight ~> (~inFlight \/ lost)

==================================================
