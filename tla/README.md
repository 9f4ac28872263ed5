# hermes-mastra, verified

TLA+ models of the Hermes plugin `hermes-mastra`, TLC runs over small instances of
them, and theorems about them checked by TLAPS. `PROJECT.json` maps every
definition to the lines it translates. Paths below are relative to the repository.

## The system

Hermes (the host agent) calls a memory provider: hooks before and after every turn
(`prefetch`, `sync_turn`, `on_session_switch`, ...), tools (`mastra_observe`, ...) and
`shutdown`. The provider must never delay or break the host, so a hook only reads
memory and *enqueues* work; a process-wide runner with two worker threads sends it to
the Mastra server, a Bun/Hono process reached over HTTP.

| Component | State | Operations | Talks to |
|---|---|---|---|
| Async runner (`async_runner.py`) | bounded queue, `unfinished_tasks`, `_closed`, drop counters, `_lock`; process-wide `_runner` and `_runner_lock` | `submit` (evicts the oldest when full), worker loop, `drain`, `shutdown`, `get_runner` | everybody submits |
| Circuit breaker (`circuit_breaker.py`) | `_state`, `_failures`, `_opened_at`, `_trial_in_flight` | `call`, `state` | wraps each request |
| Recall cache (`recall_cache.py`) | LRU of texts by (profile, thread), current key, `_in_flight` | `get`, `store`, `clear_profile`, `refresh` | runner |
| Provider hooks (`provider_lifecycle.py`, `lifecycle_session_hooks.py`, `lifecycle_helpers.py`) | `_profile`, `_thread`, `_client`, `_cron_skipped`, `_last_recap` | `initialize`, `prefetch`, `queue_prefetch`, `sync_turn`, session switch, turn start, ... | cache, runner, client |
| Client (`client.py`, `observation_dedup.py`, `replay_log.py`, `response_guard.py`) | `_http`, the deduplicator's LRU, log files | requests with 401 rotation, `write_observation`, `append` | breaker, server, telemetry |
| Telemetry (`telemetry.py`) | ring buffers | `record`, and a file append per record | runner |
| Context engine (`agent_context_engine.py`, `engine_install.py`) | baseline and boosted `recall_top_k` | `compress`, `update_from_response`, `on_session_reset` | cache (without a key), the provider's configuration |
| Tools, observers, wiring (`provider_tools*.py`, `tool_observers.py`, `agent_observers.py`, `hermes_wiring.py`) | sets of what was written | one client call or one submit each | client, runner |
| Configuration (`server_config.py`, `mastra_options.py`, `server_env.py`, `model_config.py`) | `mastra.json` | `load_config`, `save_config`, options by path, the server's environment | every other caller of the same home |
| Memory rules (`memory_rules.py`) | `MEMORY.md`, `USER.md` | install and remove the routing rule | Hermes' memory tool, which edits the same files |
| Server process (`server_process.py`, `server_config.py`) | pid file, port | `start_server`, `stop_server`, `ensure_running`, setup, restart | other Hermes processes |
| Mastra server (`server/src`) | threads, messages, working memory, prompt blocks, `profilesSeen` | HTTP routes | LibSQL through `@mastra/memory` |
| Artifacts from files, presets, redactor, CLI printing, supervisor | files or none | mostly pure translations | - |

What makes it hard: two workers and Hermes' threads share the cache, the deduplicator
(no lock), the HTTP client and the breaker; a result arrives long after the session it
was asked for has gone; the queue evicts; requests time out with the work done;
shutdown waits for threads that may need what it holds. `PROJECT.json` lists
these hazards at their lines with the properties that would catch them.

What makes each component correct, in a sentence: the **runner** loses no accepted call
in silence, counts exactly, and never blocks for ever; the **breaker** follows its
state machine however late outcomes are; the **cache** shows a session only its own
texts and keeps being refreshed; a **write** is lost only when the runner or the log fails in silence;
the **life cycle** keeps one open runner, silences cron and ends every call; the
**server** keeps what it has stored whatever its awaits interleave; the **server process**
is named by the pid file, stopped by its owner and never mistaken for a stranger; the
**configuration** keeps what nobody changed and reaches the server; the **engine**
restores what it boosts; an **observer** writes a thing once in a session.

## Modules

| Module | Models | Composition |
|---|---|---|
| `RunnerContract` | a bounded queue with workers, as the header of `async_runner.py` promises it | abstract specification |
| `AsyncRunner` | one `AsyncRunner` object, at the grain of its queue operations and lock | implements `RunnerContract` (refinement mapping `Contract`) |
| `BreakerContract` | the state machine of `analysis/graceful-degradation-contract.md`, as coded | abstract specification |
| `CircuitBreaker` | the breaker with concurrent callers and late outcomes | implements `BreakerContract` (refinement mapping `Contract`) |
| `RecallPipeline` | cache, recall hooks, bring-up, engine's read, refresh and recap jobs | cache + hooks + runner as a lossy FIFO |
| `WritePath` | write hooks, both deduplicators, the request, 401 rotation, replay log | client + deduplicator + runner as a FIFO that evicts (counted) or refuses (silent) |
| `Lifecycle` | process-wide runner, initialize, bring-up, cron, shutdown, telemetry lines | provider + runner(s) + telemetry |
| `Requests` | the requests the Bun server has in hand: accepted, refused, awaiting, ended | shared by the two route modules |
| `MemoryRoutes` | messages, observation, working memory, search and reset; the storage behind them | extends `Requests` |
| `ArtifactRoutes` | upsert and revert of prompt blocks with a history of versions | extends `Requests` |
| `MastraServer` | the whole server over one event loop, and the death of its process | extends both route modules |
| `ServerProcess` | starting, stopping, restarting and setting up the server from several processes; the operating system | alone |
| `HostCalls` | the calls that threads of Hermes make into the plugin, step by step | shared by the four below |
| `MemoryOptions` | option trees, their merges on both sides, setting and removing by path | operators only |
| `HomeConfig` | `mastra.json`: savers, readers, the environment of a new server | extends `HostCalls`, `MemoryOptions` |
| `ContextEngine` | the boost of `recall_top_k` | extends `HostCalls` |
| `Observers` | the post_tool_call hook and the observers that remember | extends `HostCalls` |
| `MemoryFiles` | the routing rule in `MEMORY.md` | extends `HostCalls` |
| `HermesHost` | bring-up over the four modules above: configuration, engine, observers, rule | extends them |
| `MCMastraServer`, `MCServerProcess`, `MCWritePath` | symmetry of the runs | extend their specification |
| `MCHermesHost` | the settings and options the run's callers ask for | extends `HermesHost` |
| `...Proofs` (eight) | theorems | extend their component |

**State and actions.** Variables carry the names of the fields they model, with the
field in a comment. An action is one step that no other thread can split: a queue
operation, a section under a lock, an operation on a dictionary, a request. `pc`,
`at`, `ppc`, `wpc`, `cpc` say where a thread is inside a method. In the server a step is
the storage operation a request awaits with the code that runs when it is back, since
between two awaits a handler of one event loop runs alone; `at[r]` names that operation. Payloads are names:
a callable is the number of its submit call (`AsyncRunner`), a recalled text is the
(profile, thread) it was recalled for (`RecallPipeline`), a write is a model value
(`WritePath`), a text in the working memory or a block is the request that brought it
(`MastraServer`). A variable marked *history* is not in the code: it records the race
(`stale`, `wiped`, `doubled`, `mixed`, `overtaken`, `raced`) or the wish (`intended`, `owed`) that a property
speaks of. A definition called a *faulty variant* in its comment is not part of
the model: it is a plausible mistake in the code, used to show that a property would
notice it.

**Abstractions.** In `RecallPipeline` and `WritePath` the runner is a FIFO queue that
may lose its oldest job or refuse its newest (`RunnerContract`, which `AsyncRunner` is
proved to implement; a refused callable is never accepted and changes nothing), and
the breaker is a choice to admit or refuse. In `RecallPipeline` Hermes calls hooks one
at a time. In `WritePath` a refused
job and a record the log could not take are *faults*, each a loss nobody hears of. In
`Lifecycle` an eviction and the put after it are one step, and drains and joins end
whenever they like; what happens inside one runner is `AsyncRunner`'s. In `MastraServer` the storage is
trusted with nothing the code does not trust it with: any operation may throw, a
listing may ignore its filter, a creation may replace a row. In `ServerProcess` the
system calls of one probe or of one signal are one step, while reading a file and using
what it said are two; a process number may be reused as soon as nobody waits for its
child, by a process that leads a group or joins one; a signal goes to the whole group,
as `os.killpg(os.getpgid(pid))` sends it. In
`MemoryOptions` only those options are kept in which the two files, the legacy keys
and the user can disagree; a nested dictionary is the function from the paths of its
leaves to their values, so that its merges need no recursion. Bounds are named constants
(`MaxCalls`, `MaxHooks`, `MaxTime`, ...) in the guards of the actions they limit.

## Runs

| Run | Shows |
|---|---|
| `runner` | with a queue of two, two producers, two workers and a closer: `unfinished_tasks` and the drop counter are exact, an accepted call is in one place, a clean drain is clean, every step is one of `RunnerContract` or unseen by it, an accepted call settles, `submit` and `shutdown` return |
| `breaker` | state and count agree, one probe, the probe decides, and every step but a late outcome is a step of `BreakerContract` |
| `recall` | entries and hook answers stay with their session under late stores, also between `set_current()` and `get()` of one hook, under switches, evictions and a lost job; one refresh is outstanding, plus one for each that a thread began after another had overtaken it between the test and the set of `_in_flight`, until all have ended; `_in_flight` is cleared unless its job was lost |
| `recall_leak` | **violation**: `NoProfileLeak`. A late store of the old profile moves the current key back, and the context engine, which reads the current key, gets the old profile's text |
| `writes` | the deduplicator stays bounded despite its races, retries store nothing twice, `_http` is never a closed client, and the writes that vanish are no more than the faults: the program loses none of its own |
| `writes_retry` | **violation**: `TrueIsStored`. The key is claimed before the request; the retry of a failed observation is answered True and sends nothing |
| `lifecycle` | one open runner, the lock is given back, no closed client is offered, cron is silent, every call ends, and of the workers of a closed runner no more stay than STOPs that a full queue refused or an eviction took |
| `lifecycle_drain` | **violation**: `DrainWaitsForWork`. `shutdown` drains under `_runner_lock`; a worker that records its finished request needs that lock, so the drain can only time out |
| `server` | three requests of any route, storage that may throw at every await, a death of the process: messages are orphaned or replaced only by the races named, a lone append loses nothing, a reset deletes its own threads only, an artifact write answered ok is in the history |
| `server_reset` | **violation**: `ResetWipesMemory`. A reset that runs alone leaves the working memory of its profile, which `src/README.md:473` ("wipe all threads/observations for a profile") and the CLI (`cli_commands.py:221`) say it wipes |
| `process` | two processes, three numbers, two ports: the pid file names the server that runs but for the races named, a lone stop leaves none behind, and a stop ends another program, or another caller, only in the process group of one born under a number taken for the server's |
| `host` | lone saves lose nothing, a new server uses what the user set, pressure leaves no trace, an observation is written once in a session, and the user's notes survive the rule and the writes of it that fail at once |

**Bounds, and why they are enough.** A queue of two entries is the smallest where
eviction, a second full put and a STOP behind a callable differ; two producers and two
workers give each race two sides, and four calls overfill the queue twice. A
threshold of two separates "one failure" from "opened", three callers give a probe, a
late success and a late failure at once, and time runs past two cooldowns. Two
profiles and two threads make every wrong key visible; two cache entries evict with
three sessions; one loss, two bring-ups and two hooks per behaviour cover the flag's
races (a hook is several steps, interleaved with two workers). `WritePath` has a worker
and Hermes' thread, three observations and `MaxSeen = 2`: two threads that insert the
third key together pop two others, one more than the excess; three clients let the
threads rotate in turn, and two faults let one follow another. A repeated write is the
same write, so three calls are enough for one that is lost, its repetition and a third
that evicts between them.
`Lifecycle` has one worker per runner, a queue of one entry, so that it is full whenever
something waits, and two Hermes threads, two initialisations or
requests (cron initialisations are not counted), one shutdown, hence two runners;
`lifecycle_drain` needs one Hermes thread only.
`server` has three requests because a race named by a property needs two and a third to
be hurt by it (a write of the working memory may name a thread or none, as the routes allow); two names and two threads make every foreign resource visible, one tick
separates equal from different milliseconds, one version per page puts the second out
of a revert's sight, one restart kills every kind of request in hand. `process` has
three numbers for two servers and a stranger, or for a server and a group of two strangers, two ports for a setup that moves one,
and three operations, the least for "start, race, stop". `host` lets an agent and a
worker make three calls, enough for two overlapping saves and a server started between
or after them, for a boost, a reload and its end, and for two calls of one observer;
the four modules share the calls and hence each other's interleavings, nothing else.
Distinct states: `writes` six million, `host` 2.6, `server` 2.3, `process` 1.2, `recall` one.

**Deadlock** is not checked: every model may stop, once its bounded calls are made and
the workers have nothing to do. What must not stop is stated as a liveness property. `server`, `process`
and `host` state safety only: their requests and calls are finite, and each step of them
waits for a storage, a process or a file that the code gives no deadline or one that the
model lets pass at any time.

**Fairness** is weak throughout. Threads that can run are scheduled by the operating
system; a request ends because httpx gives it timeouts and `_request` makes at most
three attempts; `drain` and `join` poll with a deadline. Calling is never forced,
with one exception: in `CircuitBreaker` somebody calls again when the breaker would
admit a call, since `sync_turn` sends a request after every turn. No property uses
strong fairness. Locks need none: the runner's `_lock` is held for a few steps and the
shutdowns that hold `_runner_lock` are finitely many.

## Proofs

Checked by `tlapm`, for every value of the constants that satisfies the module's
ASSUME (disjoint sets of threads, positive sizes, and in WritePath at most
`MaxSeen + 1` threads: the code has two workers and the host against 512 keys;
nothing else about the program).

- **AsyncRunner.** `RunnerInv` = types, lock discipline, `UnfinishedExact`,
  `ItemConserved`. None is inductive alone: the exactness of the counter needs the
  lock discipline (one evicting producer) and natural counts; conservation needs that
  a number is queued once. Lemmas state what Append and Tail do to the contents of a
  queue. From it: `RunnerTyped`, `UnfinishedIsExact`, `ItemsConserved`, and the action
  property `CleanDrainIsClean` (a zero counter with an empty queue means nobody holds
  a callable). `DropInv` adds to `DropCountExact` that finitely many callables are
  evicted, since the counter is compared with the size of a set (`DropsAreCounted`).
  `RunnerImplementsContract` is a refinement for any number of threads: the work that
  waits is the set of callables in the queue, sentinels are no work, and its invariant
  beside `RunnerInv` is that the queue is ordered by acceptance (`Ordered`), so that its
  head is the oldest (`HeadTaken`) and a put finds room for the abstract queue too
  (`WorkFits`).
- **CircuitBreaker.** `BreakerInv` = types, `ClosedBelowThreshold`, `SingleProbe`; any
  number of callers. `BreakerKeepsContract` is a step-wise refinement but for late
  outcomes; `BreakerImplementsContract` is the full refinement with one call at a
  time, where no late outcome exists.
- **RecallPipeline.** `RecallInv` adds to the two properties that every pending job
  *fits*: the text it will bring is one its key is entitled to (`JobsFit`). This is
  what carries isolation over the time between submit and store. From it:
  `CacheIsIsolated`, `HooksServeOwn`. `CoalesceInv` counts the refreshes that are queued,
  running or about to clear the flag in one number, `Load`: at most one more than `raced`,
  and no more than `raced` while the flag is clear; and a thread past its test that nobody
  has overtaken will find the flag still clear when it sets it. From it
  `RefreshesCoalesce`, for finitely many workers.
  `CacheInv` says that the order of the cache holds exactly the keys that have a text,
  each once, and no more than `MaxEntries`: moving a key to the end keeps the length
  only because the key was there once. From it `RecallTyped`. The lemmas `OnlyPlaces`
  and `OnlyKeeps` say what is left of a sequence when some entries are taken out, by
  counting the places before each entry; the model's `Only` counts too instead of using
  `SelectSeq`, whose definition recurses and of which nothing can be proved here.
- **WritePath.** Lemmas first: what Append, Tail, `RemoveAt` and `MoveToEnd` do to the
  contents of a sequence. `ClientInv`: client numbers grow, and what a rotation closes
  is older than what is in place; from it `RotationSparesCurrent` (`CurrentClientOpen`).
  `PathInv(S)`, for a set `S` of writes to blame on the faults, one for each: what Hermes
  handed over is under way, accounted for or in `S`, and a key the client's deduplicator
  remembers, or has just found, stands for a write that is accounted for, in `S`, or whose
  call is past the deduplicator; this is what the suppression of a duplicate needs and
  `NothingVanishes` alone does not give. `FaultsHit` says which writes a step adds to
  `S`: one for each fault it meets. `PopInv` counts the threads about to pop, so that none
  of them finds the dictionary empty and drops its write. From these
  `WritesAccounted`. `PostInv`: a call on its way carries one delivery that is not yet
  used; from it `StoredOnce` (`StoredOncePerPost`), for finitely many workers.
  `SeenInv`: each key is there once, and more than `MaxSeen` of them only while some
  thread is between its insert and the end of its eviction; from it `DedupBounded`.
  `RetriesInv` and `EndsInv` give the types that remain (`WritePathTyped`).
- **Lifecycle.** `Typed` is enough for `OneRunnerOpen` (a runner is replaced only after
  the test under the lock) and for the action property `CronStaysSilent`. `ClientsInv`
  adds that a client a bring-up has made and not assigned differs from the one that is
  served, from those that were closed and from that of every other bring-up; from it
  `OpenClientServed` (`ServedClientOpen`). `ProcessInv` is the lock discipline (who holds
  `_runner_lock` drains, stops or joins the current, closed runner) with a count: closed runners
  and shutdowns that wait for the lock are together no more than the shutdowns begun, so
  a bounded number of runners is ever made. From it `LifecycleTyped`.
- **ServerProcess.** `KnownInv`: types, every number about to be signalled or waited for
  is one, the child a start waits for keeps its number, a stranger under a number that is
  taken for the server's is an heir, and only strangers are in another's group, never in
  a server's (`GroupsApart`): a signal meant for a server hits that server alone, any other
  one the group of an heir. From it `SparesStrangers`. The property
  about the pid file is not inductive because a start and a stop break it in the
  middle; `TrackInv` says, while nothing has disturbed anything, that one caller is
  busy, that it works with the port and the number of the files, and at which of its
  lines a live server is *followed* without the file. From it `ServerTracked` and
  `StopStops`.
- **MastraServer.** `IInv` has five parts, each carrying a request over its awaits.
  `Typed` says what a request in hand has parsed, by the operation it awaits.
  `ThreadsInv` adds to `OrphansAreRaced` that a save on its way has a thread and that
  what a reset has listed is its own, or the request is stale (`NoOrphans`,
  `ResetsSpare`). `AppendsHaveSeen` says what an append has read (`AppendsKeep`).
  `HistoryInv` adds to `AnsweredInHistory` that a revert's version is in the history,
  which only grows (`BlocksGrow`, `WritesAreInHistory`). `SavedIsKept` is inductive
  given the types (`SavesAreKept`).
- **HermesHost.** A step belongs to one of four components; frame lemmas say what the
  others leave alone, so each proof looks at its own steps only. `NotesInv`: undisturbed,
  one caller rewrites at a time, what it is about to write keeps what is owed and the rule
  as it meant it, and until it truncates the file the file keeps what is owed, which is
  what a write that fails at once leaves (`RuleKeepsNotes`). `HomeInv`: undisturbed, one caller saves at a time, and the saves it still has to make,
  laid over what it has read, give what was asked for (`SavesKeepTheRest`). `BoostInv`:
  undisturbed, the baseline of a boost, `recall_top_k` without one, and the number the
  engine has just read are what the configuration brought (`PressureLeavesNoTrace`).
  `ObserversInv`: for a kind no two calls of which overlapped, every key that was or is
  about to be written is in the set the provider keeps or will keep, and a key about to
  be written has not been written in any session; `ObservedOnce` states what is promised,
  once in a session.
  `ServerUsesTheFile` needs no invariant beside `HomeInv` but lemmas about option trees:
  what a merge shows at a path of the overlay, of the base and beside both
  (`_deep_merge` and its twin in `memory-options.ts`), that no default of either side lies
  above or below an option the user may set, and that the two legacy keys show on both
  sides what the file says of them (`Legacied`, `LegacyDefaults`). `BlockGoesInOnce` is about one
  operator: where `compress()` puts its block among any list of messages.

Every invariant and every action property of a passing run is proved. Only
model-checked: the six liveness properties (`AcceptedOpenSettles`, `CallsReturn`,
`ProbeDecides`, `RefreshEnds`, `EveryCallEnds`, `ClosedWorkersExit`), since liveness under
fairness and ENABLED are out of the prover's reach. The four expected violations are
counterexamples, which TLC shows and nothing is proved about.
The `TypeOK` of `AsyncRunner`, `CircuitBreaker` and `ServerProcess` are parts of the
inductive invariants that are proved, and no run repeats them. No module has a RECURSIVE operator. The
inductive invariants of `HermesHost`, `RecallPipeline`, `Lifecycle` and `WritePath` were
checked on the runs' instances before they were proved.

## Not modelled

Modelled: runner, breaker, recall, writes, life cycle, then the server, the server's
process, and the plugin inside Hermes. What is known and not stated as a property:

- A recall that fails stores `""` over the last snapshot (`recall_cache.py:102`).
- A rewrite of `MEMORY.md` that fails after the truncation (a full disk) loses every entry
  of the file (`memory_rules.py:83-84`); `post_setup` logs it and goes on
  (`__init__.py:106-115`). The model has that failure, and `NotesKept` exempts what it took.
- The sets of the observers outlive the session (`tool_observers.py:48`,
  `agent_observers.py:93` and `168` speak of one): what an earlier session wrote, a later
  one does not write. The model has it; `WrittenOncePerSession` does not forbid it.
- With a shared token budget the server means `bufferTokens` to be `false`
  (`memory-options.ts:65`), but the payload always brings the `0.2` of
  `mastra_options.py:133`. `ServerSeesUserOptions` leaves that option out then.
- A duplicate of a write that was lost after its key was claimed is suppressed
  (`client.py:170`, `provider_lifecycle.py:199`); `NothingVanishes` counts the two as one
  write. `writes_retry` shows what that means for `mastra_observe`.
- A STOP that finds the queue full, or that a late submit evicts, leaves a worker alive for
  ever (`async_runner.py:176-180`); `ClosedWorkersExit` counts them.
- `src/README.md:403` says a malformed config value falls back to its default; the code
  raises (`_validate_config`, `server_config.py:90-103`), and so does the model (`LoadRaises`).
- A pid file whose number was reused makes a stop signal a whole foreign process group,
  which may be that of Hermes (`server_process.py:152`, `181`); `StrangersSpared` says that
  nothing else does.
- `_drop_active` is never cleared, so only the first burst of drops is logged, and a late
  success closes an OPEN breaker within its cooldown: both are in the models, and the
  properties about counts and states are stated so that they hold with them.
- A profile switch during a refresh enqueues nothing for the new profile
  (`recall_cache.py:97`): the next turn does.
- Nothing reads the replay log (`replay_log.py`), so a logged write is never replayed.
- The docstring of `_inject_observation_block` puts the block "directly after the leading
  system message(s)"; the code puts it behind the first message that is not one
  (`BlockGoesInOnce` states what the code does).
- Removing the last option of a dictionary leaves the empty dictionary in `mastra.json`
  (`mastra_options.py:182`), which hides a default that is a scalar in that place.
- `load_config` lays a default `observer_name` over a file that has only the legacy
  `model_name`, so `get_model` reports a model the server is not started with; the
  comment at `server_config.py:46` calls the legacy key the fallback.
- A profile that is scoped twice by `cli_commands.py` before `client.py` scopes it.

Not modelled, and why:

- `supervisor.py` and `artifacts.py`: nothing in the repository constructs or calls them.
- The read routes of the server, the listings and the parity calls of `client_extra.py`:
  one request each, no state; search and reset stand for what their reads can meet.
- The branches for Windows (`server_process.py:149`, `178`), which signal one process.
- Resource scoping in `client.py`, the response checks, the redactor, argument parsing
  and printing, option, model and preset tables, tool schemas, benchmarks and
  compatibility scripts. They keep no state, and a model of them would be a copy.

Next: abstract specifications of the recall cache and of the server's storage, with the
refinements that show their components implement them.
