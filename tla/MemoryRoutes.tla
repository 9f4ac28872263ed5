---------------------------- MODULE MemoryRoutes ----------------------------
(***************************************************************************)
(* The memory and admin routes of the Mastra server.  Storage is external: *)
(* threads with an owner, messages by id, a working memory per resource.   *)
(* The code trusts neither its filters nor its uniqueness, so listThreads  *)
(* may return threads of others and createThread on an existing thread may *)
(* replace its row or throw.  Texts are the names of the requests that     *)
(* brought them.                                                           *)
(***************************************************************************)
EXTENDS Requests

CONSTANTS Names,        \* profile names
          Threads,
          TurnParts,    \* sets of parts a turn may bring: 0 system, 1 user, 2 assistant
          SearchLimit,  \* the limit of a search
          MaxTime       \* bound on the clock, in milliseconds

ASSUME MemoryAssumption ==
  /\ None \notin Names \cup Threads
  /\ TurnParts \subseteq SUBSET (0..2)
  /\ SearchLimit \in Nat \ {0}
  /\ MaxTime \in Nat

VARIABLES
  owner,         \* storage: owner[t], the resource of thread t, or None
  msgs,          \* storage: the messages
  wm,            \* storage: wm[n], the texts in the working memory of n
  profilesSeen,  \* the set of that name, in the server's memory
  now,           \* Date.now()
  ms,            \* ms[r]: the time stamped on the messages of r
  seen,          \* seen[r]: `existing` of an append
  todo,          \* todo[r]: threads still to be deleted or searched
  hits,          \* hits[r]: what a read has collected
  stale,         \* history: requests whose last look at the storage is outdated
  blind,         \* history: appends whose read threw
  wiped          \* history: requests whose thread was deleted after they saved

memoryVars == <<owner, msgs, wm, profilesSeen, now, ms, seen, todo, hits, stale,
                blind, wiped>>
locals == <<ms, seen, todo, hits>>

(* A profile is spelled with or without the prefix "hermes:". *)
Profiles == [name: Names, prefixed: BOOLEAN]

(* The resource of a profile is the prefixed spelling: one per name. *)
resourceFor(p) == p.name

Resource(r) == resourceFor(req[r].profile)

(* Faulty variant: the id leaves the time out. *)
SameIdTimeless(m, n) == m.thread = n.thread /\ m.idx = n.idx

(* Ids are thread, millisecond and index: saving an id again replaces it.  *)
SameId(m, n) == m.thread = n.thread /\ m.ms = n.ms /\ m.idx = n.idx

mkMessage(r, idx) ==
  [thread |-> req[r].thread, ms |-> ms[r], idx |-> idx, by |-> r]

Messages == [thread: Threads, ms: Nat, idx: 0..2, by: Reqs]

IsSave(r) == req[r].route \in {"messages", "observation"}

(* Only observations carry the tag that reads look for. *)
isObservationMessage(m) == req[m.by].route = "observation"

MemoryInit ==
  /\ owner = [t \in Threads |-> None]
  /\ msgs = {}
  /\ wm = [n \in Names |-> {}]
  /\ profilesSeen = {}
  /\ now = 0
  /\ ms = [r \in Reqs |-> 0]
  /\ seen = [r \in Reqs |-> {}]
  /\ todo = [r \in Reqs |-> {}]
  /\ hits = [r \in Reqs |-> {}]
  /\ stale = {}
  /\ blind = {}
  /\ wiped = {}

-----------------------------------------------------------------------------
(* Starting a request. *)

Body(route, t, p, parts) ==
  [route |-> route, thread |-> t, profile |-> p, parts |-> parts]

Plain(n) == [name |-> n, prefixed |-> FALSE]

PostMessages(r) ==
  \E t \in Threads, n \in Names, parts \in TurnParts :
    /\ Accept(r, Body("messages", t, Plain(n), parts), "lookup")
    /\ profilesSeen' = profilesSeen \cup {Plain(n)}
    /\ UNCHANGED <<owner, msgs, wm, now, locals, stale, blind, wiped>>

PostObservation(r) ==
  \E t \in Threads, n \in Names :
    /\ Accept(r, Body("observation", t, Plain(n), {0}), "lookup")
    /\ UNCHANGED memoryVars

(* An append or a set, with a thread, as Hermes sends it, or without.      *)
PostWorkingMemory(r) ==
  /\ \E n \in Names :
       \/ \E t \in Threads, action \in {"append", "set"} :
            Accept(r, Body(action, t, Plain(n), {}), "lookup")
       \/ Accept(r, Body("append", None, Plain(n), {}), "read")
       \/ Accept(r, Body("set", None, Plain(n), {}), "write")
  /\ UNCHANGED memoryVars

PostReset(r) ==
  \E p \in Profiles :
    /\ Accept(r, Body("reset", None, p, {}), "list")
    /\ UNCHANGED memoryVars

GetSearch(r) ==
  \E n \in Names :
    /\ Accept(r, Body("search", None, Plain(n), {}), "list")
    /\ UNCHANGED memoryVars

-----------------------------------------------------------------------------
(* ensureThread: a lookup that throws falls through to the creation.       *)

AfterThread(r) ==
  CASE req[r].route = "append"             -> "read"
    [] req[r].route = "set"                -> "write"
    [] IsSave(r) /\ req[r].parts = {}      -> "ok"
    [] OTHER                               -> "save"

(* The handler goes on: a save stamps its messages now. *)
HaveThread(r) ==
  /\ Goto(r, AfterThread(r))
  /\ ms' = IF IsSave(r) THEN [ms EXCEPT ![r] = now] ELSE ms

(* Faulty variant: a lookup that throws is taken for a thread that exists. *)
GetThreadTrusting(r) ==
  /\ at[r] = "lookup"
  /\ \/ HaveThread(r)
     \/ owner[req[r].thread] = None /\ Goto(r, "create") /\ UNCHANGED ms
  /\ UNCHANGED <<owner, msgs, wm, profilesSeen, now, seen, todo, hits, stale, blind, wiped>>

GetThread(r) ==
  /\ at[r] = "lookup"
  /\ \/ /\ owner[req[r].thread] # None
        /\ HaveThread(r)
     \/ Goto(r, "create") /\ UNCHANGED ms
  /\ UNCHANGED <<owner, msgs, wm, profilesSeen, now, seen, todo, hits, stale, blind, wiped>>

(* Resets and searches that hold t in their list now hold a stale entry.   *)
CreateThread(r) ==
  /\ at[r] = "create"
  /\ \/ /\ owner' = [owner EXCEPT ![req[r].thread] = Resource(r)]
        /\ stale' = stale \cup {x \in Reqs : req[r].thread \in todo[x]}
        /\ HaveThread(r)
     \/ Goto(r, "error") /\ UNCHANGED <<owner, ms, stale>>
  /\ UNCHANGED <<msgs, wm, profilesSeen, now, seen, todo, hits, blind, wiped>>

-----------------------------------------------------------------------------
(* POST messages and observation.                                          *)

SaveMessages(r) ==
  LET new == {mkMessage(r, i) : i \in req[r].parts} IN
  /\ at[r] = "save"
  /\ \/ /\ msgs' = {m \in msgs : ~ \E n \in new : SameId(m, n)} \cup new
        /\ Goto(r, IF req[r].route = "observation" THEN "index" ELSE "ok")
     \/ Goto(r, "error") /\ UNCHANGED msgs
  /\ UNCHANGED <<owner, wm, profilesSeen, now, locals, stale, blind, wiped>>

(* _indexObs: the index is not modelled, its errors are swallowed. *)
IndexObservation(r) ==
  /\ at[r] = "index"
  /\ Goto(r, "ok")
  /\ UNCHANGED memoryVars

-----------------------------------------------------------------------------
(* POST working_memory.                                                    *)

ExistingWorkingMemory(r) ==
  /\ at[r] = "read"
  /\ \/ seen' = [seen EXCEPT ![r] = wm[Resource(r)]] /\ UNCHANGED blind
     \/ seen' = [seen EXCEPT ![r] = {}] /\ blind' = blind \cup {r}
  /\ Goto(r, "write")
  /\ UNCHANGED <<owner, msgs, wm, profilesSeen, now, ms, todo, hits, stale, wiped>>

(* Faulty variant: an append writes its text alone. *)
UpdateWorkingMemoryAlone(r) ==
  /\ at[r] = "write"
  /\ wm' = [wm EXCEPT ![Resource(r)] = {r}]
  /\ Goto(r, "ok")
  /\ UNCHANGED <<owner, msgs, profilesSeen, now, locals, stale, blind, wiped>>

UpdateWorkingMemory(r) ==
  /\ at[r] = "write"
  /\ \/ /\ wm' = [wm EXCEPT ![Resource(r)] = seen[r] \cup {r}]
        /\ stale' = stale \cup {x \in Reqs \ {r} : /\ at[x] = "write"
                                                   /\ Resource(x) = Resource(r)}
        /\ Goto(r, "ok")
     \/ Goto(r, "error") /\ UNCHANGED <<wm, stale>>
  /\ seen' = [seen EXCEPT ![r] = {}]
  /\ UNCHANGED <<owner, msgs, profilesSeen, now, ms, todo, hits, blind, wiped>>

-----------------------------------------------------------------------------
(* POST reset and GET search.                                              *)

(* Faulty variant: the storage is trusted to filter. *)
ListThreadsUnfiltered(r) ==
  /\ at[r] = "list"
  /\ todo' = [todo EXCEPT ![r] = {t \in Threads : owner[t] # None}]
  /\ Goto(r, IF req[r].route = "reset" THEN "delete" ELSE "collect")
  /\ UNCHANGED <<owner, msgs, wm, profilesSeen, now, ms, seen, hits, stale, blind, wiped>>

(* The answer is filtered here, whatever the storage made of the filter;   *)
(* a listing that throws is empty.                                         *)
ListThreads(r) ==
  /\ at[r] = "list"
  /\ \E listed \in {{}, {t \in Threads : owner[t] # None}} :
       todo' = [todo EXCEPT ![r] = {t \in listed : owner[t] = Resource(r)}]
  /\ Goto(r, IF req[r].route = "reset" THEN "delete" ELSE "collect")
  /\ UNCHANGED <<owner, msgs, wm, profilesSeen, now, ms, seen, hits, stale, blind, wiped>>

(* Deleting a thread deletes its messages.  A deletion that fails is       *)
(* skipped; saves on their way to a deleted thread become stale.           *)
DeleteThread(r) ==
  /\ at[r] = "delete"
  /\ \E t \in todo[r] :
       /\ todo' = [todo EXCEPT ![r] = @ \ {t}]
       /\ \/ /\ owner' = [owner EXCEPT ![t] = None]
             /\ msgs' = {m \in msgs : m.thread # t}
             /\ stale' = stale \cup {x \in Reqs : at[x] = "save" /\ req[x].thread = t}
             /\ wiped' = wiped \cup {x \in Reqs : /\ at[x] \in {"index", "ok", "lost"}
                                                  /\ IsSave(x) /\ req[x].thread = t}
          \/ UNCHANGED <<owner, msgs, stale, wiped>>
  /\ UNCHANGED <<at, req, wm, profilesSeen, now, ms, seen, hits, blind>>

ResetDone(r) ==
  /\ at[r] = "delete" /\ todo[r] = {}
  /\ profilesSeen' = profilesSeen \ {req[r].profile}
  /\ Goto(r, "ok")
  /\ UNCHANGED <<owner, msgs, wm, now, locals, stale, blind, wiped>>

(* matchesIn takes at most `room` of the observations of a thread; which   *)
(* match is the asker's text.  A recall that throws finds nothing.         *)
CollectThread(r) ==
  /\ at[r] = "collect"
  /\ Cardinality(hits[r]) < SearchLimit
  /\ \E t \in todo[r] :
       /\ todo' = [todo EXCEPT ![r] = @ \ {t}]
       /\ \E found \in SUBSET {m \in msgs : /\ m.thread = t /\ isObservationMessage(m)
                                            /\ Resource(m.by) = Resource(r)} :
            /\ Cardinality(found) <= SearchLimit - Cardinality(hits[r])
            /\ hits' = [hits EXCEPT ![r] = @ \cup found]
  /\ UNCHANGED <<at, req, owner, msgs, wm, profilesSeen, now, ms, seen, stale, blind, wiped>>

SearchDone(r) ==
  /\ at[r] = "collect"
  /\ todo[r] = {} \/ Cardinality(hits[r]) >= SearchLimit
  /\ Goto(r, "ok")
  /\ UNCHANGED memoryVars

-----------------------------------------------------------------------------
Tick ==
  /\ now < MaxTime
  /\ now' = now + 1
  /\ UNCHANGED <<requestVars, owner, msgs, wm, profilesSeen, locals, stale, blind, wiped>>

MemoryStep(r) ==
  \/ PostMessages(r) \/ PostObservation(r) \/ PostWorkingMemory(r) \/ PostReset(r)
  \/ GetSearch(r) \/ GetThread(r) \/ CreateThread(r) \/ SaveMessages(r)
  \/ IndexObservation(r) \/ ExistingWorkingMemory(r) \/ UpdateWorkingMemory(r)
  \/ ListThreads(r) \/ DeleteThread(r) \/ ResetDone(r) \/ CollectThread(r) \/ SearchDone(r)
=============================================================================
