------------------------- MODULE MastraServerProofs -------------------------
(***************************************************************************)
(* Proofs about MastraServer, for any number of requests, profiles,        *)
(* threads and blocks, any clock and any number of deaths.                 *)
(***************************************************************************)
EXTENDS MastraServer, TLAPS

(* What the handlers have parsed, and which of it is in hand where.        *)
MemoryRequests ==
  {q \in [route : {"messages", "observation", "append", "set", "reset", "search"},
          thread : Threads \cup {None}, profile : Profiles, parts : SUBSET (0..2)] :
     q.route \in {"messages", "observation"} => q.thread \in Threads}
ArtifactRequests == [route : {"upsert", "revert"}, block : Blocks]

MemoryPlaces ==
  {"lookup", "create", "save", "index", "read", "write", "list", "delete", "collect"}
ArtifactPlaces == {"find", "add", "update", "versions", "restore"}

InHand(r) ==
  /\ at[r] \in MemoryPlaces => req[r] \in MemoryRequests
  /\ at[r] \in ArtifactPlaces => req[r] \in ArtifactRequests
  /\ at[r] = "ok" => req[r] \in MemoryRequests \cup ArtifactRequests
  /\ at[r] \in {"lookup", "create"} =>
       req[r].route \in {"messages", "observation", "append", "set"} /\ req[r].thread \in Threads
  /\ at[r] \in {"save", "index"} => req[r].route \in {"messages", "observation"}
  /\ at[r] = "read" => req[r].route = "append"
  /\ at[r] = "write" => req[r].route \in {"append", "set"}
  /\ at[r] = "delete" => req[r].route = "reset"
  /\ at[r] \in {"list", "collect"} => req[r].route \in {"reset", "search"}
  /\ at[r] \in {"find", "add", "update"} => req[r].route = "upsert"
  /\ at[r] \in {"versions", "restore"} => req[r].route = "revert"
  /\ at[r] = "idle" => todo[r] = {}

Typed ==
  /\ at \in [Reqs -> MemoryPlaces \cup ArtifactPlaces \cup Ended \cup {"idle"}]
  /\ DOMAIN req = Reqs
  /\ owner \in [Threads -> Names \cup {None}]
  /\ msgs \subseteq Messages
  /\ wm \in [Names -> SUBSET Reqs]
  /\ now \in Nat
  /\ ms \in [Reqs -> Nat]
  /\ seen \in [Reqs -> SUBSET Reqs]
  /\ todo \in [Reqs -> SUBSET Threads]
  /\ block \in [Blocks -> Seq(Reqs)]
  /\ version \in [Reqs -> Nat]
  /\ \A r \in Reqs : InHand(r)

(* A save on its way has a thread, or a reset took it from under it.       *)
SavesHaveThread ==
  \A r \in Reqs : at[r] = "save" => owner[req[r].thread] # None \/ r \in stale

(* What a reset or a search has listed is its own, or gone.                *)
ListedIsOwn ==
  \A r \in Reqs : \A t \in todo[r] : owner[t] \in {None, Resource(r)} \/ r \in stale

(* An append has seen all there is, or knows less than it should.          *)
AppendsHaveSeen ==
  \A r \in Reqs :
    at[r] = "write" => \/ req[r].route = "set" \/ r \in stale \cup blind
                       \/ wm[Resource(r)] \subseteq seen[r]

(* A revert goes back to a version that is in the history.                 *)
RevertsFind ==
  \A r \in Reqs :
    at[r] = "restore" \/ (at[r] = "ok" /\ req[r].route = "revert") =>
      version[r] \in 1..Len(block[req[r].block])

-----------------------------------------------------------------------------
LEMMA ResourceTyped ==
  ASSUME NEW r \in Reqs, req[r] \in MemoryRequests
  PROVE  Resource(r) \in Names
  BY DEF MemoryRequests, Profiles, Resource, resourceFor

LEMMA BodyTyped ==
  ASSUME NEW route \in {"messages", "observation", "append", "set", "reset", "search"},
         NEW t \in Threads \cup {None}, NEW p \in Profiles, NEW parts \in SUBSET (0..2),
         route \in {"messages", "observation"} => t \in Threads
  PROVE  /\ Body(route, t, p, parts) \in MemoryRequests
         /\ Body(route, t, p, parts).route = route /\ Body(route, t, p, parts).thread = t
  BY DEF Body, MemoryRequests

LEMMA PlainTyped == \A n \in Names : Plain(n) \in Profiles
  BY DEF Plain, Profiles

LEMMA TypedInit == Init => Typed
<1> SUFFICES ASSUME Init PROVE Typed
  OBVIOUS
<1>1. \A r \in Reqs : InHand(r)
  BY DEF Init, RequestsInit, MemoryInit, InHand, MemoryPlaces, ArtifactPlaces
<1>2. QED
  BY <1>1 DEF Init, RequestsInit, MemoryInit, ArtifactInit, Typed

(* The step of one request: the others keep what they have in hand.        *)
LEMMA InHandKept ==
  ASSUME Typed, NEW r \in Reqs, InHand(r)',
         \A x \in Reqs \ {r} : at'[x] = at[x] /\ req'[x] = req[x] /\ todo'[x] = todo[x]
  PROVE  \A x \in Reqs : InHand(x)'
<1>1. ASSUME NEW x \in Reqs \ {r} PROVE InHand(x)'
  <2>1. InHand(x) /\ at'[x] = at[x] /\ req'[x] = req[x] /\ todo'[x] = todo[x]
    BY DEF Typed
  <2>2. QED
    BY <2>1 DEF InHand
<1>2. QED
  BY <1>1

LEMMA TypedByAccept ==
  ASSUME Typed, NEW r \in Reqs,
         \/ PostMessages(r) \/ PostObservation(r) \/ PostWorkingMemory(r) \/ PostReset(r)
         \/ GetSearch(r) \/ PostArtifact(r) \/ PostRevert(r) \/ Refuse(r),
         UNCHANGED <<owner, msgs, wm, now, locals, block>>, version' \in [Reqs -> Nat]
  PROVE  Typed'
<1> USE MemoryAssumption
<1>1. at[r] = "idle" /\ todo[r] = {}
  BY DEF Typed, InHand, PostMessages, PostObservation, PostWorkingMemory, PostReset, GetSearch,
         PostArtifact, PostRevert, Refuse, Accept
<1>2. CASE Refuse(r)
  <2>1. /\ at' \in [Reqs -> MemoryPlaces \cup ArtifactPlaces \cup Ended \cup {"idle"}]
        /\ at'[r] = "refused" /\ DOMAIN req' = Reqs
        /\ \A x \in Reqs \ {r} : at'[x] = at[x] /\ req'[x] = req[x]
    BY <1>2 DEF Refuse, Goto, Typed, Ended
  <2>2. InHand(r)'
    BY <2>1 DEF InHand, MemoryPlaces, ArtifactPlaces
  <2>3. QED
    BY <2>1, <2>2, InHandKept DEF Typed, locals
<1>3. CASE ~ Refuse(r)
  <2>1. PICK q \in MemoryRequests \cup ArtifactRequests,
             await \in {"lookup", "read", "write", "list", "find", "versions"} :
          /\ Accept(r, q, await)
          /\ await = "lookup" => /\ q \in MemoryRequests /\ q.thread \in Threads
                                /\ q.route \in {"messages", "observation", "append", "set"}
          /\ await = "read" => q \in MemoryRequests /\ q.route = "append"
          /\ await = "write" => q \in MemoryRequests /\ q.route = "set"
          /\ await = "list" => q \in MemoryRequests /\ q.route \in {"reset", "search"}
          /\ await = "find" => q \in ArtifactRequests /\ q.route = "upsert"
          /\ await = "versions" => q \in ArtifactRequests /\ q.route = "revert"
    <3>1. ASSUME PostMessages(r)
          PROVE  \E q \in MemoryRequests : /\ Accept(r, q, "lookup")
                                           /\ q.route = "messages" /\ q.thread \in Threads
      <4>1. PICK t \in Threads, n \in Names, parts \in TurnParts :
              Accept(r, Body("messages", t, Plain(n), parts), "lookup")
        BY <3>1 DEF PostMessages
      <4>2. QED
        BY <4>1, BodyTyped, PlainTyped
    <3>2. ASSUME PostObservation(r)
          PROVE  \E q \in MemoryRequests : /\ Accept(r, q, "lookup")
                                           /\ q.route = "observation" /\ q.thread \in Threads
      <4>1. PICK t \in Threads, n \in Names :
              Accept(r, Body("observation", t, Plain(n), {0}), "lookup")
        BY <3>2 DEF PostObservation
      <4>2. QED
        BY <4>1, BodyTyped, PlainTyped
    <3>3. ASSUME PostWorkingMemory(r)
          PROVE  \E q \in MemoryRequests :
                   \/ /\ Accept(r, q, "lookup")
                      /\ q.route \in {"append", "set"} /\ q.thread \in Threads
                   \/ Accept(r, q, "read") /\ q.route = "append"
                   \/ Accept(r, q, "write") /\ q.route = "set"
      <4>1. PICK n \in Names :
              \/ \E t \in Threads, action \in {"append", "set"} :
                   Accept(r, Body(action, t, Plain(n), {}), "lookup")
              \/ Accept(r, Body("append", None, Plain(n), {}), "read")
              \/ Accept(r, Body("set", None, Plain(n), {}), "write")
        BY <3>3 DEF PostWorkingMemory
      <4>2. QED
        BY <4>1, BodyTyped, PlainTyped
    <3>4. ASSUME PostReset(r) \/ GetSearch(r)
          PROVE  \E q \in MemoryRequests : Accept(r, q, "list") /\ q.route \in {"reset", "search"}
      <4>1. \E p \in Profiles, route \in {"reset", "search"} :
              Accept(r, Body(route, None, p, {}), "list")
        BY <3>4, PlainTyped DEF PostReset, GetSearch
      <4>2. QED
        BY <4>1, BodyTyped
    <3>5. ASSUME PostArtifact(r) \/ PostRevert(r)
          PROVE  \E q \in ArtifactRequests :
                   \/ Accept(r, q, "find") /\ q.route = "upsert"
                   \/ Accept(r, q, "versions") /\ q.route = "revert"
      <4>1. PICK b \in Blocks :
              \/ Accept(r, Artifact("upsert", b), "find")
              \/ Accept(r, Artifact("revert", b), "versions")
        BY <3>5 DEF PostArtifact, PostRevert
      <4>2. \A route \in {"upsert", "revert"} :
              Artifact(route, b) \in ArtifactRequests /\ Artifact(route, b).route = route
        BY DEF Artifact, ArtifactRequests
      <4>3. QED
        BY <4>1, <4>2
    <3>6. QED
      BY <1>3, <3>1, <3>2, <3>3, <3>4, <3>5
  <2>2. /\ at' = [at EXCEPT ![r] = await] /\ req' = [req EXCEPT ![r] = q]
        /\ at'[r] = await /\ req'[r] = q
    BY <2>1 DEF Accept, Typed
  <2>3. InHand(r)'
    BY <2>1, <2>2 DEF InHand, MemoryPlaces, ArtifactPlaces
  <2>4. \A x \in Reqs : InHand(x)'
    BY <2>2, <2>3, InHandKept DEF Typed, locals
  <2>5. QED
    BY <2>2, <2>4 DEF Typed, locals, MemoryPlaces, ArtifactPlaces
<1>4. QED
  BY <1>2, <1>3

(* A request that keeps what it parsed moves on to `next`.                 *)
LEMMA TypedByGoto ==
  ASSUME Typed, NEW r \in Reqs, NEW next \in MemoryPlaces \cup ArtifactPlaces \cup Ended,
         Goto(r, next),
         at[r] \in MemoryPlaces \cup ArtifactPlaces,
         next \in MemoryPlaces => req[r] \in MemoryRequests,
         next \in ArtifactPlaces => req[r] \in ArtifactRequests,
         next \in {"lookup", "create"} =>
           /\ req[r].route \in {"messages", "observation", "append", "set"}
           /\ req[r].thread \in Threads,
         next \in {"save", "index"} => req[r].route \in {"messages", "observation"},
         next = "read" => req[r].route = "append",
         next = "write" => req[r].route \in {"append", "set"},
         next = "delete" => req[r].route = "reset",
         next \in {"list", "collect"} => req[r].route \in {"reset", "search"},
         next \in {"find", "add", "update"} => req[r].route = "upsert",
         next \in {"versions", "restore"} => req[r].route = "revert",
         \A x \in Reqs \ {r} : todo'[x] = todo[x]
  PROVE  /\ at' \in [Reqs -> MemoryPlaces \cup ArtifactPlaces \cup Ended \cup {"idle"}]
         /\ DOMAIN req' = Reqs
         /\ \A x \in Reqs : InHand(x)'
<1>1. /\ at' = [at EXCEPT ![r] = next] /\ at'[r] = next /\ req' = req
      /\ at[r] # "idle" /\ next # "idle"
  BY DEF Goto, Typed, MemoryPlaces, ArtifactPlaces, Ended
<1>2. req[r] \in MemoryRequests \cup ArtifactRequests
  BY DEF Typed, InHand
<1>3. InHand(r)'
  BY <1>1, <1>2 DEF InHand
<1>4. QED
  BY <1>1, <1>3, InHandKept DEF Typed

LEMMA TypedByThread ==
  ASSUME Typed, NEW r \in Reqs, GetThread(r) \/ CreateThread(r), UNCHANGED artifactVars
  PROVE  Typed'
<1>1. at[r] \in {"lookup", "create"} /\ UNCHANGED todo
  BY DEF GetThread, CreateThread
<1>2. /\ req[r] \in MemoryRequests
      /\ req[r].route \in {"messages", "observation", "append", "set"} /\ req[r].thread \in Threads
  BY <1>1 DEF Typed, InHand, MemoryPlaces, MemoryRequests
<1>3. PICK next \in {"create", "error", AfterThread(r)} :
        Goto(r, next) /\ ms' \in {ms, [ms EXCEPT ![r] = now]}
  BY DEF GetThread, CreateThread, HaveThread
<1>4. next \in {"create", "error", "read", "write", "ok", "save"}
  BY DEF AfterThread
<1>5. /\ next = "read" => req[r].route = "append"
      /\ next = "write" => req[r].route = "set"
  BY <1>2 DEF AfterThread, IsSave
<1>6. next = "save" => req[r].route \in {"messages", "observation"}
  BY <1>2 DEF AfterThread, IsSave
<1>7. /\ at' \in [Reqs -> MemoryPlaces \cup ArtifactPlaces \cup Ended \cup {"idle"}]
      /\ DOMAIN req' = Reqs
      /\ \A x \in Reqs : InHand(x)'
  BY <1>1, <1>2, <1>3, <1>4, <1>5, <1>6, TypedByGoto DEF MemoryPlaces, ArtifactPlaces, Ended
<1>8. ms' \in [Reqs -> Nat]
  BY <1>3 DEF Typed
<1>9. owner' \in [Threads -> Names \cup {None}]
  BY <1>2, ResourceTyped DEF GetThread, CreateThread, Typed
<1>10. QED
  BY <1>1, <1>7, <1>8, <1>9 DEF GetThread, CreateThread, Typed, artifactVars

LEMMA MessagesTyped ==
  ASSUME Typed, NEW r \in Reqs, at[r] = "save"
  PROVE  /\ req[r].thread \in Threads /\ req[r].parts \subseteq 0..2
         /\ \A i \in req[r].parts : mkMessage(r, i) \in Messages
<1>1. req[r].thread \in Threads /\ req[r].parts \subseteq 0..2
  BY DEF Typed, InHand, MemoryPlaces, MemoryRequests
<1>2. QED
  BY <1>1 DEF Typed, mkMessage, Messages

LEMMA TypedBySave ==
  ASSUME Typed, NEW r \in Reqs, SaveMessages(r) \/ IndexObservation(r), UNCHANGED artifactVars
  PROVE  Typed'
<1>1. /\ at[r] \in {"save", "index"} /\ UNCHANGED <<owner, wm, now, locals>>
      /\ \E next \in {"index", "ok", "error"} :
           Goto(r, next)
  BY DEF SaveMessages, IndexObservation, memoryVars, locals
<1>2. req[r] \in MemoryRequests /\ req[r].route \in {"messages", "observation"}
  BY <1>1 DEF Typed, InHand, MemoryPlaces
<1>3. /\ at' \in [Reqs -> MemoryPlaces \cup ArtifactPlaces \cup Ended \cup {"idle"}]
      /\ DOMAIN req' = Reqs
      /\ \A x \in Reqs : InHand(x)'
  BY <1>1, <1>2, TypedByGoto DEF MemoryPlaces, ArtifactPlaces, Ended, locals
<1>4. msgs' \subseteq Messages
  BY MessagesTyped DEF SaveMessages, IndexObservation, memoryVars, Typed
<1>5. QED
  BY <1>1, <1>3, <1>4 DEF Typed, artifactVars, locals

LEMMA TypedByWorkingMemory ==
  ASSUME Typed, NEW r \in Reqs, ExistingWorkingMemory(r) \/ UpdateWorkingMemory(r),
         UNCHANGED artifactVars
  PROVE  Typed'
<1>1. /\ at[r] \in {"read", "write"} /\ UNCHANGED <<owner, msgs, now, ms, todo>>
      /\ \E next \in {"write", "ok", "error"} :
           Goto(r, next) /\ (next = "write" => at[r] = "read")
  BY DEF ExistingWorkingMemory, UpdateWorkingMemory
<1>2. /\ req[r] \in MemoryRequests /\ req[r].route \in {"append", "set"}
      /\ at[r] = "read" => req[r].route = "append"
  BY <1>1 DEF Typed, InHand, MemoryPlaces
<1>3. /\ at' \in [Reqs -> MemoryPlaces \cup ArtifactPlaces \cup Ended \cup {"idle"}]
      /\ DOMAIN req' = Reqs
      /\ \A x \in Reqs : InHand(x)'
  BY <1>1, <1>2, TypedByGoto DEF MemoryPlaces, ArtifactPlaces, Ended
<1>4. wm' \in [Names -> SUBSET Reqs] /\ seen' \in [Reqs -> SUBSET Reqs]
  <2>1. Resource(r) \in Names
    BY <1>2, ResourceTyped
  <2>2. CASE ExistingWorkingMemory(r)
    BY <2>1, <2>2 DEF ExistingWorkingMemory, Typed
  <2>3. CASE UpdateWorkingMemory(r)
    <3>1. seen' = [seen EXCEPT ![r] = {}]
      BY <2>3 DEF UpdateWorkingMemory
    <3>2. wm' = wm \/ wm' = [wm EXCEPT ![Resource(r)] = seen[r] \cup {r}]
      BY <2>3 DEF UpdateWorkingMemory
    <3>3. seen[r] \cup {r} \in SUBSET Reqs
      BY DEF Typed
    <3>4. QED
      BY <2>1, <3>1, <3>2, <3>3 DEF Typed
  <2>4. QED
    BY <2>2, <2>3
<1>5. QED
  BY <1>1, <1>3, <1>4 DEF Typed, artifactVars

LEMMA TypedByList ==
  ASSUME Typed, NEW r \in Reqs,
         ListThreads(r) \/ DeleteThread(r) \/ ResetDone(r) \/ CollectThread(r) \/ SearchDone(r),
         UNCHANGED artifactVars
  PROVE  Typed'
<1>1. /\ at[r] \in {"list", "delete", "collect"} /\ UNCHANGED <<wm, now, ms, seen>>
      /\ req[r] \in MemoryRequests
      /\ req[r].route \in {"reset", "search"}
  BY DEF ListThreads, DeleteThread, ResetDone, CollectThread, SearchDone, locals, memoryVars,
         Typed, InHand, MemoryPlaces
<1>2. /\ \A x \in Reqs \ {r} : todo'[x] = todo[x]
      /\ todo' \in [Reqs -> SUBSET Threads]
  <2>1. \E left \in SUBSET Threads : todo' = [todo EXCEPT ![r] = left]
    <3>1. CASE ListThreads(r)
      BY <3>1 DEF ListThreads
    <3>2. CASE DeleteThread(r)
      <4>1. PICK t \in todo[r] : todo' = [todo EXCEPT ![r] = @ \ {t}]
        BY <3>2 DEF DeleteThread
      <4>2. QED
        BY <4>1 DEF Typed
    <3>3. CASE CollectThread(r)
      <4>1. PICK t \in todo[r] : todo' = [todo EXCEPT ![r] = @ \ {t}]
        BY <3>3 DEF CollectThread
      <4>2. QED
        BY <4>1 DEF Typed
    <3>4. CASE ResetDone(r) \/ SearchDone(r)
      BY <3>4 DEF ResetDone, SearchDone, locals, memoryVars, Typed
    <3>5. QED
      BY <3>1, <3>2, <3>3, <3>4
  <2>2. QED
    BY <2>1 DEF Typed
<1>3. /\ at' \in [Reqs -> MemoryPlaces \cup ArtifactPlaces \cup Ended \cup {"idle"}]
      /\ DOMAIN req' = Reqs
      /\ \A x \in Reqs : InHand(x)'
  <2>1. CASE ListThreads(r)
    BY <1>1, <1>2, <2>1, TypedByGoto DEF ListThreads, MemoryPlaces, ArtifactPlaces, Ended
  <2>2. CASE ResetDone(r) \/ SearchDone(r)
    BY <1>1, <1>2, <2>2, TypedByGoto DEF ResetDone, SearchDone, MemoryPlaces, ArtifactPlaces, Ended
  <2>3. CASE DeleteThread(r) \/ CollectThread(r)
    <3>1. UNCHANGED <<at, req>>
      BY <2>3 DEF DeleteThread, CollectThread
    <3>2. InHand(r)'
      BY <1>1, <3>1 DEF InHand, Typed
    <3>3. QED
      BY <1>2, <3>1, <3>2, InHandKept DEF Typed
  <2>4. QED
    BY <2>1, <2>2, <2>3
<1>4. owner' \in [Threads -> Names \cup {None}] /\ msgs' \subseteq Messages
  BY DEF ListThreads, DeleteThread, ResetDone, CollectThread, SearchDone, memoryVars, Typed
<1>5. QED
  BY <1>1, <1>2, <1>3, <1>4 DEF Typed, artifactVars

LEMMA TypedByArtifacts ==
  ASSUME Typed, NEW r \in Reqs,
         \/ GetById(r) \/ CreateBlock(r) \/ UpdateBlock(r) \/ FindVersion(r)
         \/ RestoreVersion(r) /\ version[r] \in 1..Len(block[req[r].block]),
         UNCHANGED memoryVars
  PROVE  Typed'
<1>1. /\ at[r] \in ArtifactPlaces /\ UNCHANGED version
      /\ \E next \in {"add", "update", "restore", "ok", "error", "notfound"} :
           /\ Goto(r, next)
           /\ next \in {"add", "update"} => at[r] = "find"
           /\ next = "restore" => at[r] = "versions"
  BY DEF GetById, CreateBlock, UpdateBlock, FindVersion, RestoreVersion, ArtifactPlaces, artifactVars
<1>2. /\ req[r] \in ArtifactRequests
      /\ at[r] = "find" => req[r].route = "upsert"
      /\ at[r] = "versions" => req[r].route = "revert"
  BY <1>1 DEF Typed, InHand
<1>3. /\ at' \in [Reqs -> MemoryPlaces \cup ArtifactPlaces \cup Ended \cup {"idle"}]
      /\ DOMAIN req' = Reqs
      /\ \A x \in Reqs : InHand(x)'
  BY <1>1, <1>2, TypedByGoto DEF MemoryPlaces, ArtifactPlaces, Ended, memoryVars
<1>4. block' \in [Blocks -> Seq(Reqs)]
  <2>1. req[r].block \in Blocks
    BY <1>2 DEF ArtifactRequests
  <2>2. CASE GetById(r) \/ FindVersion(r)
    BY <2>2 DEF GetById, FindVersion, artifactVars, Typed
  <2>3. CASE CreateBlock(r) \/ UpdateBlock(r)
    <3>1. block[req[r].block] \in Seq(Reqs)
      BY <2>1 DEF Typed
    <3>2. <<r>> \in Seq(Reqs) /\ Append(block[req[r].block], r) \in Seq(Reqs)
      BY <3>1
    <3>3. \/ block' = block
          \/ block' = [block EXCEPT ![req[r].block] = <<r>>]
          \/ block' = [block EXCEPT ![req[r].block] = Append(@, r)]
      BY <2>3 DEF CreateBlock, UpdateBlock
    <3>4. QED
      BY <2>1, <3>2, <3>3 DEF Typed
  <2>4. CASE RestoreVersion(r) /\ version[r] \in 1..Len(block[req[r].block])
    <3>1. block[req[r].block] \in Seq(Reqs)
      BY <2>1 DEF Typed
    <3>2. block[req[r].block][version[r]] \in Reqs
      BY <2>4, <3>1
    <3>3. Append(block[req[r].block], block[req[r].block][version[r]]) \in Seq(Reqs)
      BY <3>1, <3>2
    <3>4. \/ block' = block
          \/ block' = [block EXCEPT ![req[r].block] = Append(@, @[version[r]])]
      BY <2>4 DEF RestoreVersion
    <3>5. QED
      BY <2>1, <3>3, <3>4 DEF Typed
  <2>5. QED
    BY <2>2, <2>3, <2>4
<1>5. QED
  BY <1>1, <1>3, <1>4 DEF Typed, memoryVars

LEMMA TypedBySystem == ASSUME Typed, Clock \/ Restart PROVE Typed'
<1>1. CASE Clock
  BY <1>1 DEF Clock, Tick, requestVars, locals, artifactVars, Typed, InHand, MemoryRequests, Resource
<1>2. CASE Restart
  <2>1. at' \in [Reqs -> MemoryPlaces \cup ArtifactPlaces \cup Ended \cup {"idle"}]
    BY <1>2 DEF Restart, Typed, Ended
  <2>2. \A x \in Reqs : at'[x] \in Ended \cup {"idle"} /\ at'[x] \in {at[x], "lost"}
    BY <1>2 DEF Restart, Waiting, Typed, Ended
  <2>3. \A x \in Reqs : InHand(x)'
    BY <1>2, <2>2 DEF Restart, Typed, InHand, MemoryPlaces, ArtifactPlaces, Ended
  <2>4. QED
    BY <1>2, <2>1, <2>3 DEF Restart, Typed, artifactVars
<1>3. QED
  BY <1>1, <1>2

-----------------------------------------------------------------------------
(* The steps by which a request begins or is refused, and all the others.  *)
Starts(r) ==
  /\ \/ PostMessages(r) \/ PostObservation(r) \/ PostWorkingMemory(r) \/ PostReset(r)
     \/ GetSearch(r) \/ PostArtifact(r) \/ PostRevert(r) \/ Refuse(r)
  /\ UNCHANGED <<owner, msgs, wm, now, locals, stale, blind, wiped, block>>
  /\ \A x \in Reqs \ {r} : version'[x] = version[x]
  /\ version' \in [Reqs -> Nat]

OnMemory(r) ==
  /\ \/ GetThread(r) \/ CreateThread(r) \/ SaveMessages(r) \/ IndexObservation(r)
     \/ ExistingWorkingMemory(r) \/ UpdateWorkingMemory(r) \/ ListThreads(r) \/ DeleteThread(r)
     \/ ResetDone(r) \/ CollectThread(r) \/ SearchDone(r)
  /\ UNCHANGED artifactVars

OnArtifact(r) ==
  /\ GetById(r) \/ CreateBlock(r) \/ UpdateBlock(r) \/ FindVersion(r) \/ RestoreVersion(r)
  /\ UNCHANGED memoryVars

LEMMA NextCases ==
  ASSUME Typed, [Next]_vars
  PROVE  \/ \E r \in Reqs : Starts(r) \/ OnMemory(r) \/ OnArtifact(r)
         \/ Clock \/ Restart \/ UNCHANGED vars
<1>1. ASSUME NEW r \in Reqs, Memory(r)
      PROVE  Starts(r) \/ OnMemory(r)
  <2>1. MemoryStep(r) /\ UNCHANGED artifactVars
    BY <1>1 DEF Memory
  <2>2. CASE \/ PostMessages(r) \/ PostObservation(r) \/ PostWorkingMemory(r) \/ PostReset(r)
             \/ GetSearch(r)
    <3>1. UNCHANGED <<owner, msgs, wm, now, locals, stale, blind, wiped>>
      BY <2>2 DEF PostMessages, PostObservation, PostWorkingMemory, PostReset, GetSearch,
         memoryVars, locals
    <3>2. block' = block /\ version' = version
      BY <2>1 DEF artifactVars
    <3>3. version' \in [Reqs -> Nat] /\ \A x \in Reqs \ {r} : version'[x] = version[x]
      BY <3>2 DEF Typed
    <3>4. QED
      BY <2>2, <3>1, <3>2, <3>3 DEF Starts, locals
  <2>3. QED
    BY <2>1, <2>2 DEF MemoryStep, OnMemory
<1>2. ASSUME NEW r \in Reqs, Artifacts(r)
      PROVE  Starts(r) \/ OnArtifact(r)
  <2>1. ArtifactStep(r) /\ UNCHANGED memoryVars
    BY <1>2 DEF Artifacts
  <2>2. CASE PostArtifact(r) \/ PostRevert(r)
    <3>1. block' = block
      BY <2>2 DEF PostArtifact, PostRevert, artifactVars
    <3>2. version' = version \/ \E v \in Nat : version' = [version EXCEPT ![r] = v]
      BY <2>2, ArtifactAssumption DEF PostArtifact, PostRevert, artifactVars
    <3>3. version \in [Reqs -> Nat]
      BY DEF Typed
    <3>4. version' \in [Reqs -> Nat] /\ \A x \in Reqs \ {r} : version'[x] = version[x]
      BY <3>2, <3>3
    <3>5. UNCHANGED <<owner, msgs, wm, now, locals, stale, blind, wiped>>
      BY <2>1 DEF memoryVars, locals
    <3>6. QED
      BY <2>2, <3>1, <3>4, <3>5 DEF Starts, locals
  <2>3. QED
    BY <2>1, <2>2 DEF ArtifactStep, OnArtifact
<1>3. ASSUME NEW r \in Reqs, Unauthorized(r)
      PROVE  Starts(r)
  <2>1. Refuse(r) /\ UNCHANGED <<owner, msgs, wm, now, locals, stale, blind, wiped>>
    BY <1>3 DEF Unauthorized, memoryVars, locals
  <2>2. block' = block /\ version' = version
    BY <1>3 DEF Unauthorized, artifactVars
  <2>3. version' \in [Reqs -> Nat] /\ \A x \in Reqs \ {r} : version'[x] = version[x]
    BY <2>2 DEF Typed
  <2>4. QED
    BY <2>1, <2>2, <2>3 DEF Starts, locals
<1>4. QED
  BY <1>1, <1>2, <1>3 DEF Next

(* What a start does, whatever it starts.                                  *)
LEMMA StartMoves ==
  ASSUME Typed, NEW r \in Reqs, Starts(r)
  PROVE  /\ at[r] = "idle" /\ todo[r] = {}
         /\ at'[r] \in {"lookup", "read", "write", "list", "find", "versions", "refused"}
         /\ at'[r] = "write" => req'[r].route = "set"
         /\ \A x \in Reqs \ {r} : at'[x] = at[x] /\ req'[x] = req[x]
<1>1. CASE PostMessages(r) \/ PostObservation(r)
  BY <1>1 DEF PostMessages, PostObservation, Accept, Typed, InHand
<1>2. CASE PostWorkingMemory(r)
  BY <1>2 DEF PostWorkingMemory, Body, Accept, Typed, InHand
<1>3. CASE PostReset(r) \/ GetSearch(r)
  BY <1>3 DEF PostReset, GetSearch, Accept, Typed, InHand
<1>4. CASE PostArtifact(r) \/ PostRevert(r)
  BY <1>4 DEF PostArtifact, PostRevert, Accept, Typed, InHand
<1>5. CASE Refuse(r)
  BY <1>5 DEF Refuse, Goto, Typed, InHand
<1>6. QED
  BY <1>1, <1>2, <1>3, <1>4, <1>5 DEF Starts

(* A request under way is not parsed again.                                *)
LEMMA OnMoves ==
  ASSUME Typed, NEW r \in Reqs, OnMemory(r) \/ OnArtifact(r)
  PROVE  /\ req' = req
         /\ \A x \in Reqs \ {r} : at'[x] = at[x]
         /\ UNCHANGED version
         /\ at[r] # "idle"
<1>1. CASE OnMemory(r)
  BY <1>1 DEF OnMemory, GetThread, CreateThread, HaveThread, SaveMessages, IndexObservation,
     ExistingWorkingMemory, UpdateWorkingMemory, ListThreads, DeleteThread, ResetDone,
     CollectThread, SearchDone, Goto, Typed, artifactVars
<1>2. CASE OnArtifact(r)
  BY <1>2 DEF OnArtifact, GetById, CreateBlock, UpdateBlock, FindVersion, RestoreVersion, Goto,
     Typed, artifactVars
<1>3. QED
  BY <1>1, <1>2

(* The process dies: no request is under way afterwards.                   *)
LEMMA RestartMoves ==
  ASSUME Typed, Restart
  PROVE  /\ UNCHANGED <<req, owner, msgs, wm, stale, blind, wiped, block, version>>
         /\ \A r \in Reqs : /\ at'[r] \in Ended \cup {"idle"}
                            /\ at'[r] # "lost" => at'[r] = at[r] /\ ms'[r] = ms[r]
                            /\ todo'[r] = {}
  BY DEF Restart, Typed, Waiting, Ended, artifactVars

LEMMA ClockMoves ==
  ASSUME Clock \/ UNCHANGED vars
  PROVE  UNCHANGED <<at, req, owner, msgs, wm, ms, seen, todo, stale, blind, wiped, block, version>>
  BY DEF Clock, Tick, vars, requestVars, memoryVars, locals, artifactVars

-----------------------------------------------------------------------------
(* Threads and the messages in them.                                       *)
ThreadsInv == SavesHaveThread /\ OrphansAreRaced /\ ListedIsOwn

LEMMA ThreadsByMemory ==
  ASSUME Typed, ThreadsInv, NEW r \in Reqs, OnMemory(r)
  PROVE  ThreadsInv'
<1> USE MemoryAssumption DEF ThreadsInv
<1>1. req' = req /\ \A x \in Reqs \ {r} : at'[x] = at[x]
  BY OnMoves
<1>2. \A x \in Reqs : Resource(x)' = Resource(x)
  BY <1>1 DEF Resource, resourceFor
<1>3. CASE GetThread(r)
  <2>1. /\ UNCHANGED <<owner, msgs, todo, stale>>
        /\ at'[r] = "save" => owner[req[r].thread] # None
    BY <1>3 DEF GetThread, Goto, Typed
  <2>2. QED
    BY <1>1, <1>2, <2>1 DEF SavesHaveThread, OrphansAreRaced, ListedIsOwn
<1>4. CASE CreateThread(r)
  <2>1. req[r] \in MemoryRequests /\ req[r].thread \in Threads /\ Resource(r) \in Names
    BY <1>4, ResourceTyped DEF CreateThread, Typed, InHand, MemoryPlaces, MemoryRequests
  <2>2. CASE owner' = owner
    <3>1. UNCHANGED <<msgs, todo>> /\ stale \subseteq stale' /\ (at'[r] = "save" => owner'[req[r].thread] = Resource(r))
      BY <1>4, <2>1, <2>2 DEF CreateThread, Goto, Typed
    <3>2. QED
      BY <1>1, <1>2, <2>1, <2>2, <3>1 DEF SavesHaveThread, OrphansAreRaced, ListedIsOwn
  <2>3. CASE owner' # owner
    <3>1. /\ owner' = [owner EXCEPT ![req[r].thread] = Resource(r)]
          /\ stale' = stale \cup {x \in Reqs : req[r].thread \in todo[x]}
          /\ UNCHANGED <<msgs, todo>>
      BY <1>4, <2>3 DEF CreateThread
    <3>2. SavesHaveThread' /\ OrphansAreRaced'
      BY <1>1, <2>1, <3>1 DEF SavesHaveThread, OrphansAreRaced, Typed
    <3>3. ListedIsOwn'
      BY <1>2, <2>1, <3>1 DEF ListedIsOwn, Typed
    <3>4. QED
      BY <3>2, <3>3
  <2>4. QED
    BY <2>2, <2>3
<1>5. CASE SaveMessages(r)
  <2>1. /\ at[r] = "save" /\ at'[r] # "save" /\ UNCHANGED <<owner, todo, stale>>
        /\ \A m \in msgs' : m \in msgs \/ \E i \in req[r].parts : m = mkMessage(r, i)
    BY <1>5 DEF SaveMessages, Goto, Typed, locals
  <2>2. OrphansAreRaced'
    BY <2>1 DEF OrphansAreRaced, SavesHaveThread, mkMessage
  <2>3. QED
    BY <1>1, <1>2, <2>1, <2>2 DEF SavesHaveThread, ListedIsOwn
<1>6. CASE DeleteThread(r)
  <2>1. PICK t \in todo[r] :
          /\ todo' = [todo EXCEPT ![r] = @ \ {t}]
          /\ \/ /\ owner' = [owner EXCEPT ![t] = None]
                /\ msgs' = {m \in msgs : m.thread # t}
                /\ stale' = stale \cup {x \in Reqs : at[x] = "save" /\ req[x].thread = t}
             \/ UNCHANGED <<owner, msgs, stale>>
    BY <1>6 DEF DeleteThread
  <2>2. at' = at
    BY <1>6 DEF DeleteThread
  <2>3. /\ t \in Threads
        /\ \A x \in Reqs : at[x] = "save" => req[x].thread \in Threads
        /\ \A m \in msgs : m.thread \in Threads
        /\ \A x \in Reqs : todo'[x] \subseteq todo[x] /\ todo[x] \subseteq Threads
    BY <2>1, MessagesTyped DEF Typed, Messages
  <2>4. SavesHaveThread'
    BY <1>1, <2>1, <2>2, <2>3 DEF SavesHaveThread, Typed
  <2>5. OrphansAreRaced'
    BY <2>1, <2>3 DEF OrphansAreRaced, Typed
  <2>6. ListedIsOwn'
    BY <1>2, <2>1, <2>3 DEF ListedIsOwn, Typed
  <2>7. QED
    BY <2>4, <2>5, <2>6
<1>7. CASE \/ IndexObservation(r) \/ ExistingWorkingMemory(r) \/ UpdateWorkingMemory(r)
           \/ ListThreads(r) \/ ResetDone(r) \/ CollectThread(r) \/ SearchDone(r)
  <2>1. /\ UNCHANGED <<owner, msgs>> /\ stale \subseteq stale'
        /\ at'[r] = "save" => at[r] = "save"
    BY <1>7 DEF IndexObservation, ExistingWorkingMemory, UpdateWorkingMemory, ListThreads,
       ResetDone, CollectThread, SearchDone, Goto, Typed, memoryVars, locals
  <2>2. \A x \in Reqs : \A t \in todo'[x] : t \in todo[x] \/ owner[t] = Resource(x)
    <3>1. CASE ListThreads(r)
      BY <3>1 DEF ListThreads, Typed
    <3>2. CASE CollectThread(r)
      BY <3>2 DEF CollectThread, Typed
    <3>3. CASE \/ IndexObservation(r) \/ ExistingWorkingMemory(r) \/ UpdateWorkingMemory(r)
               \/ ResetDone(r) \/ SearchDone(r)
      BY <3>3 DEF IndexObservation, ExistingWorkingMemory, UpdateWorkingMemory, ResetDone,
         SearchDone, memoryVars, locals
    <3>4. QED
      BY <1>7, <3>1, <3>2, <3>3
  <2>3. SavesHaveThread' /\ OrphansAreRaced'
    BY <1>1, <2>1 DEF SavesHaveThread, OrphansAreRaced
  <2>4. ListedIsOwn'
    BY <1>2, <2>1, <2>2 DEF ListedIsOwn
  <2>5. QED
    BY <2>3, <2>4
<1>8. QED
  BY <1>3, <1>4, <1>5, <1>6, <1>7 DEF OnMemory

LEMMA ThreadsStep == Typed /\ ThreadsInv /\ [Next]_vars => ThreadsInv'
<1> SUFFICES ASSUME Typed, ThreadsInv, [Next]_vars PROVE ThreadsInv'
  OBVIOUS
<1>1. ASSUME NEW r \in Reqs, Starts(r) PROVE ThreadsInv'
  <2>1. UNCHANGED <<owner, msgs, todo, stale>>
    BY <1>1 DEF Starts, locals
  <2>2. \A x \in Reqs : /\ at'[x] = "save" => at[x] = "save" /\ req'[x] = req[x]
                        /\ todo'[x] # {} => Resource(x)' = Resource(x)
    BY <1>1, <2>1, StartMoves DEF Resource, resourceFor
  <2>3. SavesHaveThread' /\ OrphansAreRaced'
    BY <2>1, <2>2 DEF ThreadsInv, SavesHaveThread, OrphansAreRaced
  <2>4. ListedIsOwn'
    BY <2>1, <2>2 DEF ThreadsInv, ListedIsOwn
  <2>5. QED
    BY <2>3, <2>4 DEF ThreadsInv
<1>2. ASSUME NEW r \in Reqs, OnArtifact(r) PROVE ThreadsInv'
  <2>1. UNCHANGED <<req, owner, msgs, todo, stale>> /\ \A x \in Reqs \ {r} : at'[x] = at[x]
    BY <1>2, OnMoves DEF OnArtifact, memoryVars
  <2>2. at'[r] # "save"
    BY <1>2 DEF OnArtifact, GetById, CreateBlock, UpdateBlock, FindVersion, RestoreVersion, Goto, Typed
  <2>3. QED
    BY <2>1, <2>2 DEF ThreadsInv, SavesHaveThread, OrphansAreRaced, ListedIsOwn, Resource, resourceFor
<1>3. CASE Restart
  <2>1. UNCHANGED <<req, owner, msgs, stale>> /\ \A r \in Reqs : at'[r] # "save" /\ todo'[r] = {}
    BY <1>3, RestartMoves DEF Ended
  <2>2. QED
    BY <2>1 DEF ThreadsInv, SavesHaveThread, OrphansAreRaced, ListedIsOwn
<1>4. CASE Clock \/ UNCHANGED vars
  BY <1>4, ClockMoves DEF ThreadsInv, SavesHaveThread, OrphansAreRaced, ListedIsOwn, Resource, resourceFor
<1>5. QED
  BY <1>1, <1>2, <1>3, <1>4, NextCases, ThreadsByMemory
-----------------------------------------------------------------------------
(* What an append has read.                                                *)
LEMMA AppendsStep == Typed /\ AppendsHaveSeen /\ [Next]_vars => AppendsHaveSeen'
<1> SUFFICES ASSUME Typed, AppendsHaveSeen, [Next]_vars PROVE AppendsHaveSeen'
  OBVIOUS
<1>1. ASSUME NEW r \in Reqs, Starts(r) PROVE AppendsHaveSeen'
  <2>1. UNCHANGED <<wm, seen, stale, blind>>
    BY <1>1 DEF Starts, locals
  <2>2. \A x \in Reqs : at'[x] = "write" => \/ req'[x].route = "set"
                                            \/ at[x] = "write" /\ req'[x] = req[x]
    BY <1>1, StartMoves
  <2>3. QED
    BY <2>1, <2>2 DEF AppendsHaveSeen, Resource, resourceFor
<1>2. ASSUME NEW r \in Reqs, OnMemory(r) PROVE AppendsHaveSeen'
  <2>1. req' = req /\ \A x \in Reqs \ {r} : at'[x] = at[x]
    BY <1>2, OnMoves
  <2>2. \A x \in Reqs : Resource(x)' = Resource(x)
    BY <2>1 DEF Resource, resourceFor
  <2>3. CASE ExistingWorkingMemory(r)
    <3>1. /\ UNCHANGED <<wm, stale>> /\ blind \subseteq blind'
          /\ \A x \in Reqs \ {r} : seen'[x] = seen[x]
          /\ seen'[r] = wm[Resource(r)] \/ r \in blind'
      BY <2>3 DEF ExistingWorkingMemory, Typed
    <3>2. QED
      BY <2>1, <2>2, <3>1 DEF AppendsHaveSeen
  <2>4. CASE UpdateWorkingMemory(r)
    <3>1. /\ at'[r] # "write" /\ blind' = blind /\ stale \subseteq stale'
          /\ \A x \in Reqs \ {r} : seen'[x] = seen[x]
      BY <2>4 DEF UpdateWorkingMemory, Goto, Typed
    <3>2. \A x \in Reqs \ {r} : at[x] = "write" => x \in stale' \/ wm'[Resource(x)] = wm[Resource(x)]
      <4>1. CASE wm' = wm
        BY <4>1
      <4>2. CASE wm' # wm
        <5>1. /\ wm' = [wm EXCEPT ![Resource(r)] = seen[r] \cup {r}]
              /\ stale' = stale \cup {x \in Reqs \ {r} : at[x] = "write" /\ Resource(x) = Resource(r)}
          BY <2>4, <4>2 DEF UpdateWorkingMemory
        <5>2. DOMAIN wm = Names
          BY DEF Typed
        <5>3. \A n : n # Resource(r) => wm'[n] = wm[n]
          BY <5>1
        <5>4. QED
          BY <5>1, <5>3
      <4>3. QED
        BY <4>1, <4>2
    <3>3. QED
      BY <2>1, <2>2, <3>1, <3>2 DEF AppendsHaveSeen
  <2>5. CASE ~ (ExistingWorkingMemory(r) \/ UpdateWorkingMemory(r))
    <3>1. /\ UNCHANGED <<wm, seen, blind>> /\ stale \subseteq stale'
          /\ at'[r] = "write" => req[r].route = "set"
      BY <1>2, <2>5 DEF OnMemory, GetThread, CreateThread, HaveThread, AfterThread, SaveMessages,
         IndexObservation, ListThreads, DeleteThread, ResetDone, CollectThread, SearchDone, Goto,
         memoryVars, locals, Typed
    <3>2. QED
      BY <2>1, <2>2, <3>1 DEF AppendsHaveSeen
  <2>6. QED
    BY <2>3, <2>4, <2>5
<1>3. ASSUME NEW r \in Reqs, OnArtifact(r) PROVE AppendsHaveSeen'
  <2>1. UNCHANGED <<req, wm, seen, stale, blind>> /\ \A x \in Reqs \ {r} : at'[x] = at[x]
    BY <1>3, OnMoves DEF OnArtifact, memoryVars
  <2>2. at'[r] # "write"
    BY <1>3 DEF OnArtifact, GetById, CreateBlock, UpdateBlock, FindVersion, RestoreVersion, Goto, Typed
  <2>3. QED
    BY <2>1, <2>2 DEF AppendsHaveSeen, Resource, resourceFor
<1>4. CASE Restart
  <2>1. \A r \in Reqs : at'[r] # "write"
    BY <1>4, RestartMoves DEF Ended
  <2>2. QED
    BY <2>1 DEF AppendsHaveSeen
<1>5. CASE Clock \/ UNCHANGED vars
  BY <1>5, ClockMoves DEF AppendsHaveSeen, Resource, resourceFor
<1>6. QED
  BY <1>1, <1>2, <1>3, <1>4, <1>5, NextCases

-----------------------------------------------------------------------------
(* Histories of blocks.                                                    *)
HistoryInv == RevertsFind /\ AnsweredInHistory

(* A block's history only grows at its end.                                *)
LEMMA BlocksGrow ==
  ASSUME Typed, NEW r \in Reqs, OnArtifact(r)
  PROVE  \A b \in Blocks :
           /\ Len(block[b]) \in Nat /\ Len(block'[b]) \in Nat
           /\ DOMAIN block[b] = 1..Len(block[b]) /\ DOMAIN block'[b] = 1..Len(block'[b])
           /\ Len(block[b]) <= Len(block'[b])
           /\ \A i \in 1..Len(block[b]) : block'[b][i] = block[b][i]
<1>1. CASE block' = block
  BY <1>1 DEF Typed
<1>2. CASE block' # block
  <2>1. PICK c \in Reqs \cup {block[req[r].block][version[r]]} :
          \/ block[req[r].block] = <<>> /\ block' = [block EXCEPT ![req[r].block] = <<c>>]
          \/ block' = [block EXCEPT ![req[r].block] = Append(block[req[r].block], c)]
    BY <1>2 DEF OnArtifact, GetById, CreateBlock, UpdateBlock, FindVersion, RestoreVersion, artifactVars
  <2>2. req[r].block \in Blocks /\ block \in [Blocks -> Seq(Reqs)]
    <3>1. at[r] \in ArtifactPlaces
      BY <1>2 DEF OnArtifact, GetById, CreateBlock, UpdateBlock, FindVersion, RestoreVersion, ArtifactPlaces
    <3>2. QED
      BY <3>1 DEF Typed, InHand, ArtifactRequests
  <2>3. block[req[r].block] \in Seq(Reqs)
    BY <2>2
  <2>4. \A b \in Blocks \ {req[r].block} : block'[b] = block[b] /\ block[b] \in Seq(Reqs)
    BY <2>1, <2>2
  <2>5. /\ Len(block[req[r].block]) \in Nat
        /\ DOMAIN block[req[r].block] = 1..Len(block[req[r].block])
    BY <2>3
  <2>6. CASE /\ block[req[r].block] = <<>>
             /\ block' = [block EXCEPT ![req[r].block] = <<c>>]
    <3>1. block'[req[r].block] = <<c>> /\ Len(block[req[r].block]) = 0
      BY <2>2, <2>6
    <3>2. Len(block'[req[r].block]) = 1 /\ DOMAIN block'[req[r].block] = 1..1
      BY <3>1
    <3>3. QED
      BY <2>4, <2>5, <3>1, <3>2
  <2>7. CASE block' = [block EXCEPT ![req[r].block] = Append(block[req[r].block], c)]
    <3>1. block'[req[r].block] = Append(block[req[r].block], c)
      BY <2>2, <2>7
    <3>2. /\ Len(block'[req[r].block]) = Len(block[req[r].block]) + 1
          /\ DOMAIN block'[req[r].block] = 1..(Len(block[req[r].block]) + 1)
          /\ \A i \in 1..Len(block[req[r].block]) : block'[req[r].block][i] = block[req[r].block][i]
      BY <2>3, <3>1
    <3>3. QED
      BY <2>4, <2>5, <3>2
  <2>8. QED
    BY <2>1, <2>6, <2>7
<1>3. QED
  BY <1>1, <1>2
LEMMA HistoryByArtifact ==
  ASSUME Typed, HistoryInv, NEW r \in Reqs, OnArtifact(r)
  PROVE  HistoryInv'
<1> USE DEF HistoryInv
<1>1. /\ req' = req /\ version' = version
      /\ \A x \in Reqs \ {r} : at'[x] = at[x]
  BY OnMoves
<1>2. \A x \in Reqs : at[x] \in {"restore", "ok"} /\ req[x].route \in {"upsert", "revert"} =>
        req[x].block \in Blocks
  BY DEF Typed, InHand, MemoryPlaces, ArtifactPlaces, MemoryRequests, ArtifactRequests
<1>3. /\ req[r].block \in Blocks
      /\ at[r] \in {"find", "add", "update"} => req[r].route = "upsert"
      /\ at[r] \in {"versions", "restore"} => req[r].route = "revert"
  BY DEF OnArtifact, GetById, CreateBlock, UpdateBlock, FindVersion, RestoreVersion, Typed,
     InHand, ArtifactPlaces, ArtifactRequests
<1>4. version[r] \in Nat /\ block[req[r].block] \in Seq(Reqs)
  BY <1>3 DEF Typed
<1>5. \A x \in Reqs \ {r} : at[x] = "restore" => req[x].route = "revert"
  BY DEF Typed, InHand
<1>6. RevertsFind'
  <2>1. ASSUME NEW x \in Reqs \ {r}, at'[x] = "restore" \/ (at'[x] = "ok" /\ req'[x].route = "revert")
        PROVE  version'[x] \in 1..Len(block'[req'[x].block])
    <3>1. version[x] \in 1..Len(block[req[x].block]) /\ req[x].block \in Blocks
      BY <1>1, <1>2, <1>5, <2>1 DEF RevertsFind
    <3>2. QED
      BY <1>1, <3>1, BlocksGrow
  <2>2. ASSUME at'[r] = "restore" \/ (at'[r] = "ok" /\ req'[r].route = "revert")
        PROVE  version'[r] \in 1..Len(block'[req'[r].block])
    <3>1. version[r] \in 1..Len(block[req[r].block])
      <4>1. CASE FindVersion(r)
        <5>1. version[r] \in Listed(req[r].block)
          BY <2>2, <4>1 DEF FindVersion, Goto, Typed
        <5>2. QED
          BY <1>4, <5>1, ArtifactAssumption DEF Listed
      <4>2. CASE RestoreVersion(r)
        BY <4>2 DEF RestoreVersion, RevertsFind
      <4>3. CASE GetById(r) \/ CreateBlock(r) \/ UpdateBlock(r)
        BY <1>1, <1>3, <2>2, <4>3 DEF GetById, CreateBlock, UpdateBlock, Goto, Typed
      <4>4. QED
        BY <4>1, <4>2, <4>3 DEF OnArtifact
    <3>2. QED
      BY <1>1, <1>3, <3>1, BlocksGrow
  <2>3. QED
    BY <2>1, <2>2 DEF RevertsFind
<1>7. ASSUME NEW x \in Reqs \ {r}, at'[x] = "ok"
      PROVE  /\ req'[x].route = "upsert" =>
                  \E i \in DOMAIN block'[req'[x].block] : block'[req'[x].block][i] = x
             /\ req'[x].route = "revert" =>
                  \E i \in DOMAIN block'[req'[x].block] :
                    i > version'[x] /\ block'[req'[x].block][i] = block'[req'[x].block][version'[x]]
  <2>1. at[x] = "ok"
    BY <1>1, <1>7
  <2>2. ASSUME req[x].route = "upsert"
        PROVE  \E i \in DOMAIN block'[req[x].block] : block'[req[x].block][i] = x
    <3>1. PICK i \in DOMAIN block[req[x].block] : block[req[x].block][i] = x
      BY <2>1, <2>2 DEF AnsweredInHistory
    <3>2. req[x].block \in Blocks
      BY <1>2, <2>1, <2>2
    <3>3. i \in DOMAIN block'[req[x].block] /\ block'[req[x].block][i] = x
      BY <3>1, <3>2, BlocksGrow
    <3>4. QED
      BY <3>3
  <2>3. ASSUME req[x].route = "revert"
        PROVE  \E i \in DOMAIN block'[req[x].block] :
                 i > version[x] /\ block'[req[x].block][i] = block'[req[x].block][version[x]]
    <3>1. PICK i \in DOMAIN block[req[x].block] :
            i > version[x] /\ block[req[x].block][i] = block[req[x].block][version[x]]
      BY <2>1, <2>3 DEF AnsweredInHistory
    <3>2. req[x].block \in Blocks /\ version[x] \in 1..Len(block[req[x].block])
      BY <1>2, <2>1, <2>3 DEF RevertsFind
    <3>3. /\ i \in DOMAIN block'[req[x].block]
          /\ block'[req[x].block][i] = block[req[x].block][i]
          /\ block'[req[x].block][version[x]] = block[req[x].block][version[x]]
      BY <3>1, <3>2, BlocksGrow
    <3>4. QED
      BY <3>1, <3>3
  <2>4. QED
    BY <1>1, <2>2, <2>3
<1>8. ASSUME at'[r] = "ok"
      PROVE  /\ req'[r].route = "upsert" =>
                  \E i \in DOMAIN block'[req'[r].block] : block'[req'[r].block][i] = r
             /\ req'[r].route = "revert" =>
                  \E i \in DOMAIN block'[req'[r].block] :
                    i > version'[r] /\ block'[req'[r].block][i] = block'[req'[r].block][version'[r]]
  <2>1. CASE CreateBlock(r)
    <3>1. block' = [block EXCEPT ![req[r].block] = <<r>>] /\ req[r].route = "upsert"
      BY <1>3, <1>8, <2>1 DEF CreateBlock, Goto, Typed
    <3>2. block'[req[r].block] = <<r>>
      BY <1>3, <3>1 DEF Typed
    <3>3. 1 \in DOMAIN block'[req[r].block] /\ block'[req[r].block][1] = r
      BY <3>2
    <3>4. QED
      BY <1>1, <3>1, <3>3
  <2>2. CASE UpdateBlock(r)
    <3>1. block' = [block EXCEPT ![req[r].block] = Append(@, r)] /\ req[r].route = "upsert"
      BY <1>3, <1>8, <2>2 DEF UpdateBlock, Goto, Typed
    <3>2. block'[req[r].block] = Append(block[req[r].block], r)
      BY <1>3, <3>1 DEF Typed
    <3>3. /\ Len(block[req[r].block]) + 1 \in DOMAIN block'[req[r].block]
          /\ block'[req[r].block][Len(block[req[r].block]) + 1] = r
      BY <1>4, <3>2
    <3>4. QED
      BY <1>1, <3>1, <3>3
  <2>3. CASE RestoreVersion(r)
    <3>1. /\ block' = [block EXCEPT ![req[r].block] = Append(@, @[version[r]])]
          /\ req[r].route = "revert" /\ at[r] = "restore"
      BY <1>3, <1>8, <2>3 DEF RestoreVersion, Goto, Typed
    <3>2. version[r] \in 1..Len(block[req[r].block])
      BY <3>1 DEF RevertsFind
    <3>3. block'[req[r].block] = Append(block[req[r].block], block[req[r].block][version[r]])
      BY <1>3, <3>1 DEF Typed
    <3>4. block[req[r].block][version[r]] \in Reqs
      BY <1>4, <3>2
    <3>5. /\ Len(block[req[r].block]) + 1 \in DOMAIN block'[req[r].block]
          /\ block'[req[r].block][Len(block[req[r].block]) + 1] = block[req[r].block][version[r]]
          /\ block'[req[r].block][version[r]] = block[req[r].block][version[r]]
          /\ Len(block[req[r].block]) + 1 > version[r]
      BY <1>4, <3>2, <3>3, <3>4
    <3>6. QED
      BY <1>1, <3>1, <3>5
  <2>4. CASE GetById(r) \/ FindVersion(r)
    BY <1>8, <2>4 DEF GetById, FindVersion, Goto, Typed
  <2>5. QED
    BY <2>1, <2>2, <2>3, <2>4 DEF OnArtifact
<1>9. AnsweredInHistory'
  <2>1. \A x \in Reqs : at'[x] = "ok" /\ req'[x].route = "upsert" =>
          \E i \in DOMAIN block'[req'[x].block] : block'[req'[x].block][i] = x
    BY <1>7, <1>8, Zenon
  <2>2. \A x \in Reqs : at'[x] = "ok" /\ req'[x].route = "revert" =>
          \E i \in DOMAIN block'[req'[x].block] :
            i > version'[x] /\ block'[req'[x].block][i] = block'[req'[x].block][version'[x]]
    BY <1>7, <1>8, Zenon
  <2>3. QED
    BY <2>1, <2>2, SMT DEF AnsweredInHistory
<1>10. QED
  BY <1>6, <1>9

LEMMA HistoryStep == Typed /\ HistoryInv /\ [Next]_vars => HistoryInv'
<1> SUFFICES ASSUME Typed, HistoryInv, [Next]_vars PROVE HistoryInv'
  OBVIOUS
<1>1. ASSUME NEW r \in Reqs, Starts(r) PROVE HistoryInv'
  <2>1. block' = block /\ \A x \in Reqs \ {r} : version'[x] = version[x]
    BY <1>1 DEF Starts
  <2>2. /\ at'[r] \notin {"restore", "ok"}
        /\ \A x \in Reqs \ {r} : at'[x] = at[x] /\ req'[x] = req[x]
    BY <1>1, StartMoves
  <2>3. \A x \in Reqs : at'[x] \in {"restore", "ok"} =>
          at'[x] = at[x] /\ req'[x] = req[x] /\ version'[x] = version[x]
    BY <2>1, <2>2
  <2>4. RevertsFind'
    BY <2>1, <2>3 DEF HistoryInv, RevertsFind
  <2>5. AnsweredInHistory'
    BY <2>1, <2>3 DEF HistoryInv, AnsweredInHistory
  <2>6. QED
    BY <2>4, <2>5 DEF HistoryInv
<1>2. ASSUME NEW r \in Reqs, OnMemory(r) PROVE HistoryInv'
  <2>1. UNCHANGED <<req, block, version>> /\ \A x \in Reqs \ {r} : at'[x] = at[x]
    BY <1>2, OnMoves DEF OnMemory, artifactVars
  <2>2. at[r] \in MemoryPlaces
    BY <1>2 DEF OnMemory, GetThread, CreateThread, SaveMessages, IndexObservation,
       ExistingWorkingMemory, UpdateWorkingMemory, ListThreads, DeleteThread, ResetDone,
       CollectThread, SearchDone, MemoryPlaces
  <2>3. req[r].route \notin {"upsert", "revert"}
    BY <2>2 DEF Typed, InHand, MemoryRequests
  <2>4. at'[r] # "restore"
    BY <1>2 DEF OnMemory, GetThread, CreateThread, HaveThread, AfterThread, SaveMessages,
       IndexObservation, ExistingWorkingMemory, UpdateWorkingMemory, ListThreads, DeleteThread,
       ResetDone, CollectThread, SearchDone, Goto, Typed
  <2>5. QED
    BY <2>1, <2>3, <2>4 DEF HistoryInv, RevertsFind, AnsweredInHistory
<1>3. CASE Restart
  BY <1>3, RestartMoves DEF HistoryInv, RevertsFind, AnsweredInHistory, Ended
<1>4. CASE Clock \/ UNCHANGED vars
  BY <1>4, ClockMoves DEF HistoryInv, RevertsFind, AnsweredInHistory
<1>5. QED
  BY <1>1, <1>2, <1>3, <1>4, NextCases, HistoryByArtifact
-----------------------------------------------------------------------------
(* Saved messages.                                                         *)
LEMMA SavedByMemory ==
  ASSUME Typed, SavedIsKept, NEW r \in Reqs, OnMemory(r)
  PROVE  SavedIsKept'
<1>1. req' = req /\ \A x \in Reqs \ {r} : at'[x] = at[x]
  BY OnMoves
<1>2. \A x \in Reqs : IsSave(x)' = IsSave(x)
  BY <1>1 DEF IsSave
<1>3. CASE GetThread(r) \/ CreateThread(r)
  <2>1. /\ UNCHANGED <<msgs, wiped>>
        /\ \A x \in Reqs \ {r} : ms'[x] = ms[x]
        /\ at'[r] \in {"index", "ok"} => req[r].parts = {}
    BY <1>3 DEF GetThread, CreateThread, HaveThread, AfterThread, Goto, Typed
  <2>2. QED
    BY <1>1, <1>2, <2>1 DEF SavedIsKept
<1>4. CASE SaveMessages(r)
  <2>1. /\ UNCHANGED <<ms, wiped>>
        /\ at'[r] \in {"index", "ok"} =>
             \A i \in req[r].parts : mkMessage(r, i) \in msgs'
        /\ \A m \in msgs : \E n \in msgs' : SameId(m, n)
    BY <1>4 DEF SaveMessages, SameId, Goto, Typed, locals
  <2>2. \A i : /\ mkMessage(r, i).thread = req[r].thread
               /\ mkMessage(r, i).ms = ms[r] /\ mkMessage(r, i).idx = i
    BY DEF mkMessage
  <2>3. ASSUME NEW x \in Reqs, at'[x] \in {"index", "ok"}, IsSave(x), x \notin wiped,
               NEW i \in req[x].parts
        PROVE  \E m \in msgs' : m.thread = req[x].thread /\ m.ms = ms[x] /\ m.idx = i
    <3>1. CASE x = r
      BY <2>1, <2>2, <2>3, <3>1
    <3>2. CASE x # r
      <4>1. PICK m \in msgs : m.thread = req[x].thread /\ m.ms = ms[x] /\ m.idx = i
        BY <1>1, <2>3, <3>2 DEF SavedIsKept
      <4>2. PICK n \in msgs' : SameId(m, n)
        BY <2>1
      <4>3. QED
        BY <4>1, <4>2 DEF SameId
    <3>3. QED
      BY <3>1, <3>2
  <2>4. QED
    BY <1>1, <1>2, <2>1, <2>3 DEF SavedIsKept
<1>5. CASE DeleteThread(r)
  <2>1. UNCHANGED <<at, ms>>
    BY <1>5 DEF DeleteThread
  <2>2. PICK t \in todo[r] :
          \/ /\ msgs' = {m \in msgs : m.thread # t}
             /\ wiped' = wiped \cup {x \in Reqs : /\ at[x] \in {"index", "ok", "lost"}
                                                  /\ IsSave(x) /\ req[x].thread = t}
          \/ UNCHANGED <<msgs, wiped>>
    BY <1>5 DEF DeleteThread
  <2>3. ASSUME NEW x \in Reqs, at[x] \in {"index", "ok"}, IsSave(x), x \notin wiped',
               NEW i \in req[x].parts
        PROVE  \E m \in msgs' : m.thread = req[x].thread /\ m.ms = ms[x] /\ m.idx = i
    <3>1. PICK m \in msgs : m.thread = req[x].thread /\ m.ms = ms[x] /\ m.idx = i
      BY <2>2, <2>3 DEF SavedIsKept
    <3>2. m \in msgs'
      BY <2>2, <2>3, <3>1
    <3>3. QED
      BY <3>1, <3>2
  <2>4. QED
    BY <1>1, <1>2, <2>1, <2>3 DEF SavedIsKept
<1>6. CASE \/ IndexObservation(r) \/ ExistingWorkingMemory(r) \/ UpdateWorkingMemory(r)
           \/ ListThreads(r) \/ ResetDone(r) \/ CollectThread(r) \/ SearchDone(r)
  <2>1. UNCHANGED <<msgs, ms, wiped>>
    BY <1>6 DEF IndexObservation, ExistingWorkingMemory, UpdateWorkingMemory, ListThreads,
       ResetDone, CollectThread, SearchDone, memoryVars, locals
  <2>2. at'[r] \in {"index", "ok"} => at[r] = "index" \/ ~ IsSave(r)
    <3>1. CASE IndexObservation(r)
      BY <3>1 DEF IndexObservation
    <3>2. CASE ~ IndexObservation(r)
      <4>1. at[r] \in {"read", "write", "list", "delete", "collect"}
        BY <1>6, <3>2 DEF ExistingWorkingMemory, UpdateWorkingMemory, ListThreads, ResetDone,
           CollectThread, SearchDone
      <4>2. QED
        BY <4>1 DEF Typed, InHand, IsSave
    <3>3. QED
      BY <3>1, <3>2
  <2>3. QED
    BY <1>1, <1>2, <2>1, <2>2 DEF SavedIsKept
<1>7. QED
  BY <1>3, <1>4, <1>5, <1>6 DEF OnMemory

LEMMA SavedStep == Typed /\ SavedIsKept /\ [Next]_vars => SavedIsKept'
<1> SUFFICES ASSUME Typed, SavedIsKept, [Next]_vars PROVE SavedIsKept'
  OBVIOUS
<1>1. ASSUME NEW r \in Reqs, Starts(r) PROVE SavedIsKept'
  <2>1. UNCHANGED <<msgs, ms, wiped>>
    BY <1>1 DEF Starts, locals
  <2>2. \A x \in Reqs : at'[x] \in {"index", "ok"} => at'[x] = at[x] /\ req'[x] = req[x]
    BY <1>1, StartMoves
  <2>3. QED
    BY <2>1, <2>2 DEF SavedIsKept, IsSave
<1>2. ASSUME NEW r \in Reqs, OnArtifact(r) PROVE SavedIsKept'
  <2>1. UNCHANGED <<req, msgs, ms, wiped>> /\ \A x \in Reqs \ {r} : at'[x] = at[x]
    BY <1>2, OnMoves DEF OnArtifact, memoryVars
  <2>2. at[r] \in ArtifactPlaces
    BY <1>2 DEF OnArtifact, GetById, CreateBlock, UpdateBlock, FindVersion, RestoreVersion,
       ArtifactPlaces
  <2>3. ~ IsSave(r)
    BY <2>2 DEF Typed, InHand, ArtifactRequests, IsSave
  <2>4. QED
    BY <2>1, <2>3 DEF SavedIsKept, IsSave
<1>3. CASE Restart
  <2>1. UNCHANGED <<req, msgs, wiped>>
    BY <1>3, RestartMoves
  <2>2. \A x \in Reqs : at'[x] \in {"index", "ok"} => at'[x] = at[x] /\ ms'[x] = ms[x]
    BY <1>3, RestartMoves
  <2>3. QED
    BY <2>1, <2>2 DEF SavedIsKept, IsSave
<1>4. CASE Clock \/ UNCHANGED vars
  BY <1>4, ClockMoves DEF SavedIsKept, IsSave
<1>5. QED
  BY <1>1, <1>2, <1>3, <1>4, NextCases, SavedByMemory

-----------------------------------------------------------------------------
(* The inductive invariant.                                                *)
IInv ==
  /\ Typed
  /\ ThreadsInv
  /\ AppendsHaveSeen
  /\ HistoryInv
  /\ SavedIsKept

LEMMA TypedStep == Typed /\ RevertsFind /\ [Next]_vars => Typed'
<1> SUFFICES ASSUME Typed, RevertsFind, [Next]_vars PROVE Typed'
  OBVIOUS
<1>1. ASSUME NEW r \in Reqs, Starts(r) PROVE Typed'
  BY <1>1, TypedByAccept DEF Starts
<1>2. ASSUME NEW r \in Reqs, OnMemory(r) PROVE Typed'
  BY <1>2, TypedByThread, TypedBySave, TypedByWorkingMemory, TypedByList DEF OnMemory
<1>3. ASSUME NEW r \in Reqs, OnArtifact(r) PROVE Typed'
  <2>1. RestoreVersion(r) => version[r] \in 1..Len(block[req[r].block])
    BY DEF RestoreVersion, RevertsFind
  <2>2. QED
    BY <1>3, <2>1, TypedByArtifacts DEF OnArtifact
<1>4. CASE UNCHANGED vars
  BY <1>4 DEF vars, requestVars, memoryVars, artifactVars, Typed, InHand
<1>5. QED
  BY <1>1, <1>2, <1>3, <1>4, NextCases, TypedBySystem

LEMMA IInvInit == Init => IInv
<1> SUFFICES ASSUME Init PROVE IInv
  OBVIOUS
<1>1. /\ \A r \in Reqs : at[r] = "idle" /\ todo[r] = {}
      /\ msgs = {}
  BY DEF Init, RequestsInit, MemoryInit
<1>2. QED
  BY <1>1, TypedInit DEF IInv, ThreadsInv, SavesHaveThread, OrphansAreRaced, ListedIsOwn,
     AppendsHaveSeen, HistoryInv, RevertsFind, AnsweredInHistory, SavedIsKept

LEMMA IInvStep == IInv /\ [Next]_vars => IInv'
  BY TypedStep, ThreadsStep, AppendsStep, HistoryStep, SavedStep DEF IInv, HistoryInv

(* Every reachable state satisfies the inductive invariant, type           *)
(* correctness included.                                                   *)
THEOREM ServerHolds == Spec => []IInv
<1>1. QED
  BY IInvInit, IInvStep, PTL DEF Spec

(* A message is in a thread that exists unless a reset raced its save:     *)
(* ensureThread before every save (resources.ts:75), any lookup failing.   *)
THEOREM NoOrphans == Spec => []OrphansAreRaced
<1>1. IInv => OrphansAreRaced
  BY DEF IInv, ThreadsInv
<1>2. QED
  BY <1>1, ServerHolds, PTL

(* What a save stored stays until its thread is deleted (helpers.ts:15).   *)
THEOREM SavesAreKept == Spec => []SavedIsKept
<1>1. IInv => SavedIsKept
  BY DEF IInv
<1>2. QED
  BY <1>1, ServerHolds, PTL

(* Every artifact write that was answered "ok" is in the history of its    *)
(* block (helpers.ts:110, 141).                                            *)
THEOREM WritesAreInHistory == Spec => []AnsweredInHistory
<1>1. IInv => AnsweredInHistory
  BY DEF IInv, HistoryInv
<1>2. QED
  BY <1>1, ServerHolds, PTL
(* A reset removes threads of its own profile only (routes-admin.ts:62).   *)
THEOREM ResetsSpare == Spec => ResetSparesOthers
<1>1. IInv /\ [Next]_vars =>
        [\A t \in Threads :
           owner[t] # None /\ owner'[t] = None =>
             \E r \in Reqs : /\ at[r] = "delete" /\ req[r].route = "reset"
                             /\ owner[t] = Resource(r) \/ r \in stale]_vars
  <2> SUFFICES ASSUME IInv, [Next]_vars, NEW t \in Threads, owner[t] # None, owner'[t] = None
               PROVE  \E r \in Reqs : /\ at[r] = "delete" /\ req[r].route = "reset"
                                      /\ owner[t] = Resource(r) \/ r \in stale
    OBVIOUS
  <2>1. Typed /\ ListedIsOwn
    BY DEF IInv, ThreadsInv
  <2>2. PICK r \in Reqs : CreateThread(r) \/ DeleteThread(r)
    <3>1. PICK r \in Reqs : Starts(r) \/ OnMemory(r) \/ OnArtifact(r)
      BY <2>1, NextCases, RestartMoves, ClockMoves
    <3>2. OnMemory(r)
      BY <3>1 DEF Starts, OnArtifact, memoryVars
    <3>3. QED
      BY <3>2 DEF OnMemory, GetThread, SaveMessages, IndexObservation, ExistingWorkingMemory,
         UpdateWorkingMemory, ListThreads, ResetDone, CollectThread, SearchDone, memoryVars
  <2>3. CASE CreateThread(r)
    <3>1. req[r] \in MemoryRequests
      BY <2>1, <2>3 DEF CreateThread, Typed, InHand, MemoryPlaces
    <3>2. owner' = owner \/ owner' = [owner EXCEPT ![req[r].thread] = Resource(r)]
      BY <2>3 DEF CreateThread
    <3>3. Resource(r) # None
      BY <3>1, ResourceTyped, MemoryAssumption
    <3>4. QED
      BY <2>1, <3>2, <3>3 DEF Typed
  <2>4. CASE DeleteThread(r)
    <3>1. at[r] = "delete" /\ req[r].route = "reset"
      BY <2>1, <2>4 DEF DeleteThread, Typed, InHand
    <3>2. t \in todo[r]
      BY <2>1, <2>4 DEF DeleteThread, Typed
    <3>3. QED
      BY <2>1, <3>1, <3>2 DEF ListedIsOwn
  <2>5. QED
    BY <2>2, <2>3, <2>4
<1>2. QED
  BY <1>1, ServerHolds, PTL DEF ResetSparesOthers, Spec

(* An append alone with a healthy storage keeps what the working memory    *)
(* held (routes-memory.ts:69, 91).                                         *)
THEOREM AppendsKeep == Spec => LoneAppendKeeps
<1>1. IInv /\ [Next]_vars =>
        [\A n \in Names :
           wm[n] \subseteq wm'[n] \/
           \E r \in Reqs : /\ at[r] = "write" /\ at'[r] = "ok" /\ Resource(r) = n
                           /\ req[r].route = "set" \/ r \in stale \cup blind]_vars
  <2> SUFFICES ASSUME IInv, [Next]_vars, NEW n \in Names, ~ (wm[n] \subseteq wm'[n])
               PROVE  \E r \in Reqs : /\ at[r] = "write" /\ at'[r] = "ok" /\ Resource(r) = n
                                      /\ req[r].route = "set" \/ r \in stale \cup blind
    BY DEF vars, memoryVars
  <2>1. Typed /\ AppendsHaveSeen
    BY DEF IInv
  <2>2. PICK r \in Reqs : UpdateWorkingMemory(r)
    <3>1. PICK r \in Reqs : Starts(r) \/ OnMemory(r) \/ OnArtifact(r)
      BY <2>1, NextCases, RestartMoves, ClockMoves
    <3>2. OnMemory(r)
      BY <3>1 DEF Starts, OnArtifact, memoryVars
    <3>3. QED
      BY <3>2 DEF OnMemory, GetThread, CreateThread, SaveMessages, IndexObservation,
         ExistingWorkingMemory, ListThreads, DeleteThread, ResetDone, CollectThread, SearchDone,
         memoryVars
  <2>3. /\ at[r] = "write" /\ at'[r] = "ok"
        /\ wm' = [wm EXCEPT ![Resource(r)] = seen[r] \cup {r}]
    BY <2>1, <2>2 DEF UpdateWorkingMemory, Goto, Typed
  <2>4. Resource(r) = n /\ wm'[n] = seen[r] \cup {r}
    BY <2>1, <2>3 DEF Typed
  <2>5. QED
    BY <2>1, <2>3, <2>4 DEF AppendsHaveSeen
<1>2. QED
  BY <1>1, ServerHolds, PTL DEF LoneAppendKeeps, Spec
=============================================================================
