---------------------------- MODULE MastraServer ----------------------------
(***************************************************************************)
(* The whole server of src/server: the memory and admin routes and the     *)
(* artifact routes over one event loop, and the death of its process,      *)
(* which loses the requests in hand and profilesSeen but not the storage.  *)
(***************************************************************************)
EXTENDS MemoryRoutes, ArtifactRoutes

CONSTANT MaxRestarts  \* bound on the deaths of the server

VARIABLE restarts

vars == <<requestVars, memoryVars, artifactVars, restarts>>

Init ==
  /\ RequestsInit
  /\ MemoryInit
  /\ ArtifactInit
  /\ restarts = 0

Restart ==
  /\ restarts < MaxRestarts
  /\ restarts' = restarts + 1
  /\ at' = [r \in Reqs |-> IF Waiting(r) THEN "lost" ELSE at[r]]
  /\ profilesSeen' = {}
  /\ ms' = [r \in Reqs |-> IF Waiting(r) THEN 0 ELSE ms[r]]
  /\ seen' = [r \in Reqs |-> {}]
  /\ todo' = [r \in Reqs |-> {}]
  /\ hits' = [r \in Reqs |-> {}]
  /\ UNCHANGED <<req, owner, msgs, wm, now, stale, blind, wiped, artifactVars>>

Memory(r) == MemoryStep(r) /\ UNCHANGED <<artifactVars, restarts>>
Artifacts(r) == ArtifactStep(r) /\ UNCHANGED <<memoryVars, restarts>>
Unauthorized(r) == Refuse(r) /\ UNCHANGED <<memoryVars, artifactVars, restarts>>
Clock == Tick /\ UNCHANGED <<artifactVars, restarts>>

Next ==
  \/ \E r \in Reqs : Memory(r) \/ Artifacts(r) \/ Unauthorized(r)
  \/ Clock
  \/ Restart

Spec == Init /\ [][Next]_vars

-----------------------------------------------------------------------------
(* A message is in a thread that exists, unless the thread was deleted     *)
(* while its save was under way: ensureThread (resources.ts:75) comes      *)
(* before every save, whatever its lookup does.                            *)
OrphansAreRaced ==
  \A m \in msgs : owner[m.thread] = None => m.by \in stale

(* What a save stored stays until its thread is deleted; only a save on    *)
(* the same thread in the same millisecond can replace it (helpers.ts:15). *)
SavedIsKept ==
  \A r \in Reqs :
    at[r] \in {"index", "ok"} /\ IsSave(r) /\ r \notin wiped =>
      \A i \in req[r].parts :
        \E m \in msgs : m.thread = req[r].thread /\ m.ms = ms[r] /\ m.idx = i

(* An artifact write that was answered "ok" is in the history of its       *)
(* block, and a revert answered "ok" has brought the version it names back *)
(* behind that version, whatever else wrote to the block meanwhile         *)
(* (helpers.ts:110, 141).                                                  *)
AnsweredInHistory ==
  \A r \in Reqs :
    /\ at[r] = "ok" /\ req[r].route = "upsert" =>
         \E i \in DOMAIN block[req[r].block] : block[req[r].block][i] = r
    /\ at[r] = "ok" /\ req[r].route = "revert" =>
         \E i \in DOMAIN block[req[r].block] :
           /\ i > version[r]
           /\ block[req[r].block][i] = block[req[r].block][version[r]]

(* An append to the working memory keeps what others wrote, unless another *)
(* write came between its read and its write or its read threw             *)
(* (routes-memory.ts:69, 91): alone and with a healthy storage it loses    *)
(* nothing.                                                                *)
LoneAppendKeeps ==
  [][\A n \in Names :
       wm[n] \subseteq wm'[n] \/
       \E r \in Reqs : /\ at[r] = "write" /\ at'[r] = "ok" /\ Resource(r) = n
                       /\ req[r].route = "set" \/ r \in stale \cup blind]_vars

(* Only a reset removes threads, and only those of its profile's resource, *)
(* unless a thread changed hands after it was listed (routes-admin.ts:62). *)
ResetSparesOthers ==
  [][\A t \in Threads :
       owner[t] # None /\ owner'[t] = None =>
         \E r \in Reqs : /\ at[r] = "delete" /\ req[r].route = "reset"
                         /\ owner[t] = Resource(r) \/ r \in stale]_vars

(* "wipe all threads/observations for a profile" (README.md:473) and "Wipe *)
(* ALL Mastra data for profile" (cli_commands.py:221): a reset that is     *)
(* answered when nothing else is under way leaves nothing in the working   *)
(* memory of its profile.                                                  *)
ResetWipesMemory ==
  [][\A r \in Reqs :
       /\ at[r] = "delete" /\ at'[r] = "ok"
       /\ \A x \in Reqs \ {r} : ~ Waiting(x)
       => wm'[Resource(r)] = {}]_vars
=============================================================================
