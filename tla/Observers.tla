----------------------------- MODULE Observers -----------------------------
(***************************************************************************)
(* The observers of tool_observers.py and agent_observers.py, called by    *)
(* the post_tool_call hook on whatever thread ran the tool.  Some write    *)
(* every time; others remember in a set on the provider what they have     *)
(* written.  That set is made by the first call that finds none, and is    *)
(* shared without a lock.                                                  *)
(***************************************************************************)
EXTENDS HostCalls

CONSTANTS Keys,        \* names of skills, fingerprints of files, texts of goals
          Kinds,       \* kinds of observation whose writes are remembered
          NoOne,
          MaxSession   \* bound on the number of session switches

ASSUME ObserverAssumption ==
  /\ NoOne \notin Callers \cup Kinds \cup Keys
  /\ MaxSession \in Nat

VARIABLES
  client,   \* p._client is there
  session,  \* p._thread, as the number of switches so far
  made,     \* made[k]: the caller whose set is the provider's for kind k, or NoOne
  sets,     \* sets[k][c]: the set that caller c made for kind k
  call,     \* call[c]: kind, key and id of the call under way, and the maker of
            \* the set it works on
  written,  \* history: the observations enqueued, of kind NoOne those of the
            \* handlers that do not remember
  doubled   \* history: kinds of which two calls overlapped

observerVars == <<client, session, made, sets, call, written, doubled>>

NoCall == [kind |-> NoOne, key |-> NoOne, id |-> 0, maker |-> NoOne]

ObserversInit ==
  /\ client \in BOOLEAN
  /\ session = 0
  /\ made = [k \in Kinds |-> NoOne]
  /\ sets = [k \in Kinds |-> [c \in Callers |-> {}]]
  /\ call = [c \in Callers |-> NoCall]
  /\ written = {}
  /\ doubled = {}

Observation(c) ==
  [kind |-> call[c].kind, key |-> call[c].key, id |-> call[c].id, session |-> session]

(* The steps in which a call works on the set of its kind. *)
Deduping(c) == pc[c] \in {"look", "claim"}

(* The handlers that do not remember: each takes client and thread, then   *)
(* enqueues an observation for every text it was given; without a client,  *)
(* or without a text, none.  They run in one step each.                    *)
Emit(c, most) ==
  \E texts \in SUBSET (1..most) :
    /\ client
    /\ Once(c)
    /\ written' = written \cup
         {[kind |-> NoOne, key |-> t, id |-> calls', session |-> session] : t \in texts}
    /\ UNCHANGED <<client, session, made, sets, call, doubled>>

do_kanban_event(c) == Emit(c, 1)
do_goal_event(c) == Emit(c, 1)
do_todo_snapshot(c) == Emit(c, 1)
do_execute_code(c) == Emit(c, 1)
do_personality_changed(c) == Emit(c, 1)
do_batch(c) == Emit(c, 1)

(* MEMORY.md and USER.md, of one and the same session. *)
do_memory_snapshot(c) == Emit(c, 2)

(* alive(), then the set of the kind, or a new one if there is none yet.   *)
Observe(c) ==
  \E k \in Kinds, key \in Keys :
    LET maker == IF made[k] = NoOne THEN c ELSE made[k] IN
    /\ client
    /\ Begin(c, "look")
    /\ call' = [call EXCEPT ![c] =
                  [kind |-> k, key |-> key, id |-> calls', maker |-> maker]]
    /\ sets' = IF made[k] = NoOne THEN [sets EXCEPT ![k][c] = {}] ELSE sets
    /\ doubled' = IF \E x \in Callers : Deduping(x) /\ call[x].kind = k
                  THEN doubled \cup {k} ELSE doubled
    /\ UNCHANGED <<client, session, made, written>>

(* What the tools' handlers call. *)
_POST_TOOL_HANDLERS(c) ==
  \/ Observe(c)
  \/ do_execute_code(c) \/ do_todo_snapshot(c) \/ do_kanban_event(c) \/ do_goal_event(c)

(* The post_tool_call hook finds the handler of the tool, or none. *)
_make_post_tool_call(c) ==
  \/ Once(c) /\ UNCHANGED observerVars
  \/ _POST_TOOL_HANDLERS(c)

LookUp(c) ==
  /\ pc[c] = "look"
  /\ IF call[c].key \in sets[call[c].kind][call[c].maker]
     THEN Goto(c, "idle") /\ call' = [call EXCEPT ![c] = NoCall]
     ELSE Goto(c, "claim") /\ UNCHANGED call
  /\ UNCHANGED <<client, session, made, sets, written, doubled>>

(* Faulty variant: a set that was made is not kept on the provider. *)
ClaimLocally(c) ==
  /\ pc[c] = "claim"
  /\ sets' = [sets EXCEPT ![call[c].kind][call[c].maker] = @ \cup {call[c].key}]
  /\ Goto(c, "write")
  /\ UNCHANGED <<client, session, made, call, written, doubled>>

(* The key is claimed before the observation is written. *)
Claim(c) ==
  /\ pc[c] = "claim"
  /\ sets' = [sets EXCEPT ![call[c].kind][call[c].maker] = @ \cup {call[c].key}]
  /\ made' = [made EXCEPT ![call[c].kind] = call[c].maker]
  /\ Goto(c, "write")
  /\ UNCHANGED <<client, session, call, written, doubled>>

(* The thread is read only now, and a client that is gone by now leaves a  *)
(* key that was claimed for nothing.                                       *)
Write(c) ==
  /\ pc[c] = "write"
  /\ written' = IF client THEN written \cup {Observation(c)} ELSE written
  /\ Goto(c, "idle")
  /\ call' = [call EXCEPT ![c] = NoCall]
  /\ UNCHANGED <<client, session, made, sets, doubled>>

(* on_session_reset and Hermes' own switch; the sets stay. *)
SwitchSession(c) ==
  /\ client /\ session < MaxSession
  /\ Once(c)
  /\ session' = session + 1
  /\ UNCHANGED <<client, made, sets, call, written, doubled>>

(* The bring-up or the shutdown of the provider. *)
SetClient(value) ==
  /\ client' = value
  /\ UNCHANGED <<session, made, sets, call, written, doubled>>

(* What Hermes' features call without the hook. *)
Feature(c) == do_memory_snapshot(c) \/ do_personality_changed(c) \/ do_batch(c)

ObserverStep(c) ==
  \/ _make_post_tool_call(c) \/ Feature(c)
  \/ LookUp(c) \/ Claim(c) \/ Write(c) \/ SwitchSession(c)

(* A skill, a set of context files, a SOUL.md or a goal is written at most *)
(* once in a session (tool_observers.py:48, agent_observers.py:93, 168),   *)
(* although the set that remembers it is made on first use and shared by   *)
(* threads, the thread is read after the key was claimed, and sessions     *)
(* switch meanwhile; unless two calls of the kind overlapped.  That a key  *)
(* is written in every session that meets it is not so: nothing empties    *)
(* the set, and what one session claimed the next ones do not write.       *)
WrittenOncePerSession ==
  \A v, w \in written :
    /\ v.kind \in Kinds \ doubled
    /\ v.kind = w.kind /\ v.key = w.key /\ v.session = w.session
    => v = w
=============================================================================
