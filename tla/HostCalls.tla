----------------------------- MODULE HostCalls -----------------------------
(***************************************************************************)
(* The calls that threads of Hermes, and other processes on the same home  *)
(* directory, make into the plugin.  A call runs in steps; between two of  *)
(* them other callers run.                                                 *)
(***************************************************************************)
EXTENDS Naturals, FiniteSets

CONSTANTS Callers,
          MaxCalls  \* bound on the calls begun

VARIABLES pc,    \* pc[c]: "idle", or the step caller c is to take next
          calls  \* calls begun

callVars == <<pc, calls>>

CallsInit ==
  /\ pc = [c \in Callers |-> "idle"]
  /\ calls = 0

Goto(c, next) ==
  /\ pc' = [pc EXCEPT ![c] = next]
  /\ UNCHANGED calls

Begin(c, next) ==
  /\ pc[c] = "idle" /\ calls < MaxCalls
  /\ pc' = [pc EXCEPT ![c] = next]
  /\ calls' = calls + 1

(* A call that runs to its end in one step. *)
Once(c) == Begin(c, "idle")
=============================================================================
