------------------------------ MODULE Requests ------------------------------
(***************************************************************************)
(* The requests the Bun server has in hand.  The server is one event loop: *)
(* a handler runs alone between two awaits, and while it awaits the        *)
(* storage behind @mastra/memory other handlers run.  A step of the route  *)
(* modules is therefore the storage operation a request awaits, with the   *)
(* code that runs when it is back, up to the next await.  Any storage      *)
(* operation may throw.                                                    *)
(***************************************************************************)
EXTENDS Naturals, FiniteSets

CONSTANTS Reqs,  \* requests; each is sent once
          None   \* no thread, no owner

VARIABLES at,    \* at[r]: "idle", the operation r awaits, or how it ended
          req    \* req[r]: what the handler parsed from the request

requestVars == <<at, req>>

Ended == {"ok", "error", "refused", "notfound", "lost"}

Waiting(r) == at[r] \notin Ended \cup {"idle"}

RequestsInit ==
  /\ at = [r \in Reqs |-> "idle"]
  /\ req = [r \in Reqs |-> None]

(* A route's handler starts, and runs to its first await. *)
Accept(r, q, await) ==
  /\ at[r] = "idle"
  /\ req' = [req EXCEPT ![r] = q]
  /\ at' = [at EXCEPT ![r] = await]

(* Request r goes on to await `next`, or ends with that answer. *)
Goto(r, next) ==
  /\ at' = [at EXCEPT ![r] = next]
  /\ UNCHANGED req

(* The middleware answers 401 to a wrong token, and a handler answers 400  *)
(* to a body that lacks what it needs: nothing else happens.               *)
Refuse(r) ==
  /\ at[r] = "idle"
  /\ Goto(r, "refused")
=============================================================================
