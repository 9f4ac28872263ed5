--------------------------- MODULE RunnerContract ---------------------------
(***************************************************************************)
(* What the work queue promises those who submit to it, as the header of   *)
(* async_runner.py:9-29 puts it: accepted work waits in a bounded queue    *)
(* until a worker takes it, oldest first, and runs it once; when work is   *)
(* dropped it is the oldest that waits.  Work is named by the order in     *)
(* which it was accepted.  The specifications of the hooks see the runner  *)
(* like this.                                                              *)
(***************************************************************************)
EXTENDS Integers, FiniteSets

CONSTANTS Workers, Capacity, NoWork

VARIABLES
    accepted, \* how many calls of submit() were answered True
    waiting,  \* the work that waits in the queue
    job,      \* what each worker runs, or NoWork
    done,     \* the work that ran
    lost      \* the work that was dropped

vars == <<accepted, waiting, job, done, lost>>

Init ==
    /\ accepted = 0
    /\ waiting = {}
    /\ job = [w \in Workers |-> NoWork]
    /\ done = {}
    /\ lost = {}

Oldest(n) == n \in waiting /\ \A m \in waiting : n <= m

\* submit() is answered True.
Accept ==
    /\ Cardinality(waiting) < Capacity
    /\ accepted' = accepted + 1
    /\ waiting' = waiting \cup {accepted'}
    /\ UNCHANGED <<job, done, lost>>

\* A full queue is relieved of its oldest work.
DropOldest ==
    \E n \in waiting :
        /\ Oldest(n)
        /\ waiting' = waiting \ {n}
        /\ lost' = lost \cup {n}
        /\ UNCHANGED <<accepted, job, done>>

Take(w) ==
    \E n \in waiting :
        /\ Oldest(n)
        /\ job[w] = NoWork
        /\ waiting' = waiting \ {n}
        /\ job' = [job EXCEPT ![w] = n]
        /\ UNCHANGED <<accepted, done, lost>>

\* The work returns, or raises what the worker swallows.
Complete(w) ==
    /\ job[w] # NoWork
    /\ done' = done \cup {job[w]}
    /\ job' = [job EXCEPT ![w] = NoWork]
    /\ UNCHANGED <<accepted, waiting, lost>>

Next ==
    \/ Accept
    \/ DropOldest
    \/ \E w \in Workers : Take(w) \/ Complete(w)

Spec == Init /\ [][Next]_vars

=============================================================================
